------------------------ MODULE ImageHandles_proofs ------------------------
(***************************************************************************)
(* A script that frees only the images it made never gets, nor gives       *)
(* anyone else, a handle that is in use: proved for any number of windows, *)
(* movies and handles.                                                     *)
(*                                                                         *)
(* The inductive invariant lists what the stack of free handles must be:   *)
(* without repetition, apart from the reserved handles and the held ones,  *)
(* and below handleCount, from which the handles of the next Chunk are     *)
(* numbered.                                                               *)
(***************************************************************************)
EXTENDS ImageHandles, SequenceTheorems, TLAPS

StackInv ==
  /\ \A i, j \in 1 .. Len(handles) : i # j => handles[i] # handles[j]
  /\ \A i \in 1 .. Len(handles) : /\ handles[i] \in 3 .. (handleCount - 1)
                                  /\ handles[i] \notin Held
                                  /\ handleVals[handles[i]] = NULL

ImagesInv ==
  /\ ImagesTypeOK
  /\ StackInv
  /\ Exclusive
  /\ KeepsImage
  /\ Held \subseteq 3 .. (handleCount - 1)
  /\ \A h \in Handles : h >= handleCount => handleVals[h] = NULL

(* What is left of a stack without its top.                                *)
LEMMA PopEffect ==
  ASSUME NEW S, NEW s \in Seq(S), NEW n \in Nat, n = Len(s), n >= 1
  PROVE  /\ SubSeq(s, 1, n - 1) \in Seq(S)
         /\ Len(SubSeq(s, 1, n - 1)) = n - 1
         /\ \A i \in 1 .. (n - 1) : SubSeq(s, 1, n - 1)[i] = s[i]
<1>1. 1 \in Int /\ n - 1 \in Int
  OBVIOUS
<1>2. \A i \in 1 .. (n - 1) : s[i] \in S
  OBVIOUS
<1>3. /\ SubSeq(s, 1, n - 1) \in Seq(S)
      /\ Len(SubSeq(s, 1, n - 1)) = IF 1 <= n - 1 THEN (n - 1) - 1 + 1 ELSE 0
      /\ \A i \in 1 .. ((n - 1) - 1 + 1) : SubSeq(s, 1, n - 1)[i] = s[1 + i - 1]
  BY <1>1, <1>2, SubSeqProperties
<1>4. /\ (n - 1) - 1 + 1 = n - 1
      /\ (IF 1 <= n - 1 THEN (n - 1) - 1 + 1 ELSE 0) = n - 1
      /\ \A i \in 1 .. (n - 1) : 1 + i - 1 = i
  OBVIOUS
<1>5. QED
  BY <1>3, <1>4

(* What Alloc does to the stack, and which handle it gives out.            *)
LEMMA AllocEffect ==
  ASSUME ImagesInv, NEW ptr \in Images \cup {NULL}, NEW h \in Handles, Alloc(ptr, h)
  PROVE  /\ h \in 3 .. (handleCount' - 1)
         /\ h \notin Held
         /\ handles' \in Seq(Handles)
         /\ handleCount' \in 3 .. MaxHandles /\ handleCount' >= handleCount
         /\ handleVals' = [handleVals EXCEPT ![h] = ptr]
         /\ \A i, j \in 1 .. Len(handles') : i # j => handles'[i] # handles'[j]
         /\ \A i \in 1 .. Len(handles') : /\ handles'[i] \in 3 .. (handleCount' - 1)
                                          /\ handles'[i] \notin Held
                                          /\ handles'[i] # h
                                          /\ handleVals[handles'[i]] = NULL
<1>1. ImagesTypeOK
  BY DEF ImagesInv
<1>2. CASE handles = <<>>
  <2>1. /\ FreeStack = [i \in 1 .. Chunk |-> handleCount + i - 1]
        /\ handleCount' = handleCount + Chunk /\ handleCount' <= MaxHandles
    BY <1>2 DEF FreeStack, GrownCount, Alloc
  <2>2. QED
    BY <1>1, <1>2, <2>1, ImagesAssumption
    DEF Alloc, ImagesInv, ImagesTypeOK, Handles, GrownCount
<1>3. CASE handles # <<>>
  <2> DEFINE n == Len(handles)
  <2>1. FreeStack = handles /\ handleCount' = handleCount
    BY <1>3 DEF FreeStack, GrownCount, Alloc
  <2>2. n \in Nat /\ n >= 1
    BY <1>1, <1>3 DEF ImagesTypeOK
  <2>3. h = handles[n] /\ handles' = SubSeq(handles, 1, n - 1)
    BY <2>1 DEF Alloc
  <2>4. /\ handles' \in Seq(Handles) /\ Len(handles') = n - 1
        /\ \A i \in 1 .. (n - 1) : handles'[i] = handles[i]
    BY <1>1, <2>2, <2>3, PopEffect DEF ImagesTypeOK
  <2>5. n \in 1 .. n /\ \A i \in 1 .. (n - 1) : i \in 1 .. n /\ i # n
    BY <2>2
  <2>6. /\ \A i, j \in 1 .. n : i # j => handles[i] # handles[j]
        /\ \A i \in 1 .. n : /\ handles[i] \in 3 .. (handleCount - 1)
                             /\ handles[i] \notin Held
                             /\ handleVals[handles[i]] = NULL
    BY DEF ImagesInv, StackInv
  <2>7. handleVals' = [handleVals EXCEPT ![h] = ptr]
    BY DEF Alloc
  <2>8. handleCount \in 3 .. MaxHandles
    BY <1>1 DEF ImagesTypeOK
  <2>9. \A i, j \in 1 .. Len(handles') : i # j => handles'[i] # handles'[j]
    BY <2>4, <2>5, <2>6
  <2>10. \A i \in 1 .. Len(handles') : /\ handles'[i] \in 3 .. (handleCount - 1)
                                       /\ handles'[i] \notin Held
                                       /\ handles'[i] # h
                                       /\ handleVals[handles'[i]] = NULL
    BY <2>3, <2>4, <2>5, <2>6
  <2>11. h \in 3 .. (handleCount - 1) /\ h \notin Held
    BY <2>3, <2>5, <2>6
  <2>12. QED
    BY <2>1, <2>4, <2>7, <2>8, <2>9, <2>10, <2>11
<1>4. QED
  BY <1>2, <1>3

(* Arithmetic of a count that grew.                                        *)
LEMMA GrownRange ==
  ASSUME NEW a \in Int, NEW b \in Int, b >= a, NEW x \in 3 .. (a - 1)
  PROVE  x \in 3 .. (b - 1)
OBVIOUS

LEMMA BeyondRange ==
  ASSUME NEW b \in Int, NEW x \in Int, x >= b, NEW h \in 3 .. (b - 1)
  PROVE  x # h
OBVIOUS

SetInv ==
  /\ handles \in Seq(Handles)
  /\ handleCount \in 3 .. MaxHandles
  /\ handleVals \in [Handles -> Images \cup {NULL}]
  /\ StackInv
  /\ Held \subseteq 3 .. (handleCount - 1)
  /\ \A h \in Handles : h >= handleCount => handleVals[h] = NULL

(* A user takes the handle that Alloc gives out.                           *)
LEMMA HandleTaken ==
  ASSUME ImagesInv, NEW ptr \in Images \cup {NULL}, NEW h \in Handles, Alloc(ptr, h),
         Held' = Held \cup {h}
  PROVE  SetInv' /\ h \in 3 .. (handleCount' - 1) /\ h \notin Held
<1>1. /\ h \in 3 .. (handleCount' - 1)
      /\ h \notin Held
      /\ handleCount' \in 3 .. MaxHandles /\ handleCount' >= handleCount
      /\ handleVals' = [handleVals EXCEPT ![h] = ptr]
  BY AllocEffect
<1>2. /\ handles' \in Seq(Handles)
      /\ \A i, j \in 1 .. Len(handles') : i # j => handles'[i] # handles'[j]
      /\ \A i \in 1 .. Len(handles') : /\ handles'[i] \in 3 .. (handleCount' - 1)
                                       /\ handles'[i] \notin Held
                                       /\ handles'[i] # h
                                       /\ handleVals[handles'[i]] = NULL
  BY AllocEffect
<1>3. /\ handleVals \in [Handles -> Images \cup {NULL}]
      /\ handleCount \in 3 .. MaxHandles
      /\ Held \subseteq 3 .. (handleCount - 1)
      /\ \A x \in Handles : x >= handleCount => handleVals[x] = NULL
  BY DEF ImagesInv, ImagesTypeOK
<1>4. handleVals' \in [Handles -> Images \cup {NULL}]
  BY <1>1, <1>3
<1>5. StackInv'
  <2>1. \A i \in 1 .. Len(handles') : handles'[i] \in Handles
    BY <1>2
  <2>2. QED
    BY <1>1, <1>2, <1>3, <2>1 DEF StackInv
<1>6. handleCount \in Int /\ handleCount' \in Int
  BY <1>1, <1>3, ImagesAssumption
<1>7. Held' \subseteq 3 .. (handleCount' - 1)
  <2> SUFFICES ASSUME NEW x \in Held'
               PROVE  x \in 3 .. (handleCount' - 1)
    OBVIOUS
  <2>1. CASE x = h
    BY <1>1, <2>1
  <2>2. CASE x \in Held
    <3>1. x \in 3 .. (handleCount - 1)
      BY <1>3, <2>2
    <3>2. handleCount' >= handleCount
      BY <1>1
    <3>3. QED
      BY <1>6, <3>1, <3>2, GrownRange
  <2>3. QED
    BY <2>1, <2>2
<1>8. \A x \in Handles : x >= handleCount' => handleVals'[x] = NULL
  <2> SUFFICES ASSUME NEW x \in Handles, x >= handleCount'
               PROVE  handleVals'[x] = NULL
    OBVIOUS
  <2>1. x \in Int /\ x >= handleCount' /\ handleCount' >= handleCount
    BY <1>1, ImagesAssumption DEF Handles
  <2>2. x >= handleCount
    BY <1>6, <2>1
  <2>3. handleVals[x] = NULL
    BY <1>3, <2>2
  <2>4. x # h
    BY <1>1, <1>6, <2>1, BeyondRange
  <2>5. QED
    BY <1>1, <1>3, <2>3, <2>4
<1>9. QED
  BY <1>1, <1>2, <1>4, <1>5, <1>7, <1>8 DEF SetInv

(* A user gives back a handle it holds.                                    *)
LEMMA HandleReturned ==
  ASSUME ImagesInv, NEW h \in Held, FreeHandle(h), Held' = Held \ {h}
  PROVE  SetInv'
<1>1. /\ handles \in Seq(Handles)
      /\ handleVals \in [Handles -> Images \cup {NULL}]
      /\ handleCount \in 3 .. MaxHandles
      /\ h \in 3 .. (handleCount - 1)
      /\ Held \subseteq 3 .. (handleCount - 1)
      /\ \A x \in Handles : x >= handleCount => handleVals[x] = NULL
  BY DEF ImagesInv, ImagesTypeOK
<1>2. h \in Handles
  BY <1>1, ImagesAssumption DEF Handles
<1>3. /\ handleVals' = [handleVals EXCEPT ![h] = NULL]
      /\ handles' = Append(handles, h)
      /\ handleCount' = handleCount
  BY DEF FreeHandle
<1>4. /\ handles' \in Seq(Handles)
      /\ Len(handles') = Len(handles) + 1
      /\ \A i \in 1 .. Len(handles) : handles'[i] = handles[i]
      /\ handles'[Len(handles) + 1] = h
  BY <1>1, <1>2, <1>3, AppendProperties
<1>5. /\ \A i, j \in 1 .. Len(handles) : i # j => handles[i] # handles[j]
      /\ \A i \in 1 .. Len(handles) : /\ handles[i] \in 3 .. (handleCount - 1)
                                      /\ handles[i] \notin Held
                                      /\ handleVals[handles[i]] = NULL
  BY DEF ImagesInv, StackInv
<1>6. \A i \in 1 .. Len(handles') : i \in 1 .. Len(handles) \/ i = Len(handles) + 1
  BY <1>1, <1>4
<1>7. \A i, j \in 1 .. Len(handles') : i # j => handles'[i] # handles'[j]
  BY <1>4, <1>5, <1>6
<1>8. \A i \in 1 .. Len(handles') : /\ handles'[i] \in 3 .. (handleCount' - 1)
                                   /\ handles'[i] \notin Held'
                                   /\ handleVals'[handles'[i]] = NULL
  <2>1. \A x \in Handles : handleVals[x] = NULL \/ x = h => handleVals'[x] = NULL
    BY <1>1, <1>3
  <2>2. \A i \in 1 .. Len(handles') : handles'[i] \in Handles
    BY <1>4
  <2>3. QED
    BY <1>1, <1>3, <1>4, <1>5, <1>6, <2>1, <2>2
<1>9. StackInv'
  BY <1>7, <1>8 DEF StackInv
<1>10. /\ handleVals' \in [Handles -> Images \cup {NULL}]
       /\ \A x \in Handles : x >= handleCount' => handleVals'[x] = NULL
       /\ Held' \subseteq 3 .. (handleCount' - 1)
  BY <1>1, <1>3
<1>11. QED
  BY <1>1, <1>3, <1>4, <1>9, <1>10 DEF SetInv

(* A new image behind a handle in use leaves the set as it was.            *)
LEMMA HandleOverwritten ==
  ASSUME ImagesInv, NEW ptr \in Images \cup {NULL}, NEW h \in Reserved \cup Held,
         SetHandleImage(h, ptr), Held' = Held
  PROVE  SetInv'
<1>1. /\ handles \in Seq(Handles)
      /\ handleVals \in [Handles -> Images \cup {NULL}]
      /\ handleCount \in 3 .. MaxHandles
      /\ Held \subseteq 3 .. (handleCount - 1)
      /\ \A x \in Handles : x >= handleCount => handleVals[x] = NULL
  BY DEF ImagesInv, ImagesTypeOK
<1>2. /\ handleVals' = [handleVals EXCEPT ![h] = ptr]
      /\ handles' = handles /\ handleCount' = handleCount
  BY DEF SetHandleImage
<1>3. h \in 0 .. (handleCount - 1)
  BY <1>1, ImagesAssumption DEF Reserved
<1>4. \A i \in 1 .. Len(handles) : /\ handles[i] \in 3 .. (handleCount - 1)
                                  /\ handles[i] \notin Held
                                  /\ handleVals[handles[i]] = NULL
  BY DEF ImagesInv, StackInv
<1>5. \A i \in 1 .. Len(handles) : handles[i] # h /\ handles[i] \in Handles
  BY <1>1, <1>4 DEF Reserved
<1>6. StackInv'
  BY <1>1, <1>2, <1>4, <1>5 DEF StackInv, ImagesInv
<1>7. \A x \in Handles : x >= handleCount => x # h
  BY <1>1, <1>3, ImagesAssumption DEF Handles
<1>8. QED
  BY <1>1, <1>2, <1>6, <1>7 DEF SetInv

(* What the invariant says of the set and of its users, and the parts.     *)
LEMMA InvParts ==
  ASSUME ImagesInv
  PROVE  /\ handles \in Seq(Handles) /\ handleCount \in 3 .. MaxHandles
         /\ handleVals \in [Handles -> Images \cup {NULL}]
         /\ imgHandle \in [Parts -> Handles] /\ refs \subseteq Handles
         /\ Exclusive /\ KeepsImage /\ Held \subseteq 3 .. (handleCount - 1)
         /\ Windows \cap Movies = {} /\ Windows \subseteq Parts /\ Movies \subseteq Parts
         /\ "script" \in Images /\ "vsp" \in Images /\ "screen" \in Images
         /\ Parts \subseteq Images
BY ImagesAssumption DEF ImagesInv, ImagesTypeOK, Parts, Images

(* A handle nobody holds is in no user's share.                            *)
LEMMA NotHeld ==
  ASSUME ImagesInv, NEW h, h \notin Held
  PROVE  \A u \in Users : h \notin HeldBy[u]
BY InvParts DEF Users, HeldBy, Held, Open

LEMMA LoadImageStep ==
  ASSUME ImagesInv, LoadImage
  PROVE  ImagesInv' /\ \E h \in Handles : Pool!Acquire("script", h)
<1>1. PICK h \in Handles : /\ Alloc("script", h)
                           /\ refs' = refs \cup {h}
                           /\ imgHandle' = imgHandle
  BY DEF LoadImage
<1>2. Open' = Open
  BY <1>1 DEF Open
<1>3. Held' = Held \cup {h}
  BY <1>1, <1>2 DEF Held
<1>4. SetInv' /\ h \in 3 .. (handleCount' - 1) /\ h \notin Held
  BY <1>1, <1>3, HandleTaken, InvParts
<1>5. handleVals' = [handleVals EXCEPT ![h] = "script"]
  BY <1>1 DEF Alloc
<1>6. h \notin refs /\ \A p \in Open : imgHandle[p] # h
  BY <1>4 DEF Held
<1>7. Exclusive'
  BY <1>1, <1>2, <1>6, InvParts DEF Exclusive
<1>8. KeepsImage'
  BY <1>1, <1>2, <1>5, <1>6, InvParts DEF KeepsImage, Open
<1>9. ImagesInv'
  <2>1. imgHandle' \in [Parts -> Handles] /\ refs' \subseteq Handles
    BY <1>1, InvParts
  <2>2. QED
    BY <1>4, <1>7, <1>8, <2>1 DEF SetInv, ImagesInv, ImagesTypeOK
<1>10. Pool!Acquire("script", h)
  <2>1. \A u \in Users : h \notin HeldBy[u]
    BY <1>4, NotHeld
  <2>2. HeldBy' = [HeldBy EXCEPT !["script"] = @ \cup {h}]
    BY <1>1 DEF HeldBy, Users
  <2>3. QED
    BY <1>4, <2>1, <2>2 DEF Pool!Acquire, Reserved
<1>11. QED
  BY <1>9, <1>10

LEMMA FreeImageStep ==
  ASSUME ImagesInv, OwnImagesOnly, NEW h \in Handles, FreeImage(h)
  PROVE  ImagesInv' /\ Pool!Release("script", h)
<1>1. h \in refs /\ FreeHandle(h) /\ refs' = refs \ {h} /\ imgHandle' = imgHandle
  BY DEF FreeImage
<1>2. Open' = Open
  BY <1>1 DEF Open
<1>3. \A p \in Open : imgHandle[p] # h
  BY <1>1, InvParts DEF Exclusive
<1>4. h \in Held /\ Held' = Held \ {h}
  BY <1>1, <1>2, <1>3 DEF Held
<1>5. SetInv'
  BY <1>1, <1>4, HandleReturned
<1>6. handleVals' = [handleVals EXCEPT ![h] = NULL]
  BY <1>1 DEF FreeHandle
<1>7. Exclusive'
  BY <1>1, <1>2, InvParts DEF Exclusive
<1>8. KeepsImage'
  BY <1>1, <1>2, <1>3, <1>6, InvParts DEF KeepsImage, Open
<1>9. imgHandle' \in [Parts -> Handles] /\ refs' \subseteq Handles
  BY <1>1, InvParts
<1>10. ImagesInv'
  BY <1>5, <1>7, <1>8, <1>9 DEF SetInv, ImagesInv, ImagesTypeOK
<1>11. Pool!Release("script", h)
  <2>1. HeldBy' = [HeldBy EXCEPT !["script"] = @ \ {h}]
    BY <1>1 DEF HeldBy, Users
  <2>2. h \in HeldBy["script"]
    BY <1>1 DEF HeldBy, Users
  <2>3. QED
    BY <2>1, <2>2 DEF Pool!Release
<1>12. QED
  BY <1>10, <1>11

(* OpenWindow and MovieLoad: a part that is closed takes a handle.         *)
LEMMA OpenStep ==
  ASSUME ImagesInv, NEW p \in Parts, NEW ptr \in {NULL, p}, NEW h \in Handles,
         p \in Movies => ptr = p,
         imgHandle[p] = 0, Alloc(ptr, h), imgHandle' = [imgHandle EXCEPT ![p] = h],
         refs' = refs
  PROVE  ImagesInv' /\ Pool!Acquire(p, h)
<1>1. h \in 3 .. (handleCount' - 1) /\ h \notin Held
  BY AllocEffect, InvParts
<1>2. h # 0
  BY <1>1
<1>3. Open' = Open \cup {p} /\ p \notin Open
  BY <1>2, InvParts DEF Open
<1>4. \A q \in Open : imgHandle'[q] = imgHandle[q]
  BY <1>3, InvParts DEF Open
<1>5. imgHandle'[p] = h
  BY InvParts
<1>6. Held' = Held \cup {h}
  BY <1>3, <1>4, <1>5 DEF Held
<1>7. SetInv'
  BY <1>6, HandleTaken, InvParts
<1>8. handleVals' = [handleVals EXCEPT ![h] = ptr]
  BY DEF Alloc
<1>9. h \notin refs /\ \A q \in Open : imgHandle[q] # h
  BY <1>1 DEF Held
<1>10. Exclusive'
  BY <1>3, <1>4, <1>5, <1>9, InvParts DEF Exclusive
<1>11. handleVals'[h] = ptr /\ \A x \in Handles : x # h => handleVals'[x] = handleVals[x]
  BY <1>8, InvParts
<1>12. \A q \in Open : imgHandle[q] \in Handles
  BY InvParts DEF Open
<1>13. KeepsImage'
  <2>1. \A x \in refs : handleVals'[x] = "script"
    BY <1>9, <1>11, InvParts DEF KeepsImage
  <2>2. \A q \in Movies \cap Open' : handleVals'[imgHandle'[q]] = q
    BY <1>3, <1>4, <1>5, <1>9, <1>11, <1>12, InvParts DEF KeepsImage
  <2>3. \A q \in Windows \cap Open' : handleVals'[imgHandle'[q]] \in {NULL, q}
    BY <1>3, <1>4, <1>5, <1>9, <1>11, <1>12, InvParts DEF KeepsImage
  <2>4. QED
    BY <2>1, <2>2, <2>3 DEF KeepsImage
<1>14. imgHandle' \in [Parts -> Handles] /\ refs' \subseteq Handles
  BY InvParts
<1>15. ImagesInv'
  BY <1>7, <1>10, <1>13, <1>14 DEF SetInv, ImagesInv, ImagesTypeOK
<1>16. Pool!Acquire(p, h)
  <2>1. \A u \in Users : h \notin HeldBy[u]
    BY <1>1, NotHeld
  <2>2. p # "script" /\ p \in Users
    BY ImagesAssumption DEF Users
  <2>3. HeldBy' = [HeldBy EXCEPT ![p] = @ \cup {h}]
    BY <1>2, <1>5, <2>2, InvParts DEF HeldBy, Users
  <2>4. QED
    BY <1>1, <2>1, <2>3 DEF Pool!Acquire, Reserved
<1>17. QED
  BY <1>15, <1>16

LEMMA ClosePartStep ==
  ASSUME ImagesInv, NEW p \in Parts, ClosePart(p)
  PROVE  ImagesInv' /\ Pool!Release(p, imgHandle[p])
<1> DEFINE h == imgHandle[p]
<1>1. /\ h # 0 /\ FreeHandle(h) /\ refs' = refs
      /\ imgHandle' = [imgHandle EXCEPT ![p] = 0]
  BY DEF ClosePart
<1>2. p \in Open /\ Open' = Open \ {p}
  BY <1>1, InvParts DEF Open
<1>3. \A q \in Open' : imgHandle'[q] = imgHandle[q] /\ imgHandle[q] # h
  BY <1>1, <1>2, InvParts DEF Open, Exclusive
<1>4. h \notin refs
  BY <1>2, InvParts DEF Exclusive
<1>5. h \in Held /\ Held' = Held \ {h}
  BY <1>1, <1>2, <1>3, <1>4 DEF Held
<1>6. SetInv'
  BY <1>1, <1>5, HandleReturned
<1>7. handleVals' = [handleVals EXCEPT ![h] = NULL]
  BY <1>1 DEF FreeHandle
<1>8. Exclusive'
  BY <1>1, <1>2, <1>3, InvParts DEF Exclusive
<1>9. \A x \in Handles : x # h => handleVals'[x] = handleVals[x]
  BY <1>7, InvParts
<1>10. \A q \in Open : imgHandle[q] \in Handles
  BY InvParts DEF Open
<1>11. KeepsImage'
  <2>1. \A x \in refs : handleVals'[x] = "script"
    BY <1>4, <1>9, InvParts DEF KeepsImage
  <2>2. /\ \A q \in Movies \cap Open' : handleVals'[imgHandle'[q]] = q
        /\ \A q \in Windows \cap Open' : handleVals'[imgHandle'[q]] \in {NULL, q}
    BY <1>2, <1>3, <1>9, <1>10, InvParts DEF KeepsImage
  <2>3. QED
    BY <1>1, <2>1, <2>2 DEF KeepsImage
<1>12. imgHandle' \in [Parts -> Handles] /\ refs' \subseteq Handles
  BY <1>1, InvParts, ImagesAssumption DEF Handles
<1>13. ImagesInv'
  BY <1>6, <1>8, <1>11, <1>12 DEF SetInv, ImagesInv, ImagesTypeOK
<1>14. p # "script" /\ p \in Users
  BY ImagesAssumption DEF Users
<1>15. Pool!Release(p, h)
  <2>1. HeldBy[p] = {h}
    BY <1>1, <1>14 DEF HeldBy
  <2>2. HeldBy' = [HeldBy EXCEPT ![p] = @ \ {h}]
    BY <1>1, <1>14, <2>1, InvParts DEF HeldBy, Users
  <2>3. QED
    BY <2>1, <2>2 DEF Pool!Release
<1>16. QED
  BY <1>13, <1>15

(* The steps that put an image behind a handle in use.                     *)
LEMMA OverwriteStep ==
  ASSUME ImagesInv, NEW h \in Reserved \cup Held, NEW ptr \in Images,
         SetHandleImage(h, ptr), imgHandle' = imgHandle, refs' = refs,
         h \in Held => ptr \in Windows \cap Open /\ imgHandle[ptr] = h
  PROVE  ImagesInv' /\ Held' = Held
<1>1. Open' = Open
  BY DEF Open
<1>2. Held' = Held
  BY <1>1 DEF Held
<1>3. SetInv'
  BY <1>2, HandleOverwritten
<1>4. handleVals' = [handleVals EXCEPT ![h] = ptr]
  BY DEF SetHandleImage
<1>5. Exclusive'
  BY <1>1, InvParts DEF Exclusive
<1>6. KeepsImage'
  <2>1. \A q \in Open : imgHandle[q] \in Handles /\ imgHandle[q] \in Held
    BY InvParts DEF Open, Held
  <2>2. \A x \in Handles : x # h => handleVals'[x] = handleVals[x]
    BY <1>4, InvParts
  <2>3. \A x \in refs : x \in Held
    BY DEF Held
  <2>4. \A x \in refs : x # h
    BY <2>3, InvParts DEF Exclusive
  <2>5. \A q \in Open : imgHandle[q] = h => q = ptr /\ q \in Windows
    BY <2>1, InvParts DEF Exclusive
  <2>6. \A x \in refs : handleVals'[x] = "script"
    BY <2>2, <2>4, InvParts DEF KeepsImage
  <2>7. \A q \in Movies \cap Open : handleVals'[imgHandle[q]] = q
    BY <2>1, <2>2, <2>5, InvParts DEF KeepsImage
  <2>8. \A q \in Windows \cap Open : handleVals'[imgHandle[q]] \in {NULL, q}
    BY <1>4, <2>1, <2>2, <2>5, InvParts DEF KeepsImage
  <2>9. QED
    BY <1>1, <2>6, <2>7, <2>8 DEF KeepsImage
<1>7. imgHandle' \in [Parts -> Handles] /\ refs' \subseteq Handles
  BY InvParts
<1>8. QED
  BY <1>2, <1>3, <1>5, <1>6, <1>7 DEF SetInv, ImagesInv, ImagesTypeOK

(* Every step of such a script keeps the invariant, and takes a free       *)
(* handle, gives back one of its own, or leaves everyone's as they are.    *)
LEMMA ImagesStep ==
  ASSUME ImagesInv, OwnImagesOnly, [ImagesNext]_imgVars
  PROVE  ImagesInv' /\ [Pool!PoolNext]_HeldBy
<1>1. CASE LoadImage
  BY <1>1, LoadImageStep DEF Pool!PoolNext, Users
<1>2. ASSUME NEW h \in Handles, FreeImage(h)
      PROVE  ImagesInv' /\ Pool!PoolNext
  BY <1>2, FreeImageStep DEF Pool!PoolNext, Users
<1>3. ASSUME NEW w \in Windows, OpenWindow(w)
      PROVE  ImagesInv' /\ Pool!PoolNext
  <2>1. PICK h \in Handles : /\ imgHandle[w] = 0 /\ Alloc(NULL, h)
                             /\ imgHandle' = [imgHandle EXCEPT ![w] = h]
                             /\ refs' = refs
    BY <1>3 DEF OpenWindow
  <2>2. w \in Parts /\ w \notin Movies
    BY InvParts
  <2>3. ImagesInv' /\ Pool!Acquire(w, h)
    BY <2>1, <2>2, OpenStep
  <2>4. QED
    BY <2>2, <2>3 DEF Pool!PoolNext, Users
<1>4. ASSUME NEW w \in Windows, SetWindowImage(w)
      PROVE  ImagesInv' /\ HeldBy' = HeldBy
  <2>1. /\ imgHandle[w] # 0 /\ SetHandleImage(imgHandle[w], w)
        /\ imgHandle' = imgHandle /\ refs' = refs
    BY <1>4 DEF SetWindowImage
  <2>2. w \in Windows \cap Open /\ imgHandle[w] \in Held /\ w \in Images
    BY <2>1, InvParts DEF Open, Held
  <2>3. HeldBy' = HeldBy
    BY <2>1 DEF HeldBy
  <2>4. QED
    BY <2>1, <2>2, <2>3, OverwriteStep
<1>5. ASSUME NEW m \in Movies, MovieLoad(m)
      PROVE  ImagesInv' /\ Pool!PoolNext
  <2>1. PICK h \in Handles : /\ imgHandle[m] = 0 /\ Alloc(m, h)
                             /\ imgHandle' = [imgHandle EXCEPT ![m] = h]
                             /\ refs' = refs
    BY <1>5 DEF MovieLoad
  <2>2. m \in Parts
    BY InvParts
  <2>3. ImagesInv' /\ Pool!Acquire(m, h)
    BY <2>1, <2>2, OpenStep
  <2>4. QED
    BY <2>2, <2>3 DEF Pool!PoolNext, Users
<1>6. ASSUME NEW p \in Parts, ClosePart(p)
      PROVE  ImagesInv' /\ Pool!PoolNext
  <2>1. imgHandle[p] \in Handles
    BY InvParts
  <2>2. QED
    BY <1>6, <2>1, ClosePartStep DEF Pool!PoolNext, Users
<1>7. CASE LoadVSP
  <2>1. 2 \in Reserved /\ 2 \notin Held
    BY InvParts DEF Reserved
  <2>2. HeldBy' = HeldBy
    BY <1>7 DEF LoadVSP, HeldBy
  <2>3. QED
    BY <1>7, <2>1, <2>2, OverwriteStep, InvParts DEF LoadVSP
<1>8. CASE RenewScreen
  <2>1. 1 \in Reserved /\ 1 \notin Held
    BY InvParts DEF Reserved
  <2>2. HeldBy' = HeldBy
    BY <1>8 DEF RenewScreen, HeldBy
  <2>3. QED
    BY <1>8, <2>1, <2>2, OverwriteStep, InvParts DEF RenewScreen
<1>9. CASE UNCHANGED imgVars
  <2>1. Open' = Open
    BY <1>9 DEF imgVars, Open
  <2>2. Held' = Held
    BY <1>9, <2>1 DEF imgVars, Held
  <2>3. ImagesInv'
    BY <1>9, <2>1, <2>2 DEF imgVars, ImagesInv, ImagesTypeOK, StackInv, Exclusive, KeepsImage
  <2>4. HeldBy' = HeldBy
    BY <1>9 DEF imgVars, HeldBy
  <2>5. QED
    BY <2>3, <2>4
<1>10. QED
  BY <1>1, <1>2, <1>3, <1>4, <1>5, <1>6, <1>7, <1>8, <1>9 DEF ImagesNext

LEMMA ImagesStart ==
  ASSUME ImagesInit
  PROVE  ImagesInv /\ Pool!PoolInit
<1>1. Open = {}
  BY DEF ImagesInit, Open
<1>2. Held = {}
  BY <1>1 DEF ImagesInit, Held
<1>3. ImagesInv
  BY <1>1, <1>2, ImagesAssumption
  DEF ImagesInit, ImagesInv, ImagesTypeOK, StackInv, Exclusive, KeepsImage, Handles, Images
<1>4. HeldBy = [u \in Users |-> {}]
  BY DEF ImagesInit, HeldBy, Users
<1>5. QED
  BY <1>3, <1>4 DEF Pool!PoolInit

LEMMA InvImplies ==
  ASSUME ImagesInv
  PROVE  ImagesTypeOK /\ FreeListSound /\ Exclusive /\ KeepsImage
<1>1. FreeListSound
  BY DEF ImagesInv, StackInv, FreeListSound, FreeSet, Reserved
<1>2. QED
  BY <1>1 DEF ImagesInv

(* Every handle given a number is held by somebody or on the stack.        *)
Kept ==
  \A x \in 3 .. (handleCount - 1) : x \in Held \/ \E i \in 1 .. Len(handles) : handles[i] = x

LEMMA TakenKept ==
  ASSUME ImagesInv, Kept, NEW ptr, NEW h \in Handles, Alloc(ptr, h), Held' = Held \cup {h}
  PROVE  Kept'
<1>1. CASE handles = <<>>
  <2> DEFINE fs == [i \in 1 .. Chunk |-> handleCount + i - 1]
  <2>1. /\ h = fs[Len(fs)] /\ handles' = SubSeq(fs, 1, Len(fs) - 1)
        /\ handleCount' = handleCount + Chunk
    BY <1>1 DEF Alloc, FreeStack, GrownCount
  <2>2. Chunk \in Nat \ {0} /\ handleCount \in Int
    BY InvParts, ImagesAssumption
  <2>3. fs \in Seq(Int) /\ Len(fs) = Chunk
    BY <2>2
  <2>4. /\ Len(handles') = Chunk - 1
        /\ \A i \in 1 .. (Chunk - 1) : handles'[i] = fs[i]
    BY <2>1, <2>2, <2>3, PopEffect
  <2>5. ASSUME NEW x \in 3 .. (handleCount' - 1)
        PROVE  x \in Held' \/ \E i \in 1 .. Len(handles') : handles'[i] = x
    <3>1. CASE x < handleCount
      <4>1. x \in 3 .. (handleCount - 1)
        BY <2>2, <3>1
      <4>2. x \in Held
        BY <1>1, <4>1 DEF Kept
      <4> QED
        BY <4>2
    <3>2. CASE x = handleCount + Chunk - 1
      <4>1. h = handleCount + Chunk - 1
        BY <2>1, <2>2, <2>3
      <4> QED
        BY <3>2, <4>1
    <3>3. CASE x >= handleCount /\ x # handleCount + Chunk - 1
      <4>1. x - handleCount + 1 \in 1 .. (Chunk - 1)
        BY <2>1, <2>2, <3>3
      <4>2. fs[x - handleCount + 1] = x
        BY <2>2, <4>1
      <4> QED
        BY <2>4, <4>1, <4>2
    <3> QED
      BY <2>2, <3>1, <3>2, <3>3
  <2> QED
    BY <2>5 DEF Kept
<1>2. CASE handles # <<>>
  <2>1. PICK n \in Nat : n = Len(handles)
    BY InvParts
  <2>2. n >= 1
    BY <1>2, <2>1, InvParts
  <2>3. /\ h = handles[n] /\ handles' = SubSeq(handles, 1, n - 1) /\ handleCount' = handleCount
    BY <1>2, <2>1 DEF Alloc, FreeStack, GrownCount
  <2>4. Len(handles') = n - 1 /\ \A i \in 1 .. (n - 1) : handles'[i] = handles[i]
    BY <2>1, <2>2, <2>3, InvParts, PopEffect
  <2>5. \A i \in 1 .. n : i = n \/ i \in 1 .. (n - 1)
    BY <2>1
  <2> QED
    BY <2>1, <2>3, <2>4, <2>5 DEF Kept
<1> QED
  BY <1>1, <1>2

LEMMA ReturnedKept ==
  ASSUME ImagesInv, Kept, NEW h \in Handles, FreeHandle(h), Held' = Held \ {h}
  PROVE  Kept'
<1>1. PICK n \in Nat : n = Len(handles)
  BY InvParts
<1>2. handles' = Append(handles, h) /\ handleCount' = handleCount
  BY DEF FreeHandle
<1>3. /\ Len(handles') = n + 1 /\ handles'[n + 1] = h
      /\ \A i \in 1 .. n : handles'[i] = handles[i]
  BY <1>1, <1>2, InvParts, AppendProperties
<1>4. n + 1 \in 1 .. (n + 1) /\ \A i \in 1 .. n : i \in 1 .. (n + 1)
  OBVIOUS
<1> QED
  BY <1>1, <1>2, <1>3, <1>4 DEF Kept

(* A part that takes a handle, or gives its own back, and nobody else.     *)
LEMMA PartHeld ==
  ASSUME ImagesInv, NEW p \in Parts, NEW h \in Handles,
         imgHandle' = [imgHandle EXCEPT ![p] = h], refs' = refs
  PROVE  /\ imgHandle[p] = 0 /\ h # 0 => Held' = Held \cup {h}
         /\ imgHandle[p] # 0 /\ h = 0 => Held' = Held \ {imgHandle[p]}
<1>1. /\ imgHandle'[p] = h
      /\ \A q \in Parts : q # p => imgHandle'[q] = imgHandle[q]
  BY InvParts
<1>2. CASE imgHandle[p] = 0 /\ h # 0
  <2>1. Open' = Open \cup {p} /\ p \notin Open
    BY <1>1, <1>2 DEF Open
  <2>2. \A q \in Open : imgHandle'[q] = imgHandle[q]
    BY <1>1, <2>1 DEF Open
  <2> QED
    BY <1>1, <1>2, <2>1, <2>2 DEF Held
<1>3. CASE imgHandle[p] # 0 /\ h = 0
  <2>1. p \in Open /\ Open' = Open \ {p}
    BY <1>1, <1>3 DEF Open
  <2>2. \A q \in Open' : imgHandle'[q] = imgHandle[q] /\ imgHandle[q] # imgHandle[p]
    BY <1>1, <2>1, InvParts DEF Open, Exclusive
  <2>3. imgHandle[p] \notin refs
    BY <2>1, InvParts DEF Exclusive
  <2> QED
    BY <1>3, <2>1, <2>2, <2>3 DEF Held
<1> QED
  BY <1>2, <1>3

LEMMA KeptStep ==
  ASSUME ImagesInv, OwnImagesOnly, Kept, [ImagesNext]_imgVars
  PROVE  Kept'
<1>1. CASE LoadImage
  <2>1. PICK h \in Handles : Alloc("script", h) /\ refs' = refs \cup {h} /\ imgHandle' = imgHandle
    BY <1>1 DEF LoadImage
  <2>2. Held' = Held \cup {h}
    BY <2>1 DEF Held, Open
  <2> QED
    BY <2>1, <2>2, TakenKept
<1>2. ASSUME NEW h \in Handles, FreeImage(h)
      PROVE  Kept'
  <2>1. h \in refs /\ FreeHandle(h) /\ refs' = refs \ {h} /\ imgHandle' = imgHandle
    BY <1>2 DEF FreeImage
  <2>2. \A p \in Open : imgHandle[p] # h
    BY <2>1, InvParts DEF Exclusive
  <2>3. Held' = Held \ {h}
    BY <2>1, <2>2 DEF Held, Open
  <2> QED
    BY <2>1, <2>3, ReturnedKept
<1>3. ASSUME NEW p \in Parts, NEW ptr \in {NULL, p}, NEW h \in Handles,
             imgHandle[p] = 0, Alloc(ptr, h), imgHandle' = [imgHandle EXCEPT ![p] = h],
             refs' = refs
      PROVE  Kept'
  <2>1. h \in 3 .. (handleCount' - 1)
    BY <1>3, AllocEffect, InvParts
  <2>2. h # 0
    BY <2>1
  <2>3. Held' = Held \cup {h}
    BY <1>3, <2>2, PartHeld
  <2> QED
    BY <1>3, <2>3, TakenKept
<1>4. CASE \E w \in Windows : OpenWindow(w)
  BY <1>3, <1>4, InvParts DEF OpenWindow
<1>5. CASE \E m \in Movies : MovieLoad(m)
  BY <1>3, <1>5, InvParts DEF MovieLoad
<1>6. ASSUME NEW p \in Parts, ClosePart(p)
      PROVE  Kept'
  <2>1. /\ imgHandle[p] # 0 /\ FreeHandle(imgHandle[p]) /\ refs' = refs
        /\ imgHandle' = [imgHandle EXCEPT ![p] = 0]
    BY <1>6 DEF ClosePart
  <2>2. 0 \in Handles /\ imgHandle[p] \in Handles
    BY InvParts, ImagesAssumption DEF Handles
  <2>3. Held' = Held \ {imgHandle[p]}
    BY <2>1, <2>2, PartHeld
  <2> QED
    BY <2>1, <2>2, <2>3, ReturnedKept
<1>7. CASE (\E w \in Windows : SetWindowImage(w)) \/ LoadVSP \/ RenewScreen \/ UNCHANGED imgVars
  <2>1. /\ handles' = handles /\ handleCount' = handleCount
        /\ imgHandle' = imgHandle /\ refs' = refs
    BY <1>7 DEF SetWindowImage, LoadVSP, RenewScreen, SetHandleImage, imgVars
  <2> QED
    BY <2>1 DEF Kept, Held, Open
<1> QED
  BY <1>1, <1>2, <1>4, <1>5, <1>6, <1>7 DEF ImagesNext

LEMMA KeptIsAll ==
  ASSUME ImagesInv, Kept
  PROVE  NothingLost
<1>1. handleCount \in Int /\ handleCount >= 3 /\ Reserved = {0, 1, 2}
  BY InvParts, ImagesAssumption DEF Reserved
<1>2. 0 .. (handleCount - 1) = Reserved \cup 3 .. (handleCount - 1)
  BY <1>1
<1>3. Held \cup FreeSet \subseteq 3 .. (handleCount - 1)
  BY InvParts DEF FreeSet, ImagesInv, StackInv
<1>4. 3 .. (handleCount - 1) \subseteq Held \cup FreeSet
  BY DEF Kept, FreeSet
<1> QED
  BY <1>2, <1>3, <1>4 DEF NothingLost

(* A script that frees only its own images, whatever else the windows, the *)
(* movies and the map do, is never offered a handle that is in use.        *)
THEOREM FreeHandlesAreFree == OwnImagesOnly /\ ImagesSpec => []FreeListSound
<1>1. CASE OwnImagesOnly
  <2>1. ImagesInit => ImagesInv
    BY ImagesStart
  <2>2. ImagesInv /\ [ImagesNext]_imgVars => ImagesInv'
    BY <1>1, ImagesStep
  <2>3. ImagesInv => FreeListSound
    BY InvImplies
  <2>4. QED
    BY <2>1, <2>2, <2>3, PTL DEF ImagesSpec
<1>2. QED
  BY <1>1

(* Then no two users of the handles hold the same one.                     *)
THEOREM HandlesExclusive == OwnImagesOnly /\ ImagesSpec => []Exclusive
<1>1. CASE OwnImagesOnly
  <2>1. ImagesInit => ImagesInv
    BY ImagesStart
  <2>2. ImagesInv /\ [ImagesNext]_imgVars => ImagesInv'
    BY <1>1, ImagesStep
  <2>3. ImagesInv => Exclusive
    BY InvImplies
  <2>4. QED
    BY <2>1, <2>2, <2>3, PTL DEF ImagesSpec
<1>2. QED
  BY <1>1

(* Then each user finds its own image behind its handle.                   *)
THEOREM ImagesKept == OwnImagesOnly /\ ImagesSpec => []KeepsImage
<1>1. CASE OwnImagesOnly
  <2>1. ImagesInit => ImagesInv
    BY ImagesStart
  <2>2. ImagesInv /\ [ImagesNext]_imgVars => ImagesInv'
    BY <1>1, ImagesStep
  <2>3. ImagesInv => KeepsImage
    BY InvImplies
  <2>4. QED
    BY <2>1, <2>2, <2>3, PTL DEF ImagesSpec
<1>2. QED
  BY <1>1

(* Then no handle is lost: each is reserved, held by somebody or free.     *)
THEOREM NoHandleLost == OwnImagesOnly /\ ImagesSpec => []NothingLost
<1>1. CASE OwnImagesOnly
  <2>1. ImagesInit => ImagesInv /\ Kept
    BY ImagesStart DEF ImagesInit, Kept
  <2>2. ImagesInv /\ Kept /\ [ImagesNext]_imgVars => ImagesInv' /\ Kept'
    BY <1>1, ImagesStep, KeptStep
  <2>3. ImagesInv /\ Kept => NothingLost
    BY KeptIsAll
  <2>4. QED
    BY <2>1, <2>2, <2>3, PTL DEF ImagesSpec
<1>2. QED
  BY <1>1

(* Then the free stack and the count implement the promise of HandlePool:  *)
(* a handle is given to one user at a time.                                *)
THEOREM HandlesRefinePool == OwnImagesOnly /\ ImagesSpec => PoolKept
<1>1. CASE OwnImagesOnly
  <2>1. ImagesInit => ImagesInv /\ Pool!PoolInit
    BY ImagesStart
  <2>2. ImagesInv /\ [ImagesNext]_imgVars => ImagesInv' /\ [Pool!PoolNext]_HeldBy
    BY <1>1, ImagesStep
  <2>3. QED
    BY <2>1, <2>2, PTL DEF ImagesSpec, PoolKept, Pool!PoolSpec
<1>2. QED
  BY <1>1

=============================================================================
