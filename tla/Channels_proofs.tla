---------------------------- MODULE Channels_proofs ----------------------------
(***************************************************************************)
(* Sounds, for any number of streams, handles and events: nothing that     *)
(* plays, waits or stands behind a channel has been deleted, no handle is  *)
(* lost or given out twice.                                                *)
(*                                                                         *)
(* The invariant is a count: a stream has a reference for each stop event  *)
(* on its way, and one more while someone owns it: a channel, the game's   *)
(* thread as it makes or frees it, the list of songs, the music, or the    *)
(* event thread between the map of channels and its unref.  These never    *)
(* own the same stream, so whoever gives a reference back has one.         *)
(***************************************************************************)
EXTENDS Channels, FiniteSetTheorems, SequenceTheorems, TLAPS

Times(s, x) == Cardinality({i \in 1 .. Len(s) : s[i] = x})

(* The stop events of each stream that are on their way.                   *)
Pending == [os \in Streams |-> Times(events, os) + Times(batch, os)]

(* Who owns streams.                                                       *)
Sounds == {os \in Streams : channels[os] # 0}
Fresh  == IF main.at \in {"register", "alloc", "free"} THEN {main.os} ELSE {}
Gone   == IF thr = "unref" THEN {Stopped} ELSE {}
Music  == {music} \ {NULL}
Owned  == Sounds \cup songs \cup Fresh \cup Gone \cup Music

OwnersApart ==
  /\ Sounds \cap songs = {} /\ Sounds \cap Fresh = {} /\ Sounds \cap Gone = {}
  /\ Sounds \cap Music = {} /\ songs \cap Fresh = {} /\ songs \cap Gone = {}
  /\ songs \cap Music = {} /\ Fresh \cap Gone = {} /\ Fresh \cap Music = {}
  /\ Gone \cap Music = {}

RefsCounted ==
  \A os \in Streams : refs[os] = Pending[os] + (IF os \in Owned THEN 1 ELSE 0)

(* Who plays is owned, and a sound that plays, or will, has not stopped.   *)
PlayersOwned ==
  /\ playing \subseteq Sounds \cup songs \cup Music
  /\ \A os \in playing \cap Sounds : Pending[os] = 0
  /\ \A os \in Music : Pending[os] = 0

(* What the game's thread has in hand.                                     *)
MainHolds ==
  /\ main.at \in {"register", "alloc", "play", "stop", "ask", "free"} => main.os \in Streams
  /\ main.at \in {"register", "alloc", "play"} => Pending[main.os] = 0 /\ main.os \notin playing
  /\ main.at = "play" => main.os \in Sounds
  /\ main.at \in {"stop", "ask"} => main.os \notin songs \cup Music
  /\ main.at = "alloc" => lock = "main" /\ handles # <<>> /\ main.h = handles[Len(handles)]

(* What the event thread has.                                              *)
EventsHold ==
  /\ thr # "wait" => batch # <<>>
  /\ thr \in {"push", "unref"} => lock = "events"
  /\ thr = "push" => Stopped \in Sounds /\ handleVals[channels[Stopped]] = NULL

(* The handle set and the map of channels.                                 *)
SetInv ==
  /\ \A i, j \in 1 .. Len(handles) : i # j => handles[i] # handles[j]
  /\ \A i \in 1 .. Len(handles) : handles[i] \in 1 .. (handleCount - 1)
  /\ \A i \in 1 .. Len(handles), os \in Streams : channels[os] # handles[i]
  /\ \A os \in Streams : channels[os] \in 0 .. (handleCount - 1)
  /\ \A os, ot \in Sounds : channels[os] = channels[ot] => os = ot
  /\ \A h \in 0 .. (MaxHandles - 1) :
       handleVals[h] # NULL => h # 0 /\ channels[handleVals[h]] = h
  /\ \A os \in Sounds : handleVals[channels[os]] = os \/ (thr = "push" /\ Stopped = os)
  /\ \A h \in 1 .. (handleCount - 1) :
       (\E i \in 1 .. Len(handles) : handles[i] = h) \/ (\E os \in Streams : channels[os] = h)

StreamsInv == OwnersApart /\ RefsCounted /\ PlayersOwned

ChannelsIInv ==
  /\ ChannelsTypeOK
  /\ StreamsInv /\ MainHolds /\ EventsHold /\ SetInv

-----------------------------------------------------------------------------
(* How often a stream is in a sequence of events.                          *)

LEMMA TimesNat ==
  ASSUME NEW S, NEW s \in Seq(S), NEW x
  PROVE  /\ IsFiniteSet({i \in 1 .. Len(s) : s[i] = x})
         /\ Times(s, x) \in Nat
         /\ (Times(s, x) = 0 <=> \A i \in 1 .. Len(s) : s[i] # x)
<1> DEFINE T == {i \in 1 .. Len(s) : s[i] = x}
<1>1. IsFiniteSet(1 .. Len(s)) /\ T \subseteq 1 .. Len(s)
  BY FS_Interval
<1>2. IsFiniteSet(T)
  BY <1>1, FS_Subset
<1>3. Cardinality(T) \in Nat /\ (Cardinality(T) = 0 <=> T = {})
  BY <1>2, FS_CardinalityType, FS_EmptySet
<1>4. T = {} <=> \A i \in 1 .. Len(s) : s[i] # x
  OBVIOUS
<1> QED
  BY <1>2, <1>3, <1>4 DEF Times

LEMMA TimesEmpty == \A x : Times(<<>>, x) = 0
<1> SUFFICES ASSUME NEW x PROVE Times(<<>>, x) = 0
  OBVIOUS
<1>1. {i \in 1 .. Len(<<>>) : <<>>[i] = x} = {}
  OBVIOUS
<1> QED
  BY <1>1, FS_EmptySet DEF Times

LEMMA TimesAppend ==
  ASSUME NEW S, NEW s \in Seq(S), NEW e \in S, NEW x
  PROVE  Times(Append(s, e), x) = Times(s, x) + (IF x = e THEN 1 ELSE 0)
<1> DEFINE T == {i \in 1 .. Len(s) : s[i] = x}
           U == {i \in 1 .. Len(Append(s, e)) : Append(s, e)[i] = x}
<1>1. PICK n \in Nat : n = Len(s)
  OBVIOUS
<1>2. /\ Len(Append(s, e)) = n + 1 /\ Append(s, e)[n + 1] = e
      /\ \A i \in 1 .. n : Append(s, e)[i] = s[i]
  BY <1>1, AppendProperties
<1>3. 1 .. (n + 1) = (1 .. n) \cup {n + 1} /\ n + 1 \notin 1 .. n
  BY <1>1
<1>4. U = IF x = e THEN T \cup {n + 1} ELSE T
  BY <1>1, <1>2, <1>3
<1>5. n + 1 \notin T
  BY <1>1, <1>3
<1>6. IsFiniteSet(T) /\ Cardinality(T) \in Nat
  BY TimesNat DEF Times
<1>7. Cardinality(T \cup {n + 1}) = Cardinality(T) + 1
  BY <1>5, <1>6, FS_AddElement
<1> HIDE DEF T, U
<1>8. PICK t \in Nat : t = Cardinality(T)
  BY <1>6
<1>9. CASE x = e
  BY <1>4, <1>7, <1>8, <1>9 DEF Times, T, U
<1>10. CASE x # e
  <2>1. Cardinality(U) = t
    BY <1>4, <1>8, <1>10, Zenon
  <2>2. t + 0 = t
    BY <1>8
  <2> QED
    BY <1>8, <1>10, <2>1, <2>2 DEF Times, T, U
<1> QED
  BY <1>9, <1>10

LEMMA TimesTail ==
  ASSUME NEW S, NEW s \in Seq(S), s # <<>>, NEW x
  PROVE  /\ Tail(s) \in Seq(S) /\ Head(s) \in S
         /\ Times(s, x) = Times(Tail(s), x) + (IF x = Head(s) THEN 1 ELSE 0)
<1> DEFINE T == {i \in 1 .. Len(s) : s[i] = x}
           U == {i \in 1 .. Len(Tail(s)) : Tail(s)[i] = x}
           V == {i \in T : i # 1}
<1>1. PICK n \in Nat : n + 1 = Len(s)
  <2>1. Len(s) \in Nat /\ Len(s) # 0
    OBVIOUS
  <2>2. Len(s) - 1 \in Nat /\ (Len(s) - 1) + 1 = Len(s)
    BY <2>1
  <2> QED
    BY <2>2
<1>2. /\ Tail(s) \in Seq(S) /\ Head(s) \in S /\ Head(s) = s[1]
      /\ Len(Tail(s)) = n /\ \A i \in 1 .. n : Tail(s)[i] = s[i + 1]
  BY <1>1, HeadTailProperties
<1>3. /\ \A i \in 1 .. n : i + 1 \in 1 .. (n + 1) /\ i + 1 # 1
      /\ \A i \in 1 .. (n + 1) : i # 1 => i - 1 \in 1 .. n /\ (i - 1) + 1 = i
      /\ 1 \in 1 .. (n + 1)
  BY <1>1
<1>4. IsFiniteSet(U) /\ IsFiniteSet(T) /\ Cardinality(T) \in Nat /\ Cardinality(U) \in Nat
  BY <1>2, TimesNat DEF Times
<1>5. Cardinality(V) = Cardinality(U)
  <2> DEFINE f == [i \in U |-> i + 1]
  <2>1. f \in [U -> V]
    BY <1>1, <1>2, <1>3
  <2>2. \A i, j \in U : f[i] = f[j] => i = j
    OBVIOUS
  <2>3. \A v \in V : \E i \in U : f[i] = v
    <3>1. SUFFICES ASSUME NEW v \in V PROVE v - 1 \in U /\ f[v - 1] = v
      OBVIOUS
    <3>2. v - 1 \in 1 .. n /\ (v - 1) + 1 = v /\ s[v] = x
      BY <1>1, <1>3, <3>1
    <3>3. v - 1 \in U
      BY <1>2, <3>2
    <3> QED
      BY <3>2, <3>3
  <2>4. f \in Bijection(U, V)
    BY <2>1, <2>2, <2>3 DEF Bijection, Injection, Surjection, IsInjective
  <2>5. ExistsBijection(U, V)
    BY <2>4 DEF ExistsBijection
  <2> QED
    BY <1>4, <2>5, FS_Bijection
<1>6. x = Head(s) => 1 \in T /\ V = T \ {1}
  BY <1>1, <1>2, <1>3
<1>7. x # Head(s) => V = T
  BY <1>1, <1>2, <1>3
<1> HIDE DEF T, U, V
<1>8. PICK t \in Nat, u \in Nat : t = Cardinality(T) /\ u = Cardinality(U)
  BY <1>4
<1>9. CASE x = Head(s)
  <2>1. Cardinality(T \ {1}) = t - 1
    BY <1>4, <1>6, <1>8, <1>9, FS_RemoveElement
  <2>2. Cardinality(T \ {1}) = u
    BY <1>5, <1>6, <1>8, <1>9, Zenon
  <2>3. t = u + 1
    BY <1>8, <2>1, <2>2
  <2> QED
    BY <1>2, <1>8, <1>9, <2>3 DEF Times, T, U
<1>10. CASE x # Head(s)
  <2>1. t = u
    BY <1>5, <1>7, <1>8, <1>10, Zenon
  <2>2. t = u + 0
    BY <1>8, <2>1
  <2> QED
    BY <1>2, <1>8, <1>10, <2>2 DEF Times, T, U
<1> QED
  BY <1>9, <1>10

-----------------------------------------------------------------------------
(* The events on their way.                                                *)

LEMMA PendingNat ==
  ASSUME ChannelsTypeOK
  PROVE  Pending \in [Streams -> Nat]
<1>1. \A os \in Streams : Times(events, os) \in Nat /\ Times(batch, os) \in Nat
  BY TimesNat DEF ChannelsTypeOK
<1>2. \A a, b \in Nat : a + b \in Nat
  OBVIOUS
<1> QED
  BY <1>1, <1>2 DEF Pending

LEMMA PendingKept ==
  ASSUME UNCHANGED <<events, batch>>
  PROVE  Pending' = Pending
BY DEF Pending

LEMMA PendingFired ==
  ASSUME ChannelsTypeOK, NEW os \in Streams, FireStopEvent(os), batch' = batch
  PROVE  /\ events' \in Seq(Streams)
         /\ Pending' = [Pending EXCEPT ![os] = @ + 1]
<1>1. events \in Seq(Streams) /\ batch \in Seq(Streams) /\ events' = Append(events, os)
  BY DEF ChannelsTypeOK, FireStopEvent
<1>2. events' \in Seq(Streams)
  BY <1>1, AppendProperties
<1>3. \A x \in Streams : Times(events', x) = Times(events, x) + (IF x = os THEN 1 ELSE 0)
  BY <1>1, TimesAppend
<1>4. \A x \in Streams : Times(events, x) \in Nat /\ Times(batch, x) \in Nat
  BY <1>1, TimesNat
<1>5. \A x \in Streams :
        Times(events', x) + Times(batch, x)
          = (Times(events, x) + Times(batch, x)) + (IF x = os THEN 1 ELSE 0)
  <2> SUFFICES ASSUME NEW x \in Streams
               PROVE  Times(events', x) + Times(batch, x)
                        = (Times(events, x) + Times(batch, x)) + (IF x = os THEN 1 ELSE 0)
    OBVIOUS
  <2>1. PICK a \in Nat, b \in Nat : a = Times(events, x) /\ b = Times(batch, x)
    BY <1>4
  <2>2. CASE x = os
    BY <1>3, <2>1, <2>2
  <2>3. CASE x # os
    BY <1>3, <2>1, <2>3
  <2> QED
    BY <2>2, <2>3
<1>6. \A x \in Streams : Pending'[x] = Pending[x] + (IF x = os THEN 1 ELSE 0)
  BY <1>1, <1>5 DEF Pending
<1>7. Pending \in [Streams -> Nat] /\ Pending' = [x \in Streams |-> Pending'[x]]
  BY PendingNat DEF Pending
<1>8. \A x \in Streams : Pending[x] + 0 = Pending[x]
  BY <1>7
<1>9. Pending' = [Pending EXCEPT ![os] = @ + 1]
  BY <1>6, <1>7, <1>8
<1> QED
  BY <1>2, <1>9

LEMMA PendingTaken ==
  ASSUME ChannelsTypeOK, batch = <<>>, batch' = events, events' = <<>>
  PROVE  Pending' = Pending
<1>1. events \in Seq(Streams)
  BY DEF ChannelsTypeOK
<1>2. SUFFICES \A x \in Streams :
                 Times(<<>>, x) + Times(events, x) = Times(events, x) + Times(<<>>, x)
  BY DEF Pending
<1>3. \A x \in Streams : Times(<<>>, x) = 0 /\ Times(events, x) \in Nat
  BY <1>1, TimesEmpty, TimesNat
<1> QED
  BY <1>3

LEMMA StoppedFacts ==
  ASSUME ChannelsTypeOK, batch # <<>>
  PROVE  Stopped \in Streams /\ Pending[Stopped] \in Nat \ {0} /\ Tail(batch) \in Seq(Streams)
<1>1. batch \in Seq(Streams) /\ events \in Seq(Streams)
  BY DEF ChannelsTypeOK
<1>2. /\ Tail(batch) \in Seq(Streams) /\ Stopped \in Streams
      /\ Times(batch, Stopped) = Times(Tail(batch), Stopped) + 1
  BY <1>1, TimesTail DEF Stopped
<1>3. PICK a \in Nat, b \in Nat : a = Times(events, Stopped) /\ b = Times(Tail(batch), Stopped)
  BY <1>1, <1>2, TimesNat
<1>4. Pending[Stopped] = a + (b + 1)
  BY <1>2, <1>3 DEF Pending
<1>5. a + (b + 1) \in Nat \ {0}
  BY <1>3
<1> QED
  BY <1>2, <1>4, <1>5

LEMMA PendingDropped ==
  ASSUME ChannelsTypeOK, batch # <<>>, batch' = Tail(batch), events' = events
  PROVE  \A x \in Streams : Pending[x] = Pending'[x] + (IF x = Stopped THEN 1 ELSE 0)
<1>1. batch \in Seq(Streams) /\ events \in Seq(Streams)
  BY DEF ChannelsTypeOK
<1>2. SUFFICES ASSUME NEW x \in Streams
               PROVE  Pending[x] = Pending'[x] + (IF x = Stopped THEN 1 ELSE 0)
  OBVIOUS
<1>3. Tail(batch) \in Seq(Streams)
      /\ Times(batch, x) = Times(Tail(batch), x) + (IF x = Stopped THEN 1 ELSE 0)
  BY <1>1, TimesTail DEF Stopped
<1>4. PICK a \in Nat, b \in Nat : a = Times(events, x) /\ b = Times(Tail(batch), x)
  BY <1>1, <1>3, TimesNat
<1>5. Pending[x] = a + Times(batch, x) /\ Pending'[x] = a + b
  BY <1>4 DEF Pending
<1>6. CASE x = Stopped
  BY <1>3, <1>4, <1>5, <1>6
<1>7. CASE x # Stopped
  BY <1>3, <1>4, <1>5, <1>7
<1> QED
  BY <1>6, <1>7

-----------------------------------------------------------------------------
(* What steps have in common.                                              *)

LEMMA Typed ==
  ASSUME ChannelsIInv
  PROVE  /\ ChannelsTypeOK
         /\ handles \in Seq(1 .. MaxHandles - 1) /\ handleCount \in 1 .. MaxHandles
         /\ handleVals \in [0 .. MaxHandles - 1 -> Streams \cup {NULL}]
         /\ channels \in [Streams -> 0 .. MaxHandles - 1]
         /\ refs \in [Streams -> Nat] /\ Pending \in [Streams -> Nat]
         /\ playing \subseteq Streams /\ songs \subseteq Streams
         /\ music \in Streams \cup {NULL} /\ NULL \notin Streams
         /\ events \in Seq(Streams) /\ batch \in Seq(Streams)
         /\ Sounds \subseteq Streams /\ Music \subseteq Streams
         /\ 0 \in 0 .. MaxHandles - 1
BY PendingNat, ChannelsAssumption DEF ChannelsIInv, ChannelsTypeOK, NULL, Sounds, Music

(* A stream nobody refers to plays nowhere and is nobody's.                *)
LEMMA Unreferenced ==
  ASSUME ChannelsIInv, NEW os \in Streams, refs[os] = 0
  PROVE  Pending[os] = 0 /\ os \notin Owned /\ os \notin playing
<1>1. Pending[os] \in Nat /\ refs[os] = Pending[os] + (IF os \in Owned THEN 1 ELSE 0)
  BY Typed DEF ChannelsIInv, StreamsInv, RefsCounted
<1>2. Pending[os] = 0 /\ os \notin Owned
  BY <1>1
<1> QED
  BY <1>2 DEF Owned, ChannelsIInv, StreamsInv, PlayersOwned

LEMMA SetKept ==
  ASSUME ChannelsIInv, UNCHANGED <<handles, handleCount, handleVals, channels>>,
         thr = "push" => thr' = thr /\ batch' = batch
  PROVE  SetInv'
<1>1. SetInv
  BY DEF ChannelsIInv
<1>2. Sounds' = Sounds
  BY DEF Sounds
<1>3. \A os \in Sounds : handleVals'[channels'[os]] = os \/ (thr' = "push" /\ Stopped' = os)
  BY <1>1 DEF SetInv, Stopped
<1> QED
  BY <1>1, <1>2, <1>3 DEF SetInv

LEMMA StreamsKept ==
  ASSUME ChannelsIInv, UNCHANGED <<Sounds, songs, Fresh, Gone, Music, refs, Pending, playing>>
  PROVE  StreamsInv'
<1>1. StreamsInv /\ Owned' = Owned
  BY DEF ChannelsIInv, Owned
<1> QED
  BY <1>1 DEF StreamsInv, OwnersApart, RefsCounted, PlayersOwned

(* Stopping a stream: a reference for its event.                           *)
LEMMA StopEffect ==
  ASSUME ChannelsTypeOK, NEW os \in Streams, StopStream(os), batch' = batch
  PROVE  /\ refs' \in [Streams -> Nat] /\ playing' = playing \ {os}
         /\ events' \in Seq(Streams) /\ Pending' \in [Streams -> Nat]
         /\ \A x \in Streams : x # os => refs'[x] = refs[x] /\ Pending'[x] = Pending[x]
         /\ \E k \in {0, 1} : refs'[os] = refs[os] + k /\ Pending'[os] = Pending[os] + k
<1>1. /\ refs \in [Streams -> Nat] /\ events \in Seq(Streams) /\ Pending \in [Streams -> Nat]
  BY PendingNat DEF ChannelsTypeOK
<1>2. CASE os \in playing
  <2>1. FireStopEvent(os) /\ playing' = playing \ {os}
    BY <1>2 DEF StopStream
  <2>2. events' \in Seq(Streams) /\ Pending' = [Pending EXCEPT ![os] = @ + 1]
    BY <2>1, PendingFired
  <2>3. refs' = [refs EXCEPT ![os] = @ + 1]
    BY <2>1 DEF FireStopEvent
  <2>4. refs'[os] = refs[os] + 1 /\ Pending'[os] = Pending[os] + 1
    BY <1>1, <2>2, <2>3
  <2>5. refs' \in [Streams -> Nat] /\ Pending' \in [Streams -> Nat]
    BY <1>1, <2>2, <2>3
  <2> QED
    BY <1>1, <2>1, <2>2, <2>3, <2>4, <2>5
<1>3. CASE os \notin playing
  <2>1. refs' = refs /\ playing' = playing /\ events' = events
    BY <1>3 DEF StopStream, streamVars
  <2>2. Pending' = Pending
    BY <2>1, PendingKept
  <2>3. playing' = playing \ {os}
    BY <1>3, <2>1
  <2>4. refs[os] = refs[os] + 0 /\ Pending[os] = Pending[os] + 0
    BY <1>1
  <2> QED
    BY <1>1, <2>1, <2>2, <2>3, <2>4
<1> QED
  BY <1>2, <1>3

LEMMA StopCounted ==
  ASSUME ChannelsIInv, NEW os \in Streams, StopStream(os), batch' = batch, Owned' = Owned
  PROVE  RefsCounted'
<1>1. \A x \in Streams : /\ refs[x] = Pending[x] + (IF x \in Owned THEN 1 ELSE 0)
                         /\ Pending[x] \in Nat
  BY Typed DEF ChannelsIInv, StreamsInv, RefsCounted
<1>2. \A x \in Streams : x # os => refs'[x] = refs[x] /\ Pending'[x] = Pending[x]
  BY Typed, StopEffect
<1>3. PICK k \in {0, 1} : refs'[os] = refs[os] + k /\ Pending'[os] = Pending[os] + k
  BY Typed, StopEffect
<1>4. refs'[os] = Pending'[os] + (IF os \in Owned THEN 1 ELSE 0)
  <2>1. PICK n \in Nat, c \in {0, 1} : /\ n = Pending[os] /\ c = IF os \in Owned THEN 1 ELSE 0
                                      /\ refs[os] = n + c
    BY <1>1
  <2>2. (n + c) + k = (n + k) + c
    BY <1>3
  <2> QED
    BY <1>3, <2>1, <2>2
<1>5. \A x \in Streams : refs'[x] = Pending'[x] + (IF x \in Owned THEN 1 ELSE 0)
  BY <1>1, <1>2, <1>4
<1> QED
  BY <1>5 DEF RefsCounted

(* Giving a reference back: the stream's owner has one.                    *)
LEMMA UnrefEffect ==
  ASSUME ChannelsIInv, NEW os \in Streams, Unref(os), refs[os] >= 1
  PROVE  /\ refs' \in [Streams -> Nat] /\ refs[os] = refs'[os] + 1
         /\ \A x \in Streams : x # os => refs'[x] = refs[x]
         /\ playing' \subseteq playing /\ playing \ {os} \subseteq playing'
         /\ (refs[os] # 1 => playing' = playing) /\ (refs[os] = 1 => playing' = playing \ {os})
<1>1. refs \in [Streams -> Nat] /\ refs' = [refs EXCEPT ![os] = @ - 1]
      /\ playing' = IF refs[os] = 1 THEN playing \ {os} ELSE playing
  BY Typed DEF Unref
<1>2. refs' \in [Streams -> Nat] /\ refs[os] = refs'[os] + 1
  BY <1>1
<1> QED
  BY <1>1, <1>2

-----------------------------------------------------------------------------
(* The mixer and the game's thread: sounds.                                *)

LEMMA StreamEndsStep ==
  ASSUME ChannelsIInv, NEW os \in Streams, StreamEnds(os)
  PROVE  ChannelsIInv'
<1>1. /\ os \in playing /\ os \notin songs /\ os # music /\ StopStream(os)
      /\ UNCHANGED <<handles, handleCount, handleVals, channels, songs, music, batch, lock, main, thr>>
  BY DEF StreamEnds, setVars
<1>2. os \in Sounds /\ os \notin Music
  BY <1>1 DEF ChannelsIInv, StreamsInv, PlayersOwned, Music
<1>3. UNCHANGED <<Sounds, Fresh, Gone, Music, Owned, Stopped>>
  BY <1>1 DEF Sounds, Fresh, Gone, Music, Owned, Stopped
<1>4. /\ refs' \in [Streams -> Nat] /\ playing' = playing \ {os} /\ events' \in Seq(Streams)
      /\ \A x \in Streams : x # os => Pending'[x] = Pending[x]
  BY <1>1, Typed, StopEffect
<1>5. ChannelsTypeOK'
  BY <1>1, <1>4, Typed DEF ChannelsTypeOK
<1>6. StreamsInv'
  <2>1. RefsCounted'
    BY <1>1, <1>3, StopCounted
  <2>2. OwnersApart'
    BY <1>1, <1>3 DEF ChannelsIInv, StreamsInv, OwnersApart
  <2>3. PlayersOwned'
    BY <1>1, <1>2, <1>3, <1>4, Typed DEF ChannelsIInv, StreamsInv, PlayersOwned
  <2> QED
    BY <2>1, <2>2, <2>3 DEF StreamsInv
<1>7. MainHolds'
  BY <1>1, <1>3, <1>4 DEF ChannelsIInv, MainHolds
<1>8. EventsHold'
  BY <1>1, <1>3 DEF ChannelsIInv, EventsHold
<1>9. SetInv'
  BY <1>1, SetKept
<1> QED
  BY <1>5, <1>6, <1>7, <1>8, <1>9 DEF ChannelsIInv

LEMMA PlaySampleStep ==
  ASSUME ChannelsIInv, NEW os \in Streams, PlaySample(os)
  PROVE  ChannelsIInv'
<1>1. /\ main.at = "script" /\ NewStream(os)
      /\ main' = [at |-> "register", os |-> os, h |-> 0]
      /\ UNCHANGED <<handles, handleCount, handleVals, channels, playing, events, songs, music,
                     batch, lock, thr>>
  BY DEF PlaySample, setVars
<1>2. refs[os] = 0 /\ refs' = [refs EXCEPT ![os] = 1]
  BY <1>1, Typed DEF NewStream, Live
<1>3. Pending[os] = 0 /\ os \notin Owned /\ os \notin playing
  BY <1>2, Unreferenced
<1>4. /\ UNCHANGED <<Sounds, Gone, Music, Stopped, Pending>>
      /\ Fresh = {} /\ Fresh' = {os}
      /\ main'.at = "register" /\ main'.os = os
  BY <1>1 DEF Sounds, Gone, Music, Fresh, Stopped, Pending
<1>5. Owned' = Owned \cup {os}
  BY <1>1, <1>4 DEF Owned
<1>6. ChannelsTypeOK'
  BY <1>1, <1>2, <1>4, Typed DEF ChannelsTypeOK
<1>7. StreamsInv'
  <2>1. \A x \in Streams : refs'[x] = IF x = os THEN 1 ELSE refs[x]
    BY <1>2, Typed
  <2>2. RefsCounted'
    BY <1>3, <1>4, <1>5, <2>1 DEF ChannelsIInv, StreamsInv, RefsCounted
  <2>3. OwnersApart'
    BY <1>1, <1>3, <1>4 DEF ChannelsIInv, StreamsInv, OwnersApart, Owned
  <2>4. PlayersOwned'
    BY <1>1, <1>4 DEF ChannelsIInv, StreamsInv, PlayersOwned
  <2> QED
    BY <2>2, <2>3, <2>4 DEF StreamsInv
<1>8. MainHolds'
  BY <1>1, <1>3, <1>4 DEF MainHolds
<1>9. EventsHold'
  BY <1>1, <1>4 DEF ChannelsIInv, EventsHold
<1>10. SetInv'
  BY <1>1, SetKept
<1> QED
  BY <1>6, <1>7, <1>8, <1>9, <1>10 DEF ChannelsIInv

LEMMA StartSampleStep ==
  ASSUME ChannelsIInv, StartSample
  PROVE  ChannelsIInv'
<1>1. /\ main.at = "play" /\ playing' = playing \cup {main.os} /\ main' = Script
      /\ UNCHANGED <<handles, handleCount, handleVals, channels, refs, events, songs, music,
                     batch, lock, thr>>
  BY DEF StartSample, setVars
<1>2. main.os \in Streams /\ main.os \in Sounds /\ Pending[main.os] = 0
  BY <1>1 DEF ChannelsIInv, MainHolds
<1>3. /\ UNCHANGED <<Sounds, Gone, Music, Fresh, Stopped, Pending>> /\ main'.at = "script"
  BY <1>1 DEF Sounds, Gone, Music, Fresh, Stopped, Pending, Script
<1>4. ChannelsTypeOK'
  BY <1>1, <1>2, <1>3, Typed DEF ChannelsTypeOK, Script
<1>5. StreamsInv'
  <2>1. RefsCounted' /\ OwnersApart'
    BY <1>1, <1>3 DEF ChannelsIInv, StreamsInv, RefsCounted, OwnersApart, Owned
  <2>2. PlayersOwned'
    BY <1>1, <1>2, <1>3 DEF ChannelsIInv, StreamsInv, PlayersOwned
  <2> QED
    BY <2>1, <2>2 DEF StreamsInv
<1>6. MainHolds' /\ EventsHold'
  BY <1>1, <1>3 DEF ChannelsIInv, MainHolds, EventsHold
<1>7. SetInv'
  BY <1>1, SetKept
<1> QED
  BY <1>4, <1>5, <1>6, <1>7 DEF ChannelsIInv

LEMMA GetPointerStep ==
  ASSUME ChannelsIInv, NEW call \in {"stop", "ask"}, NEW h \in 0 .. MaxHandles - 1,
         GetPointer(call, h)
  PROVE  ChannelsIInv'
<1>1. /\ main.at = "script" /\ handleVals[h] # NULL
      /\ main' = [at |-> call, os |-> handleVals[h], h |-> h]
      /\ UNCHANGED <<handles, handleCount, handleVals, channels, refs, playing, events, songs,
                     music, batch, lock, thr>>
  BY DEF GetPointer, setVars, streamVars
<1>2. handleVals[h] \in Streams /\ handleVals[h] \in Sounds
  <2>1. handleVals[h] \in Streams
    BY <1>1, Typed
  <2>2. h # 0 /\ channels[handleVals[h]] = h
    BY <1>1 DEF ChannelsIInv, SetInv
  <2> QED
    BY <2>1, <2>2 DEF Sounds
<1>3. handleVals[h] \notin songs \cup Music
  BY <1>2 DEF ChannelsIInv, StreamsInv, OwnersApart
<1>4. /\ UNCHANGED <<Sounds, Gone, Music, Stopped, Pending>> /\ Fresh = {} /\ Fresh' = {}
      /\ main'.at = call /\ main'.os = handleVals[h]
  BY <1>1 DEF Sounds, Gone, Music, Fresh, Stopped, Pending
<1>5. ChannelsTypeOK'
  BY <1>1, <1>4, Typed DEF ChannelsTypeOK
<1>6. StreamsInv'
  BY <1>1, <1>4, StreamsKept
<1>7. MainHolds' /\ EventsHold'
  BY <1>1, <1>2, <1>3, <1>4 DEF ChannelsIInv, MainHolds, EventsHold
<1>8. SetInv'
  BY <1>1, SetKept
<1> QED
  BY <1>5, <1>6, <1>7, <1>8 DEF ChannelsIInv

(* Asking, and finding the stream gone.                                    *)
LEMMA AskStep ==
  ASSUME ChannelsIInv, UseDeleted \/ SoundIsPlaying
  PROVE  ChannelsIInv'
<1>1. /\ main.at \in {"stop", "ask"} /\ main'.at \in {"script", "crashed"}
      /\ main' \in [at : {"script", "crashed"}, os : Streams \cup {NULL}, h : 0 .. MaxHandles - 1]
      /\ UNCHANGED <<handles, handleCount, handleVals, channels, refs, playing, events, songs,
                     music, batch, lock, thr>>
  <2>1. CASE SoundIsPlaying
    BY <2>1, Typed DEF SoundIsPlaying, Script, setVars, streamVars
  <2>2. CASE UseDeleted
    BY <2>2, Typed DEF ChannelsTypeOK, UseDeleted, setVars, streamVars
  <2> QED
    BY <2>1, <2>2
<1>2. UNCHANGED <<Sounds, Gone, Music, Fresh, Stopped, Pending>>
  BY <1>1 DEF Sounds, Gone, Music, Fresh, Stopped, Pending
<1>3. ChannelsTypeOK'
  BY <1>1, Typed DEF ChannelsTypeOK
<1>4. StreamsInv'
  BY <1>1, <1>2, StreamsKept
<1>5. MainHolds' /\ EventsHold'
  BY <1>1, <1>2 DEF ChannelsIInv, MainHolds, EventsHold
<1>6. SetInv'
  BY <1>1, SetKept
<1> QED
  BY <1>3, <1>4, <1>5, <1>6 DEF ChannelsIInv

LEMMA StopSoundStep ==
  ASSUME ChannelsIInv, StopSound
  PROVE  ChannelsIInv'
<1> DEFINE os == main.os
<1>1. /\ main.at = "stop" /\ StopStream(os) /\ main' = Script
      /\ UNCHANGED <<handles, handleCount, handleVals, channels, songs, music, batch, lock, thr>>
  BY DEF StopSound, setVars
<1>2. os \in Streams /\ os \notin songs /\ os \notin Music
  BY <1>1 DEF ChannelsIInv, MainHolds
<1> HIDE DEF os
<1>3. /\ UNCHANGED <<Sounds, Gone, Music, Fresh, Owned, Stopped>> /\ main'.at = "script"
  BY <1>1 DEF Sounds, Gone, Music, Fresh, Owned, Stopped, Script
<1>4. /\ refs' \in [Streams -> Nat] /\ playing' = playing \ {os} /\ events' \in Seq(Streams)
      /\ \A x \in Streams : x # os => Pending'[x] = Pending[x]
  BY <1>1, <1>2, Typed, StopEffect
<1>5. ChannelsTypeOK'
  BY <1>1, <1>3, <1>4, Typed DEF ChannelsTypeOK, Script
<1>6. StreamsInv'
  <2>1. RefsCounted'
    BY <1>1, <1>2, <1>3, StopCounted
  <2>2. OwnersApart'
    BY <1>1, <1>3 DEF ChannelsIInv, StreamsInv, OwnersApart
  <2>3. PlayersOwned'
    BY <1>1, <1>2, <1>3, <1>4, Typed DEF ChannelsIInv, StreamsInv, PlayersOwned
  <2> QED
    BY <2>1, <2>2, <2>3 DEF StreamsInv
<1>7. MainHolds' /\ EventsHold'
  BY <1>1, <1>3 DEF ChannelsIInv, MainHolds, EventsHold
<1>8. SetInv'
  BY <1>1, SetKept
<1> QED
  BY <1>5, <1>6, <1>7, <1>8 DEF ChannelsIInv

-----------------------------------------------------------------------------
(* The game's thread: songs and music.                                     *)

(* The music has one reference, and no event.                              *)
LEMMA MusicHeld ==
  ASSUME ChannelsIInv, music # NULL
  PROVE  /\ music \in Streams /\ Music = {music} /\ Pending[music] = 0 /\ refs[music] = 1
         /\ music \notin Sounds /\ music \notin songs /\ music \notin Fresh /\ music \notin Gone
<1>1. music \in Streams /\ Music = {music}
  BY Typed DEF Music
<1>2. Pending[music] = 0 /\ music \in Owned
  BY <1>1 DEF ChannelsIInv, StreamsInv, PlayersOwned, Owned
<1>3. refs[music] = 1
  BY <1>1, <1>2 DEF ChannelsIInv, StreamsInv, RefsCounted
<1>4. music \notin Sounds /\ music \notin songs /\ music \notin Fresh /\ music \notin Gone
  BY <1>1 DEF ChannelsIInv, StreamsInv, OwnersApart
<1> QED
  BY <1>1, <1>2, <1>3, <1>4

LEMMA StopMusicStep ==
  ASSUME ChannelsIInv, StopMusic
  PROVE  ChannelsIInv'
<1>1. /\ music # NULL /\ Unref(music) /\ music' = NULL /\ main.at = "script"
      /\ UNCHANGED <<handles, handleCount, handleVals, channels, events, songs, batch, lock, main, thr>>
  BY DEF StopMusic, setVars
<1>2. /\ music \in Streams /\ Music = {music} /\ Pending[music] = 0 /\ refs[music] = 1
      /\ music \notin Sounds /\ music \notin songs /\ music \notin Fresh /\ music \notin Gone
  BY <1>1, MusicHeld
<1>3. /\ refs' \in [Streams -> Nat] /\ refs'[music] = 0 /\ playing' = playing \ {music}
      /\ \A x \in Streams : x # music => refs'[x] = refs[x]
  <2>1. refs' = [refs EXCEPT ![music] = 0] /\ playing' = playing \ {music}
    BY <1>1, <1>2, Typed DEF Unref
  <2> QED
    BY <1>2, <2>1, Typed
<1>4. UNCHANGED <<Sounds, Gone, Fresh, Stopped, Pending>> /\ Music' = {}
  BY <1>1 DEF Sounds, Gone, Music, Fresh, Stopped, Pending
<1>5. Owned' = Owned \ {music}
  BY <1>1, <1>2, <1>4 DEF Owned
<1>6. ChannelsTypeOK'
  BY <1>1, <1>3, Typed DEF ChannelsTypeOK
<1>7. StreamsInv'
  <2>1. RefsCounted'
    BY <1>2, <1>3, <1>4, <1>5 DEF ChannelsIInv, StreamsInv, RefsCounted
  <2>2. OwnersApart'
    BY <1>1, <1>4 DEF ChannelsIInv, StreamsInv, OwnersApart
  <2>3. PlayersOwned'
    BY <1>1, <1>2, <1>3, <1>4 DEF ChannelsIInv, StreamsInv, PlayersOwned
  <2> QED
    BY <2>1, <2>2, <2>3 DEF StreamsInv
<1>8. MainHolds' /\ EventsHold'
  BY <1>1, <1>4 DEF ChannelsIInv, MainHolds, EventsHold
<1>9. SetInv'
  BY <1>1, SetKept
<1> QED
  BY <1>6, <1>7, <1>8, <1>9 DEF ChannelsIInv

(* A stream made after the music was stopped, perhaps at its address.      *)
LEMMA NewAfterMusic ==
  ASSUME ChannelsIInv, NEW os \in Streams, NoMusic[os] = 0
  PROVE  /\ Pending[os] = 0 /\ os \notin Sounds \cup songs \cup Fresh \cup Gone
         /\ NoMusic \in [Streams -> Nat]
         /\ \A x \in Streams : NoMusic[x] = Pending[x] + (IF x \in Owned \ Music THEN 1 ELSE 0)
         /\ \A x \in Music : x \notin Owned \ Music
<1>1. \A x \in Streams : refs[x] = Pending[x] + (IF x \in Owned THEN 1 ELSE 0)
  BY DEF ChannelsIInv, StreamsInv, RefsCounted
<1>2. CASE music = NULL
  <2>1. Music = {} /\ NoMusic = refs
    BY <1>2 DEF Music, NoMusic
  <2>2. Owned \ Music = Owned
    BY <2>1
  <2>3. Pending[os] = 0 /\ os \notin Owned
    BY <2>1, Unreferenced
  <2> QED
    BY <1>1, <2>1, <2>2, <2>3, Typed DEF Owned
<1>3. CASE music # NULL
  <2>1. /\ music \in Streams /\ Music = {music} /\ Pending[music] = 0
        /\ music \notin Sounds /\ music \notin songs /\ music \notin Fresh /\ music \notin Gone
    BY <1>3, MusicHeld
  <2>2. NoMusic = [refs EXCEPT ![music] = 0]
    BY <1>3 DEF NoMusic
  <2>3. /\ NoMusic \in [Streams -> Nat] /\ NoMusic[music] = 0
        /\ \A x \in Streams : x # music => NoMusic[x] = refs[x]
    BY <2>1, <2>2, Typed
  <2>4. \A x \in Streams : NoMusic[x] = Pending[x] + (IF x \in Owned \ Music THEN 1 ELSE 0)
    BY <1>1, <2>1, <2>3
  <2>5. Pending[os] = 0 /\ os \notin Sounds \cup songs \cup Fresh \cup Gone
    <3>1. CASE os = music
      BY <2>1, <3>1
    <3>2. CASE os # music
      <4>1. refs[os] = 0
        BY <2>3, <3>2
      <4> QED
        BY <4>1, Unreferenced DEF Owned
    <3> QED
      BY <3>1, <3>2
  <2> QED
    BY <2>1, <2>3, <2>4, <2>5
<1> QED
  BY <1>2, <1>3

LEMMA PlayMusicStep ==
  ASSUME ChannelsIInv, NEW os \in Streams, PlayMusic(os)
  PROVE  ChannelsIInv'
<1>1. /\ main.at = "script" /\ NoMusic[os] = 0 /\ music' = os
      /\ refs' = [NoMusic EXCEPT ![os] = 1] /\ playing' = (playing \ {music}) \cup {os}
      /\ UNCHANGED <<handles, handleCount, handleVals, channels, events, songs, batch, lock, main, thr>>
  BY DEF PlayMusic, setVars
<1>2. /\ Pending[os] = 0 /\ os \notin Sounds \cup songs \cup Fresh \cup Gone
      /\ NoMusic \in [Streams -> Nat]
      /\ \A x \in Streams : NoMusic[x] = Pending[x] + (IF x \in Owned \ Music THEN 1 ELSE 0)
  BY <1>1, NewAfterMusic
<1>3. UNCHANGED <<Sounds, Gone, Fresh, Stopped, Pending>> /\ Music' = {os}
  BY <1>1, Typed DEF Sounds, Gone, Music, Fresh, Stopped, Pending
<1>4. Owned' = (Owned \ Music) \cup {os}
  BY <1>1, <1>3 DEF Owned, ChannelsIInv, StreamsInv, OwnersApart
<1>5. refs' \in [Streams -> Nat] /\ \A x \in Streams : refs'[x] = IF x = os THEN 1 ELSE NoMusic[x]
  BY <1>1, <1>2
<1>6. ChannelsTypeOK'
  BY <1>1, <1>5, Typed DEF ChannelsTypeOK
<1>7. StreamsInv'
  <2>1. RefsCounted'
    BY <1>2, <1>3, <1>4, <1>5 DEF RefsCounted
  <2>2. OwnersApart'
    BY <1>1, <1>2, <1>3 DEF ChannelsIInv, StreamsInv, OwnersApart
  <2>3. PlayersOwned'
    BY <1>1, <1>2, <1>3 DEF ChannelsIInv, StreamsInv, PlayersOwned, Music
  <2> QED
    BY <2>1, <2>2, <2>3 DEF StreamsInv
<1>8. MainHolds' /\ EventsHold'
  BY <1>1, <1>3 DEF ChannelsIInv, MainHolds, EventsHold
<1>9. SetInv'
  BY <1>1, SetKept
<1> QED
  BY <1>6, <1>7, <1>8, <1>9 DEF ChannelsIInv

LEMMA LoadSongStep ==
  ASSUME ChannelsIInv, NEW os \in Streams, LoadSong(os)
  PROVE  ChannelsIInv'
<1>1. /\ main.at = "script" /\ NoMusic[os] = 0 /\ music' = NULL /\ songs' = songs \cup {os}
      /\ refs' = [NoMusic EXCEPT ![os] = 1] /\ playing' = playing \ {music}
      /\ UNCHANGED <<handles, handleCount, handleVals, channels, events, batch, lock, main, thr>>
  BY DEF LoadSong, setVars
<1>2. /\ Pending[os] = 0 /\ os \notin Sounds \cup songs \cup Fresh \cup Gone
      /\ NoMusic \in [Streams -> Nat]
      /\ \A x \in Streams : NoMusic[x] = Pending[x] + (IF x \in Owned \ Music THEN 1 ELSE 0)
  BY <1>1, NewAfterMusic
<1>3. UNCHANGED <<Sounds, Gone, Fresh, Stopped, Pending>> /\ Music' = {}
  BY <1>1 DEF Sounds, Gone, Music, Fresh, Stopped, Pending
<1>4. Owned' = (Owned \ Music) \cup {os}
  BY <1>1, <1>3 DEF Owned, ChannelsIInv, StreamsInv, OwnersApart
<1>5. refs' \in [Streams -> Nat] /\ \A x \in Streams : refs'[x] = IF x = os THEN 1 ELSE NoMusic[x]
  BY <1>1, <1>2
<1>6. ChannelsTypeOK'
  BY <1>1, <1>5, Typed DEF ChannelsTypeOK
<1>7. StreamsInv'
  <2>1. RefsCounted'
    BY <1>2, <1>3, <1>4, <1>5 DEF RefsCounted
  <2>2. OwnersApart'
    BY <1>1, <1>2, <1>3 DEF ChannelsIInv, StreamsInv, OwnersApart
  <2>3. PlayersOwned'
    BY <1>1, <1>2, <1>3 DEF ChannelsIInv, StreamsInv, PlayersOwned, Music
  <2> QED
    BY <2>1, <2>2, <2>3 DEF StreamsInv
<1>8. MainHolds' /\ EventsHold'
  BY <1>1, <1>3 DEF ChannelsIInv, MainHolds, EventsHold
<1>9. SetInv'
  BY <1>1, SetKept
<1> QED
  BY <1>6, <1>7, <1>8, <1>9 DEF ChannelsIInv

LEMMA PlaySongStep ==
  ASSUME ChannelsIInv, NEW os \in Streams, PlaySong(os)
  PROVE  ChannelsIInv'
<1>1. /\ main.at = "script" /\ os \in songs /\ playing' = playing \cup {os}
      /\ UNCHANGED <<handles, handleCount, handleVals, channels, refs, events, songs, music,
                     batch, lock, main, thr>>
  BY DEF PlaySong, setVars
<1>2. UNCHANGED <<Sounds, Gone, Music, Fresh, Stopped, Pending>> /\ os \notin Sounds
  BY <1>1 DEF Sounds, Gone, Music, Fresh, Stopped, Pending, ChannelsIInv, StreamsInv, OwnersApart
<1>3. ChannelsTypeOK'
  BY <1>1, Typed DEF ChannelsTypeOK
<1>4. StreamsInv'
  <2>1. RefsCounted' /\ OwnersApart'
    BY <1>1, <1>2 DEF ChannelsIInv, StreamsInv, RefsCounted, OwnersApart, Owned
  <2>2. PlayersOwned'
    BY <1>1, <1>2 DEF ChannelsIInv, StreamsInv, PlayersOwned
  <2> QED
    BY <2>1, <2>2 DEF StreamsInv
<1>5. MainHolds' /\ EventsHold'
  BY <1>1, <1>2 DEF ChannelsIInv, MainHolds, EventsHold
<1>6. SetInv'
  BY <1>1, SetKept
<1> QED
  BY <1>3, <1>4, <1>5, <1>6 DEF ChannelsIInv

(* StopSong, and the first part of FreeSong.                               *)
LEMMA StopSongStep ==
  ASSUME ChannelsIInv, NEW os \in Streams, StopSong(os) \/ FreeSong(os)
  PROVE  ChannelsIInv'
<1>1. /\ main.at = "script" /\ os \in songs /\ StopStream(os)
      /\ UNCHANGED <<handles, handleCount, handleVals, channels, music, batch, lock, thr>>
      /\ \/ main' = main /\ songs' = songs
         \/ main' = [at |-> "free", os |-> os, h |-> 0] /\ songs' = songs \ {os}
  BY DEF StopSong, FreeSong, setVars
<1>2. /\ os \notin Sounds /\ os \notin Gone /\ os \notin Music /\ Fresh = {}
  BY <1>1 DEF ChannelsIInv, StreamsInv, OwnersApart, Fresh
<1>3. UNCHANGED <<Sounds, Gone, Music, Stopped>>
  BY <1>1 DEF Sounds, Gone, Music, Stopped
<1>4. \/ main'.at = "script" /\ songs' = songs /\ Fresh' = {}
      \/ main'.at = "free" /\ main'.os = os /\ songs' = songs \ {os} /\ Fresh' = {os}
  BY <1>1 DEF Fresh
<1>5. Owned' = Owned
  BY <1>1, <1>2, <1>3, <1>4 DEF Owned
<1>6. /\ refs' \in [Streams -> Nat] /\ playing' = playing \ {os} /\ events' \in Seq(Streams)
      /\ \A x \in Streams : x # os => Pending'[x] = Pending[x]
  BY <1>1, Typed, StopEffect
<1>7. ChannelsTypeOK'
  <2>1. CASE main' = main /\ songs' = songs
    BY <1>1, <1>6, <2>1, Typed DEF ChannelsTypeOK
  <2>2. CASE main' = [at |-> "free", os |-> os, h |-> 0] /\ songs' = songs \ {os}
    BY <1>1, <1>6, <2>2, Typed DEF ChannelsTypeOK
  <2> QED
    BY <1>1, <2>1, <2>2
<1>8. StreamsInv'
  <2>1. RefsCounted'
    BY <1>1, <1>5, StopCounted
  <2>2. OwnersApart'
    BY <1>2, <1>3, <1>4 DEF ChannelsIInv, StreamsInv, OwnersApart
  <2>3. PlayersOwned'
    BY <1>1, <1>2, <1>3, <1>4, <1>6, Typed DEF ChannelsIInv, StreamsInv, PlayersOwned
  <2> QED
    BY <2>1, <2>2, <2>3 DEF StreamsInv
<1>9. MainHolds' /\ EventsHold'
  BY <1>1, <1>3, <1>4 DEF ChannelsIInv, MainHolds, EventsHold
<1>10. SetInv'
  BY <1>1, SetKept
<1> QED
  BY <1>7, <1>8, <1>9, <1>10 DEF ChannelsIInv

LEMMA UnrefSongStep ==
  ASSUME ChannelsIInv, UnrefSong
  PROVE  ChannelsIInv'
<1> DEFINE os == main.os
<1>1. /\ main.at = "free" /\ Unref(os) /\ main' = Script
      /\ UNCHANGED <<handles, handleCount, handleVals, channels, events, songs, music, batch, lock, thr>>
  BY DEF UnrefSong, setVars
<1>2. os \in Streams /\ Fresh = {os}
  BY <1>1 DEF ChannelsIInv, MainHolds, Fresh
<1> HIDE DEF os
<1>3. UNCHANGED <<Sounds, Gone, Music, Stopped, Pending>> /\ Fresh' = {} /\ main'.at = "script"
  BY <1>1 DEF Sounds, Gone, Music, Fresh, Stopped, Pending, Script
<1>4. os \notin Sounds /\ os \notin songs /\ os \notin Gone /\ os \notin Music
  BY <1>2 DEF ChannelsIInv, StreamsInv, OwnersApart
<1>5. Owned' = Owned \ {os} /\ os \in Owned
  BY <1>1, <1>2, <1>3, <1>4 DEF Owned
<1>6. \A x \in Streams : refs[x] = Pending[x] + (IF x \in Owned THEN 1 ELSE 0) /\ Pending[x] \in Nat
  BY Typed DEF ChannelsIInv, StreamsInv, RefsCounted
<1>7. refs[os] >= 1
  BY <1>2, <1>5, <1>6
<1>8. /\ refs' \in [Streams -> Nat] /\ refs[os] = refs'[os] + 1
      /\ \A x \in Streams : x # os => refs'[x] = refs[x]
      /\ playing' \subseteq playing
  BY <1>1, <1>2, <1>7, UnrefEffect
<1>9. ChannelsTypeOK'
  BY <1>1, <1>3, <1>8, Typed DEF ChannelsTypeOK, Script
<1>10. StreamsInv'
  <2>1. refs'[os] = Pending[os] + 0
    <3>1. refs[os] = Pending[os] + 1 /\ refs'[os] \in Nat /\ Pending[os] \in Nat
      BY <1>2, <1>5, <1>6, <1>8
    <3> QED
      BY <1>8, <3>1
  <2>2. RefsCounted'
    BY <1>3, <1>5, <1>6, <1>8, <2>1 DEF RefsCounted
  <2>3. OwnersApart'
    BY <1>1, <1>3 DEF ChannelsIInv, StreamsInv, OwnersApart
  <2>4. PlayersOwned'
    BY <1>1, <1>3, <1>8 DEF ChannelsIInv, StreamsInv, PlayersOwned
  <2> QED
    BY <2>2, <2>3, <2>4 DEF StreamsInv
<1>11. MainHolds' /\ EventsHold'
  BY <1>1, <1>3 DEF ChannelsIInv, MainHolds, EventsHold
<1>12. SetInv'
  BY <1>1, SetKept
<1> QED
  BY <1>9, <1>10, <1>11, <1>12 DEF ChannelsIInv

-----------------------------------------------------------------------------
(* The game's thread takes a handle.                                       *)

LEMMA RegisterChannelStep ==
  ASSUME ChannelsIInv, RegisterChannel
  PROVE  ChannelsIInv'
<1> DEFINE n == Len(handles')
<1>1. /\ main.at = "register" /\ lock = "free" /\ GrownCount <= MaxHandles /\ lock' = "main"
      /\ handles' = FreeStack /\ handleCount' = GrownCount
      /\ main' = [main EXCEPT !.at = "alloc", !.h = FreeStack[Len(FreeStack)]]
      /\ UNCHANGED <<handleVals, channels, refs, playing, events, songs, music, batch, thr>>
  BY DEF RegisterChannel, streamVars
<1>2. UNCHANGED <<Sounds, Gone, Music, Stopped, Pending>>
  BY <1>1 DEF Sounds, Gone, Music, Stopped, Pending
<1>3. thr \notin {"push", "unref"}
  BY <1>1 DEF ChannelsIInv, EventsHold
<1>4. /\ \A i, j \in 1 .. Len(handles) : i # j => handles[i] # handles[j]
      /\ \A i \in 1 .. Len(handles) : handles[i] \in 1 .. (handleCount - 1)
      /\ \A i \in 1 .. Len(handles), os \in Streams : channels[os] # handles[i]
      /\ \A os \in Streams : channels[os] \in 0 .. (handleCount - 1)
      /\ \A h \in 1 .. (handleCount - 1) :
           (\E i \in 1 .. Len(handles) : handles[i] = h) \/ (\E os \in Streams : channels[os] = h)
  BY DEF ChannelsIInv, SetInv
<1>5. /\ handles' \in Seq(1 .. MaxHandles - 1) /\ handles' # <<>> /\ n \in Nat \ {0}
      /\ handleCount' \in 1 .. MaxHandles
      /\ \A i, j \in 1 .. n : i # j => handles'[i] # handles'[j]
      /\ \A i \in 1 .. n : handles'[i] \in 1 .. (handleCount' - 1)
      /\ \A i \in 1 .. n, os \in Streams : channels[os] # handles'[i]
      /\ \A os \in Streams : channels[os] \in 0 .. (handleCount' - 1)
      /\ \A h \in 1 .. (handleCount' - 1) :
           (\E i \in 1 .. n : handles'[i] = h) \/ (\E os \in Streams : channels[os] = h)
  <2>1. CASE handles # <<>>
    <3>1. handles' = handles /\ handleCount' = handleCount
      BY <1>1, <2>1 DEF FreeStack, GrownCount
    <3> QED
      BY <1>4, <2>1, <3>1, Typed
  <2>2. CASE handles = <<>>
    <3>1. PICK c \in Nat \ {0}, k \in Nat \ {0}, m \in Nat \ {0} :
            c = handleCount /\ k = Chunk /\ m = MaxHandles
      BY Typed, ChannelsAssumption
    <3>2. handles' = [i \in 1 .. k |-> c + i - 1] /\ handleCount' = c + k /\ c + k <= m
      BY <1>1, <2>2, <3>1 DEF FreeStack, GrownCount
    <3>3. \A i \in 1 .. k : /\ c + i - 1 \in 1 .. (m - 1) /\ c + i - 1 \in 1 .. (c + k - 1)
                            /\ c + i - 1 \notin 0 .. (c - 1)
      BY <3>1, <3>2
    <3>4. /\ handles' \in Seq(1 .. m - 1) /\ n = k /\ \A i \in 1 .. k : handles'[i] = c + i - 1
          /\ handles' # <<>>
      BY <3>1, <3>2, <3>3
    <3>5. \A i, j \in 1 .. k : c + i - 1 = c + j - 1 => i = j
      BY <3>1
    <3>6. \A h \in 1 .. (c + k - 1) : h \in 1 .. (c - 1) \/ (h - c + 1 \in 1 .. k /\ c + (h - c + 1) - 1 = h)
      BY <3>1
    <3>7. ~ \E i \in 1 .. Len(handles) : TRUE
      BY <2>2
    <3>8. \A h \in 1 .. (c + k - 1) :
            (\E i \in 1 .. k : handles'[i] = h) \/ (\E os \in Streams : channels[os] = h)
      <4>1. SUFFICES ASSUME NEW h \in 1 .. (c + k - 1)
                     PROVE  \/ \E i \in 1 .. k : handles'[i] = h
                            \/ \E os \in Streams : channels[os] = h
        OBVIOUS
      <4>2. CASE h \in 1 .. (c - 1)
        BY <1>4, <3>1, <3>7, <4>2
      <4>3. CASE h - c + 1 \in 1 .. k /\ c + (h - c + 1) - 1 = h
        <5>1. handles'[h - c + 1] = h
          BY <3>4, <4>3
        <5> QED
          BY <4>3, <5>1
      <4> QED
        BY <3>6, <4>2, <4>3
    <3>9. \A i \in 1 .. k, os \in Streams : channels[os] # handles'[i]
      BY <1>4, <3>1, <3>3, <3>4
    <3>10. \A os \in Streams : channels[os] \in 0 .. (c + k - 1)
      BY <1>4, <3>1
    <3>11. c + k \in 1 .. m
      BY <3>1, <3>2
    <3> HIDE DEF n
    <3>12. \A i, j \in 1 .. k : i # j => handles'[i] # handles'[j]
      BY <3>4, <3>5
    <3>13. \A i \in 1 .. k : handles'[i] \in 1 .. (c + k - 1)
      BY <3>3, <3>4
    <3> QED
      BY <3>1, <3>2, <3>4, <3>8, <3>9, <3>10, <3>11, <3>12, <3>13
  <2> QED
    BY <2>1, <2>2
<1>6. n \in 1 .. n /\ handles'[n] \in 1 .. MaxHandles - 1
  <2>1. PICK l \in Nat \ {0} : l = n
    BY <1>5
  <2>2. l \in 1 .. l
    OBVIOUS
  <2>3. handles' \in Seq(1 .. MaxHandles - 1) /\ n \in 1 .. Len(handles')
    BY <1>5, <2>1, <2>2
  <2>4. handles'[n] \in 1 .. MaxHandles - 1
    BY <2>3, ElementOfSeq
  <2> QED
    BY <2>1, <2>2, <2>4
<1>7. /\ main' \in [at : {"alloc"}, os : Streams \cup {NULL}, h : 0 .. MaxHandles - 1]
      /\ main'.at = "alloc" /\ main'.os = main.os /\ main'.h = handles'[n]
  <2>1. handles'[n] \in 0 .. MaxHandles - 1
    BY <1>6, ChannelsAssumption
  <2> QED
    BY <1>1, <2>1, Typed DEF ChannelsTypeOK
<1>8. Fresh' = Fresh
  BY <1>1, <1>7 DEF Fresh
<1>9. ChannelsTypeOK'
  BY <1>1, <1>5, <1>7, Typed DEF ChannelsTypeOK
<1>10. StreamsInv'
  BY <1>1, <1>2, <1>8, StreamsKept
<1>11. MainHolds' /\ EventsHold'
  BY <1>1, <1>2, <1>3, <1>5, <1>7 DEF ChannelsIInv, MainHolds, EventsHold
<1>12. SetInv'
  <2>1. /\ \A os, ot \in Sounds : channels[os] = channels[ot] => os = ot
        /\ \A h \in 0 .. (MaxHandles - 1) :
             handleVals[h] # NULL => h # 0 /\ channels[handleVals[h]] = h
        /\ \A os \in Sounds : handleVals[channels[os]] = os \/ (thr = "push" /\ Stopped = os)
    BY DEF ChannelsIInv, SetInv
  <2> QED
    BY <1>1, <1>2, <1>5, <2>1 DEF SetInv
<1> QED
  BY <1>9, <1>10, <1>11, <1>12 DEF ChannelsIInv

LEMMA Popped ==
  ASSUME NEW S, NEW s \in Seq(S), NEW n \in Nat, n = Len(s), n >= 1
  PROVE  /\ Front(s) \in Seq(S) /\ Len(Front(s)) = n - 1
         /\ \A i \in 1 .. (n - 1) : Front(s)[i] = s[i]
<1>1. 1 \in Int /\ n - 1 \in Int /\ \A i \in 1 .. (n - 1) : s[i] \in S
  OBVIOUS
<1>2. /\ SubSeq(s, 1, n - 1) \in Seq(S)
      /\ Len(SubSeq(s, 1, n - 1)) = IF 1 <= n - 1 THEN (n - 1) - 1 + 1 ELSE 0
      /\ \A i \in 1 .. ((n - 1) - 1 + 1) : SubSeq(s, 1, n - 1)[i] = s[1 + i - 1]
  BY <1>1, SubSeqProperties
<1>3. /\ (n - 1) - 1 + 1 = n - 1
      /\ (IF 1 <= n - 1 THEN (n - 1) - 1 + 1 ELSE 0) = n - 1
      /\ \A i \in 1 .. (n - 1) : 1 + i - 1 = i
  OBVIOUS
<1> QED
  BY <1>2, <1>3 DEF Front

LEMMA StoreHandleStep ==
  ASSUME ChannelsIInv, StoreHandle
  PROVE  ChannelsIInv' /\ Pool!Acquire(main.os, main.h)
<1> DEFINE os == main.os
           h == main.h
<1>1. /\ main.at = "alloc" /\ handles' = Front(handles)
      /\ handleVals' = [handleVals EXCEPT ![h] = os]
      /\ channels' = [channels EXCEPT ![os] = h]
      /\ lock' = "free" /\ main' = [main EXCEPT !.at = "play"]
      /\ UNCHANGED <<handleCount, refs, playing, events, songs, music, batch, thr>>
  BY DEF StoreHandle, streamVars
<1>2. /\ os \in Streams /\ Pending[os] = 0 /\ os \notin playing
      /\ lock = "main" /\ handles # <<>> /\ h = handles[Len(handles)] /\ Fresh = {os}
  BY <1>1 DEF ChannelsIInv, MainHolds, Fresh
<1>3. PICK n \in Nat \ {0} : n = Len(handles)
  BY <1>2, Typed
<1>4. /\ main' \in [at : {"play"}, os : Streams \cup {NULL}, h : 0 .. MaxHandles - 1]
      /\ main'.at = "play" /\ main'.os = os
  BY <1>1, Typed DEF ChannelsTypeOK
<1> HIDE DEF os, h
<1>5. /\ handles' \in Seq(1 .. MaxHandles - 1) /\ Len(handles') = n - 1
      /\ \A i \in 1 .. (n - 1) : handles'[i] = handles[i]
  <2>1. n \in Nat /\ n >= 1 /\ handles \in Seq(1 .. MaxHandles - 1)
    BY Typed
  <2>2. /\ Front(handles) \in Seq(1 .. MaxHandles - 1) /\ Len(Front(handles)) = n - 1
        /\ \A i \in 1 .. (n - 1) : Front(handles)[i] = handles[i]
    BY <1>3, <2>1, Popped
  <2> QED
    BY <1>1, <2>2
<1>6. /\ n \in 1 .. n /\ \A i \in 1 .. (n - 1) : i \in 1 .. n /\ i # n
      /\ \A i \in 1 .. n : i \in 1 .. (n - 1) \/ i = n
  BY <1>3
<1>7. /\ \A i, j \in 1 .. n : i # j => handles[i] # handles[j]
      /\ \A i \in 1 .. n : handles[i] \in 1 .. (handleCount - 1)
      /\ \A i \in 1 .. n, x \in Streams : channels[x] # handles[i]
      /\ \A x \in Streams : channels[x] \in 0 .. (handleCount - 1)
      /\ \A x, y \in Sounds : channels[x] = channels[y] => x = y
      /\ \A k \in 0 .. (MaxHandles - 1) :
           handleVals[k] # NULL => k # 0 /\ channels[handleVals[k]] = k
      /\ \A x \in Sounds : handleVals[channels[x]] = x \/ (thr = "push" /\ Stopped = x)
      /\ \A k \in 1 .. (handleCount - 1) :
           (\E i \in 1 .. n : handles[i] = k) \/ (\E x \in Streams : channels[x] = k)
  BY <1>3 DEF ChannelsIInv, SetInv
<1>8. /\ h \in 1 .. (handleCount - 1) /\ h = handles[n] /\ \A x \in Streams : channels[x] # h
      /\ h \in 1 .. (MaxHandles - 1) /\ h \in 0 .. (MaxHandles - 1) /\ h \in 0 .. (handleCount - 1)
      /\ h # 0
  <2>1. h \in 1 .. (handleCount - 1) /\ h = handles[n] /\ \A x \in Streams : channels[x] # h
    BY <1>2, <1>3, <1>6, <1>7
  <2>2. handleCount \in 1 .. MaxHandles /\ MaxHandles \in Nat
    BY Typed, ChannelsAssumption
  <2> QED
    BY <2>1, <2>2
<1>9. os \notin Sounds /\ os \notin songs /\ os \notin Gone /\ os \notin Music /\ channels[os] = 0
  BY <1>2 DEF ChannelsIInv, StreamsInv, OwnersApart, Sounds
<1>10. thr \notin {"push", "unref"}
  BY <1>2 DEF ChannelsIInv, EventsHold
<1>11. /\ channels' \in [Streams -> 0 .. MaxHandles - 1]
       /\ channels'[os] = h /\ \A x \in Streams : x # os => channels'[x] = channels[x]
       /\ handleVals' \in [0 .. MaxHandles - 1 -> Streams \cup {NULL}]
       /\ handleVals'[h] = os
       /\ \A k \in 0 .. MaxHandles - 1 : k # h => handleVals'[k] = handleVals[k]
  BY <1>1, <1>2, <1>8, Typed
<1>12. UNCHANGED <<Gone, Music, Stopped, Pending>> /\ Fresh' = {}
  BY <1>1, <1>4 DEF Gone, Music, Fresh, Stopped, Pending
<1>13. Sounds' = Sounds \cup {os}
  BY <1>2, <1>8, <1>11 DEF Sounds
<1>14. Owned' = Owned
  BY <1>1, <1>2, <1>12, <1>13 DEF Owned
<1>15. ChannelsTypeOK'
  BY <1>1, <1>4, <1>5, <1>11, Typed DEF ChannelsTypeOK
<1>16. StreamsInv'
  <2>1. RefsCounted'
    BY <1>1, <1>12, <1>14 DEF ChannelsIInv, StreamsInv, RefsCounted
  <2>2. OwnersApart'
    BY <1>1, <1>9, <1>12, <1>13 DEF ChannelsIInv, StreamsInv, OwnersApart
  <2>3. PlayersOwned'
    BY <1>1, <1>2, <1>12, <1>13 DEF ChannelsIInv, StreamsInv, PlayersOwned
  <2> QED
    BY <2>1, <2>2, <2>3 DEF StreamsInv
<1>17. MainHolds' /\ EventsHold'
  BY <1>1, <1>2, <1>4, <1>10, <1>12, <1>13 DEF ChannelsIInv, MainHolds, EventsHold
<1>18. SetInv'
  <2>1. \A i, j \in 1 .. (n - 1) : i # j => handles'[i] # handles'[j]
    BY <1>5, <1>6, <1>7
  <2>2. \A i \in 1 .. (n - 1) : handles'[i] \in 1 .. (handleCount - 1)
    BY <1>5, <1>6, <1>7
  <2>3. \A i \in 1 .. (n - 1), x \in Streams : channels'[x] # handles'[i]
    BY <1>5, <1>6, <1>7, <1>8, <1>11
  <2>4. \A x \in Streams : channels'[x] \in 0 .. (handleCount - 1)
    BY <1>7, <1>8, <1>11
  <2>5. \A x, y \in Sounds' : channels'[x] = channels'[y] => x = y
    BY <1>7, <1>8, <1>11, <1>13, Typed
  <2>6. \A k \in 0 .. (MaxHandles - 1) :
          handleVals'[k] # NULL => k # 0 /\ channels'[handleVals'[k]] = k
    <3>1. SUFFICES ASSUME NEW k \in 0 .. (MaxHandles - 1), handleVals'[k] # NULL
                   PROVE  k # 0 /\ channels'[handleVals'[k]] = k
      OBVIOUS
    <3>2. CASE k = h
      BY <1>8, <1>11, <3>2
    <3>3. CASE k # h
      <4>1. handleVals'[k] = handleVals[k] /\ handleVals[k] \in Streams
        BY <1>11, <3>1, <3>3, Typed
      <4>2. k # 0 /\ channels[handleVals[k]] = k
        BY <1>7, <3>1, <4>1
      <4>3. handleVals[k] # os
        BY <1>9, <4>2
      <4> QED
        BY <1>11, <4>1, <4>2, <4>3
    <3> QED
      BY <3>2, <3>3
  <2>7. \A x \in Sounds' : handleVals'[channels'[x]] = x
    <3>1. SUFFICES ASSUME NEW x \in Sounds' PROVE handleVals'[channels'[x]] = x
      OBVIOUS
    <3>2. CASE x = os
      BY <1>11, <3>2
    <3>3. CASE x # os
      <4>1. x \in Sounds /\ x \in Streams
        BY <1>13, <3>3, Typed
      <4>2. handleVals[channels[x]] = x /\ channels[x] # h
        BY <1>7, <1>8, <1>10, <4>1
      <4>3. channels'[x] = channels[x] /\ channels[x] \in 0 .. MaxHandles - 1
        BY <1>11, <3>3, <4>1, Typed
      <4> QED
        BY <1>11, <4>2, <4>3
    <3> QED
      BY <3>2, <3>3
  <2>8. \A k \in 1 .. (handleCount - 1) :
          (\E i \in 1 .. (n - 1) : handles'[i] = k) \/ (\E x \in Streams : channels'[x] = k)
    <3>1. SUFFICES ASSUME NEW k \in 1 .. (handleCount - 1)
                   PROVE  \/ \E i \in 1 .. (n - 1) : handles'[i] = k
                          \/ \E x \in Streams : channels'[x] = k
      OBVIOUS
    <3>2. CASE k = h
      BY <1>2, <1>11, <3>2
    <3>3. ASSUME NEW i \in 1 .. n, handles[i] = k, k # h
          PROVE  \E j \in 1 .. (n - 1) : handles'[j] = k
      BY <1>5, <1>6, <1>8, <3>3
    <3>4. ASSUME NEW x \in Streams, channels[x] = k
          PROVE  channels'[x] = k
      <4>1. x # os
        BY <1>9, <3>4
      <4> QED
        BY <1>11, <3>4, <4>1
    <3> QED
      BY <1>7, <3>2, <3>3, <3>4
  <2> QED
    BY <1>1, <1>5, <2>1, <2>2, <2>3, <2>4, <2>5, <2>6, <2>7, <2>8 DEF SetInv
<1>19. Pool!Acquire(os, h)
  <2>1. h \notin {0} /\ \A v \in Streams : h \notin ChannelOf[v]
    BY <1>8 DEF ChannelOf
  <2>2. ChannelOf' = [ChannelOf EXCEPT ![os] = @ \cup {h}]
    <3>1. \A x \in Streams : {channels'[x]} \ {0} = IF x = os THEN ({channels[x]} \ {0}) \cup {h}
                                                  ELSE {channels[x]} \ {0}
      BY <1>8, <1>9, <1>11
    <3> QED
      BY <3>1 DEF ChannelOf
  <2> QED
    BY <2>1, <2>2 DEF Pool!Acquire
<1> QED
  BY <1>15, <1>16, <1>17, <1>18, <1>19 DEF ChannelsIInv, os, h

-----------------------------------------------------------------------------
(* The event thread.                                                       *)

LEMMA TakeEventsStep ==
  ASSUME ChannelsIInv, TakeEvents
  PROVE  ChannelsIInv'
<1>1. /\ thr = "wait" /\ batch = <<>> /\ batch' = events /\ events' = <<>>
      /\ UNCHANGED <<handles, handleCount, handleVals, channels, refs, playing, songs, music,
                     lock, main, thr>>
  BY DEF TakeEvents, setVars
<1>2. Pending' = Pending
  BY <1>1, Typed, PendingTaken
<1>3. UNCHANGED <<Sounds, Music, Fresh>> /\ Gone = {} /\ Gone' = {}
  BY <1>1 DEF Sounds, Gone, Music, Fresh
<1>4. ChannelsTypeOK'
  BY <1>1, Typed DEF ChannelsTypeOK
<1>5. StreamsInv'
  BY <1>1, <1>2, <1>3, StreamsKept
<1>6. MainHolds' /\ EventsHold'
  BY <1>1, <1>2, <1>3 DEF ChannelsIInv, MainHolds, EventsHold
<1>7. SetInv'
  BY <1>1, SetKept
<1> QED
  BY <1>4, <1>5, <1>6, <1>7 DEF ChannelsIInv

LEMMA UnregisterChannelStep ==
  ASSUME ChannelsIInv, UnregisterChannel
  PROVE  ChannelsIInv'
<1>1. /\ thr = "wait" /\ batch # <<>> /\ lock = "free"
      /\ \/ channels[Stopped] = 0 /\ thr' = "drop" /\ handleVals' = handleVals /\ lock' = lock
         \/ /\ channels[Stopped] # 0 /\ lock' = "events" /\ thr' = "push"
            /\ handleVals' = [handleVals EXCEPT ![channels[Stopped]] = NULL]
      /\ UNCHANGED <<handles, handleCount, channels, refs, playing, events, songs, music, batch, main>>
  BY DEF UnregisterChannel, streamVars
<1>2. UNCHANGED <<Sounds, Music, Fresh, Pending, Stopped>> /\ Gone = {} /\ Gone' = {}
  BY <1>1 DEF Sounds, Gone, Music, Fresh, Pending, Stopped
<1>3. Stopped \in Streams /\ channels[Stopped] \in 0 .. MaxHandles - 1
  BY <1>1, StoppedFacts, Typed
<1>4. main.at # "alloc"
  BY <1>1 DEF ChannelsIInv, MainHolds
<1>5. StreamsInv'
  BY <1>1, <1>2, StreamsKept
<1>6. MainHolds'
  BY <1>1, <1>2, <1>4 DEF ChannelsIInv, MainHolds
<1>7. CASE channels[Stopped] = 0
  <2>1. thr' = "drop" /\ handleVals' = handleVals /\ lock' = lock
    BY <1>1, <1>7
  <2>2. ChannelsTypeOK'
    BY <1>1, <2>1, Typed DEF ChannelsTypeOK
  <2>3. EventsHold'
    BY <1>1, <2>1 DEF EventsHold
  <2>4. SetInv'
    BY <1>1, <2>1, SetKept
  <2> QED
    BY <1>5, <1>6, <2>2, <2>3, <2>4 DEF ChannelsIInv
<1>8. CASE channels[Stopped] # 0
  <2>1. /\ lock' = "events" /\ thr' = "push"
        /\ handleVals' = [handleVals EXCEPT ![channels[Stopped]] = NULL]
    BY <1>1, <1>8
  <2>2. /\ handleVals' \in [0 .. MaxHandles - 1 -> Streams \cup {NULL}]
        /\ handleVals'[channels[Stopped]] = NULL
        /\ \A h \in 0 .. MaxHandles - 1 : h # channels[Stopped] => handleVals'[h] = handleVals[h]
    BY <1>3, <2>1, Typed
  <2>3. Stopped \in Sounds
    BY <1>3, <1>8 DEF Sounds
  <2>4. ChannelsTypeOK'
    BY <1>1, <2>1, <2>2, Typed DEF ChannelsTypeOK
  <2>5. EventsHold'
    BY <1>1, <1>2, <2>1, <2>2, <2>3 DEF EventsHold
  <2>6. SetInv'
    <3>1. SetInv
      BY DEF ChannelsIInv
    <3>2. \A h \in 0 .. (MaxHandles - 1) :
            handleVals'[h] # NULL => h # 0 /\ channels[handleVals'[h]] = h
      BY <2>2, <3>1 DEF SetInv
    <3>3. \A os \in Sounds : handleVals'[channels[os]] = os \/ Stopped = os
      <4>1. SUFFICES ASSUME NEW os \in Sounds, Stopped # os PROVE handleVals'[channels[os]] = os
        OBVIOUS
      <4>2. handleVals[channels[os]] = os
        BY <1>1, <3>1 DEF SetInv
      <4>3. channels[os] # channels[Stopped]
        BY <2>3, <3>1, <4>1 DEF SetInv
      <4>4. channels[os] \in 0 .. MaxHandles - 1
        BY Typed
      <4> QED
        BY <2>2, <4>2, <4>3, <4>4
    <3> QED
      BY <1>1, <1>2, <2>1, <3>1, <3>2, <3>3 DEF SetInv
  <2> QED
    BY <1>5, <1>6, <2>4, <2>5, <2>6 DEF ChannelsIInv
<1> QED
  BY <1>7, <1>8

LEMMA PushHandleStep ==
  ASSUME ChannelsIInv, PushHandle
  PROVE  ChannelsIInv' /\ Pool!Release(Stopped, channels[Stopped])
<1> DEFINE os == Stopped
           h == channels[os]
<1>1. /\ thr = "push" /\ thr' = "unref"
      /\ handles' = Append(handles, h) /\ channels' = [channels EXCEPT ![os] = 0]
      /\ UNCHANGED <<handleCount, handleVals, refs, playing, events, songs, music, batch, lock, main>>
  BY DEF PushHandle, streamVars
<1>2. batch # <<>> /\ lock = "events" /\ os \in Sounds /\ handleVals[h] = NULL
  BY <1>1 DEF ChannelsIInv, EventsHold
<1>3. os \in Streams /\ Pending[os] # 0
  BY <1>2, StoppedFacts, Typed
<1>4. /\ UNCHANGED <<Music, Fresh, Pending, Stopped>> /\ Gone = {} /\ Gone' = {os}
  BY <1>1 DEF Gone, Music, Fresh, Pending, Stopped
<1>5. /\ \A i, j \in 1 .. Len(handles) : i # j => handles[i] # handles[j]
      /\ \A i \in 1 .. Len(handles) : handles[i] \in 1 .. (handleCount - 1)
      /\ \A i \in 1 .. Len(handles), x \in Streams : channels[x] # handles[i]
      /\ \A x \in Streams : channels[x] \in 0 .. (handleCount - 1)
      /\ \A x, y \in Sounds : channels[x] = channels[y] => x = y
      /\ \A k \in 0 .. (MaxHandles - 1) :
           handleVals[k] # NULL => k # 0 /\ channels[handleVals[k]] = k
      /\ \A x \in Sounds : handleVals[channels[x]] = x \/ (thr = "push" /\ Stopped = x)
      /\ \A k \in 1 .. (handleCount - 1) :
           (\E i \in 1 .. Len(handles) : handles[i] = k) \/ (\E x \in Streams : channels[x] = k)
  BY DEF ChannelsIInv, SetInv
<1> HIDE DEF os
<1>6. h # 0 /\ h \in 0 .. (handleCount - 1) /\ h \in 0 .. MaxHandles - 1
  BY <1>2, <1>3, <1>5, Typed DEF Sounds
<1>7. h \in 1 .. (handleCount - 1) /\ h \in 1 .. MaxHandles - 1
  <2>1. handleCount \in Nat /\ MaxHandles \in Nat
    BY Typed, ChannelsAssumption
  <2> QED
    BY <1>6, <2>1
<1> HIDE DEF h
<1>8. PICK n \in Nat : n = Len(handles)
  BY Typed
<1>9. /\ handles' \in Seq(1 .. MaxHandles - 1) /\ Len(handles') = n + 1
      /\ \A i \in 1 .. n : handles'[i] = handles[i]
      /\ handles'[n + 1] = h
  BY <1>1, <1>7, <1>8, Typed, AppendProperties
<1>10. /\ \A i \in 1 .. (n + 1) : i \in 1 .. n \/ i = n + 1
       /\ \A i \in 1 .. n : i \in 1 .. (n + 1)
       /\ n + 1 \in 1 .. (n + 1)
  BY <1>8
<1>11. /\ channels' \in [Streams -> 0 .. MaxHandles - 1] /\ channels'[os] = 0
       /\ \A x \in Streams : x # os => channels'[x] = channels[x]
  BY <1>1, <1>3, Typed
<1>12. channels[os] = h
  BY DEF h
<1>13. Sounds' = Sounds \ {os}
  BY <1>11 DEF Sounds
<1>14. Owned' = Owned
  BY <1>1, <1>2, <1>4, <1>13 DEF Owned
<1>15. ChannelsTypeOK'
  BY <1>1, <1>9, <1>11, Typed DEF ChannelsTypeOK
<1>16. StreamsInv'
  <2>1. RefsCounted'
    BY <1>1, <1>4, <1>14 DEF ChannelsIInv, StreamsInv, RefsCounted
  <2>2. OwnersApart'
    BY <1>1, <1>2, <1>4, <1>13 DEF ChannelsIInv, StreamsInv, OwnersApart
  <2>3. os \notin playing
    BY <1>2, <1>3 DEF ChannelsIInv, StreamsInv, PlayersOwned
  <2>4. PlayersOwned'
    BY <1>1, <1>4, <1>13, <2>3 DEF ChannelsIInv, StreamsInv, PlayersOwned
  <2> QED
    BY <2>1, <2>2, <2>4 DEF StreamsInv
<1>17. MainHolds'
  <2>1. main.at # "alloc"
    BY <1>2 DEF ChannelsIInv, MainHolds
  <2>2. main.at = "play" => main.os # os
    BY <1>3 DEF ChannelsIInv, MainHolds
  <2> QED
    BY <1>1, <1>4, <1>13, <2>1, <2>2 DEF ChannelsIInv, MainHolds
<1>18. EventsHold'
  BY <1>1, <1>2 DEF EventsHold
<1>19. SetInv'
  <2>1. \A i, j \in 1 .. (n + 1) : i # j => handles'[i] # handles'[j]
    BY <1>3, <1>5, <1>8, <1>9, <1>10, <1>12
  <2>2. \A i \in 1 .. (n + 1) : handles'[i] \in 1 .. (handleCount - 1)
    BY <1>5, <1>7, <1>8, <1>9, <1>10
  <2>3. \A i \in 1 .. (n + 1), x \in Streams : channels'[x] # handles'[i]
    <3>1. SUFFICES ASSUME NEW i \in 1 .. (n + 1), NEW x \in Streams
                   PROVE  channels'[x] # handles'[i]
      OBVIOUS
    <3>2. CASE x = os
      <4>1. handles'[i] # 0
        BY <2>2
      <4> QED
        BY <1>11, <3>2, <4>1
    <3>3. CASE x # os
      <4>1. channels'[x] = channels[x]
        BY <1>11, <3>3
      <4>2. channels[x] # h
        <5>1. channels[x] # 0 => x \in Sounds
          BY DEF Sounds
        <5> QED
          BY <1>2, <1>5, <1>6, <1>12, <3>3, <5>1
      <4> QED
        BY <1>5, <1>8, <1>9, <1>10, <4>1, <4>2
    <3> QED
      BY <3>2, <3>3
  <2>4. \A x \in Streams : channels'[x] \in 0 .. (handleCount - 1)
    <3>1. handleCount \in Nat /\ 0 \in 0 .. (handleCount - 1)
      <4>1. handleCount \in Nat \ {0}
        BY Typed, ChannelsAssumption
      <4> QED
        BY <4>1
    <3> QED
      BY <1>5, <1>11, <3>1
  <2>5. \A x, y \in Sounds' : channels'[x] = channels'[y] => x = y
    BY <1>5, <1>11, <1>13, Typed
  <2>6. \A k \in 0 .. (MaxHandles - 1) :
          handleVals[k] # NULL => k # 0 /\ channels'[handleVals[k]] = k
    <3>1. SUFFICES ASSUME NEW k \in 0 .. (MaxHandles - 1), handleVals[k] # NULL
                   PROVE  k # 0 /\ channels'[handleVals[k]] = k
      OBVIOUS
    <3>2. k # 0 /\ channels[handleVals[k]] = k /\ handleVals[k] \in Streams
      BY <1>5, <3>1, Typed
    <3>3. handleVals[k] # os
      BY <1>2, <1>12, <3>1, <3>2
    <3> QED
      BY <1>11, <3>2, <3>3
  <2>7. \A x \in Sounds' : handleVals[channels'[x]] = x
    BY <1>5, <1>11, <1>13, Typed DEF os
  <2>8. \A k \in 1 .. (handleCount - 1) :
          (\E i \in 1 .. (n + 1) : handles'[i] = k) \/ (\E x \in Streams : channels'[x] = k)
    <3>1. SUFFICES ASSUME NEW k \in 1 .. (handleCount - 1)
                   PROVE  \/ \E i \in 1 .. (n + 1) : handles'[i] = k
                          \/ \E x \in Streams : channels'[x] = k
      OBVIOUS
    <3>2. CASE k = h
      BY <1>9, <1>10, <3>2
    <3>3. ASSUME NEW i \in 1 .. n, handles[i] = k
          PROVE  \E j \in 1 .. (n + 1) : handles'[j] = k
      BY <1>9, <1>10, <3>3
    <3>4. ASSUME NEW x \in Streams, channels[x] = k, k # h
          PROVE  channels'[x] = k
      BY <1>11, <1>12, <3>4
    <3> QED
      BY <1>5, <1>8, <3>2, <3>3, <3>4
  <2>9. Len(handles') = n + 1
    BY <1>9
  <2> QED
    BY <1>1, <2>1, <2>2, <2>3, <2>4, <2>5, <2>6, <2>7, <2>8, <2>9 DEF SetInv
<1>20. Pool!Release(os, h)
  <2>1. h \in ChannelOf[os]
    BY <1>3, <1>6, <1>12 DEF ChannelOf
  <2>2. ChannelOf' = [ChannelOf EXCEPT ![os] = @ \ {h}]
    <3>1. \A x \in Streams : {channels'[x]} \ {0} = IF x = os THEN ({channels[x]} \ {0}) \ {h}
                                                  ELSE {channels[x]} \ {0}
      BY <1>11, <1>12
    <3> QED
      BY <3>1 DEF ChannelOf
  <2> QED
    BY <2>1, <2>2 DEF Pool!Release
<1> QED
  BY <1>15, <1>16, <1>17, <1>18, <1>19, <1>20 DEF ChannelsIInv, os, h

LEMMA UnrefSoundStep ==
  ASSUME ChannelsIInv, UnrefSound
  PROVE  ChannelsIInv'
<1> DEFINE os == Stopped
<1>1. /\ thr = "unref" /\ Unref(os) /\ lock' = "free" /\ thr' = "drop"
      /\ UNCHANGED <<handles, handleCount, handleVals, channels, events, songs, music, batch, main>>
  BY DEF UnrefSound, setVars
<1>2. batch # <<>> /\ lock = "events" /\ Gone = {os}
  BY <1>1 DEF ChannelsIInv, EventsHold, Gone
<1>3. os \in Streams /\ Pending[os] \in Nat \ {0}
  BY <1>2, StoppedFacts, Typed
<1> HIDE DEF os
<1>4. UNCHANGED <<Sounds, Music, Fresh, Pending, Stopped>> /\ Gone' = {}
  BY <1>1 DEF Sounds, Gone, Music, Fresh, Pending, Stopped
<1>5. os \notin Sounds /\ os \notin songs /\ os \notin Fresh /\ os \notin Music
  BY <1>2 DEF ChannelsIInv, StreamsInv, OwnersApart
<1>6. Owned' = Owned \ {os} /\ os \in Owned
  BY <1>1, <1>2, <1>4, <1>5 DEF Owned
<1>7. \A x \in Streams : refs[x] = Pending[x] + (IF x \in Owned THEN 1 ELSE 0) /\ Pending[x] \in Nat
  BY Typed DEF ChannelsIInv, StreamsInv, RefsCounted
<1>8. refs[os] = Pending[os] + 1 /\ refs[os] >= 1
  BY <1>3, <1>6, <1>7
<1>9. /\ refs' \in [Streams -> Nat] /\ refs[os] = refs'[os] + 1
      /\ \A x \in Streams : x # os => refs'[x] = refs[x]
      /\ playing' \subseteq playing
  BY <1>1, <1>3, <1>8, UnrefEffect
<1>10. ChannelsTypeOK'
  BY <1>1, <1>9, Typed DEF ChannelsTypeOK
<1>11. StreamsInv'
  <2>1. refs'[os] = Pending[os] + 0
    <3>1. refs'[os] \in Nat /\ Pending[os] \in Nat
      BY <1>3, <1>9
    <3> QED
      BY <1>8, <1>9, <3>1
  <2>2. RefsCounted'
    BY <1>4, <1>6, <1>7, <1>9, <2>1 DEF RefsCounted
  <2>3. OwnersApart'
    BY <1>1, <1>4 DEF ChannelsIInv, StreamsInv, OwnersApart
  <2>4. PlayersOwned'
    BY <1>1, <1>4, <1>9 DEF ChannelsIInv, StreamsInv, PlayersOwned
  <2> QED
    BY <2>2, <2>3, <2>4 DEF StreamsInv
<1>12. MainHolds'
  BY <1>1, <1>2, <1>4, <1>9 DEF ChannelsIInv, MainHolds
<1>13. EventsHold'
  BY <1>1, <1>2 DEF EventsHold
<1>14. SetInv'
  BY <1>1, SetKept
<1> QED
  BY <1>10, <1>11, <1>12, <1>13, <1>14 DEF ChannelsIInv

LEMMA DropEventStep ==
  ASSUME ChannelsIInv, DropEvent
  PROVE  ChannelsIInv'
<1> DEFINE os == Stopped
<1>1. /\ thr = "drop" /\ Unref(os) /\ batch' = Tail(batch) /\ thr' = "wait"
      /\ UNCHANGED <<handles, handleCount, handleVals, channels, events, songs, music, lock, main>>
  BY DEF DropEvent, setVars
<1>2. batch # <<>>
  BY <1>1 DEF ChannelsIInv, EventsHold
<1>3. os \in Streams /\ Pending[os] \in Nat \ {0} /\ Tail(batch) \in Seq(Streams)
  BY <1>2, StoppedFacts, Typed
<1>4. \A x \in Streams : Pending[x] = Pending'[x] + (IF x = os THEN 1 ELSE 0)
  BY <1>1, <1>2, Typed, PendingDropped
<1> HIDE DEF os
<1>5. UNCHANGED <<Sounds, Music, Fresh>> /\ Gone = {} /\ Gone' = {}
  BY <1>1 DEF Sounds, Gone, Music, Fresh
<1>6. Owned' = Owned
  BY <1>1, <1>5 DEF Owned
<1>7. \A x \in Streams : refs[x] = Pending[x] + (IF x \in Owned THEN 1 ELSE 0) /\ Pending[x] \in Nat
  BY Typed DEF ChannelsIInv, StreamsInv, RefsCounted
<1>8. refs[os] >= 1
  BY <1>3, <1>7
<1>9. /\ refs' \in [Streams -> Nat] /\ refs[os] = refs'[os] + 1
      /\ \A x \in Streams : x # os => refs'[x] = refs[x]
      /\ playing' \subseteq playing
  BY <1>1, <1>3, <1>8, UnrefEffect
<1>10. ChannelsTypeOK'
  BY <1>1, <1>3, <1>9, Typed DEF ChannelsTypeOK
<1>11. Pending' \in [Streams -> Nat]
  <2>1. events' \in Seq(Streams) /\ batch' \in Seq(Streams)
    BY <1>1, <1>3, Typed
  <2>2. \A x \in Streams : Times(events', x) \in Nat /\ Times(batch', x) \in Nat
    BY <2>1, TimesNat
  <2>3. \A a, b \in Nat : a + b \in Nat
    OBVIOUS
  <2> QED
    BY <2>2, <2>3 DEF Pending
<1>12. \A x \in Streams : x # os => Pending'[x] = Pending[x]
  BY <1>4, <1>11
<1>13. StreamsInv'
  <2>1. refs'[os] = Pending'[os] + (IF os \in Owned THEN 1 ELSE 0)
    <3>1. PICK a \in Nat, b \in Nat, c \in {0, 1} :
            a = refs'[os] /\ b = Pending'[os] /\ c = IF os \in Owned THEN 1 ELSE 0
      BY <1>3, <1>9, <1>11
    <3>2. a + 1 = (b + 1) + c
      BY <1>3, <1>4, <1>7, <1>9, <3>1
    <3> QED
      BY <3>1, <3>2
  <2>2. RefsCounted'
    BY <1>3, <1>6, <1>7, <1>9, <1>12, <2>1 DEF RefsCounted
  <2>3. OwnersApart'
    BY <1>1, <1>5 DEF ChannelsIInv, StreamsInv, OwnersApart
  <2>4. \A x \in Streams : Pending[x] = 0 => Pending'[x] = 0
    BY <1>3, <1>12
  <2>5. PlayersOwned'
    BY <1>1, <1>5, <1>9, <2>4, Typed DEF ChannelsIInv, StreamsInv, PlayersOwned
  <2> QED
    BY <2>2, <2>3, <2>5 DEF StreamsInv
<1>14. MainHolds'
  <2>1. \A x \in Streams : Pending[x] = 0 => Pending'[x] = 0
    BY <1>3, <1>12
  <2> QED
    BY <1>1, <1>5, <1>9, <2>1 DEF ChannelsIInv, MainHolds
<1>15. EventsHold'
  BY <1>1 DEF EventsHold
<1>16. SetInv'
  BY <1>1, SetKept
<1> QED
  BY <1>10, <1>13, <1>14, <1>15, <1>16 DEF ChannelsIInv

-----------------------------------------------------------------------------
(* The theorems.                                                           *)

LEMMA ChannelsInitial == ChannelsInit => ChannelsIInv
<1> SUFFICES ASSUME ChannelsInit PROVE ChannelsIInv
  OBVIOUS
<1>1. MaxHandles \in Nat \ {0} /\ NULL \notin Streams
  BY ChannelsAssumption DEF NULL
<1>2. /\ handles = <<>> /\ handleCount = 1 /\ events = <<>> /\ batch = <<>>
      /\ handleVals = [h \in 0 .. MaxHandles - 1 |-> NULL] /\ channels = [os \in Streams |-> 0]
      /\ refs = [os \in Streams |-> 0] /\ playing = {} /\ songs = {} /\ music = NULL
      /\ lock = "free" /\ thr = "wait" /\ main = Script
  BY DEF ChannelsInit
<1>3. main \in [at : {"script"}, os : Streams \cup {NULL}, h : 0 .. MaxHandles - 1] /\ main.at = "script"
  BY <1>1, <1>2 DEF Script
<1>4. ChannelsTypeOK
  BY <1>1, <1>2, <1>3 DEF ChannelsTypeOK
<1>5. Sounds = {} /\ Fresh = {} /\ Gone = {} /\ Music = {} /\ Owned = {}
  BY <1>2, <1>3 DEF Sounds, Fresh, Gone, Music, Owned
<1>6. \A x \in Streams : Pending[x] = 0 + 0
  BY <1>2, TimesEmpty DEF Pending
<1>7. StreamsInv
  BY <1>2, <1>5, <1>6 DEF StreamsInv, OwnersApart, RefsCounted, PlayersOwned
<1>8. MainHolds /\ EventsHold
  BY <1>2, <1>3 DEF MainHolds, EventsHold
<1>9. SetInv
  <2>1. Len(handles) = 0 /\ \A i \in 1 .. Len(handles) : FALSE
    BY <1>2
  <2>2. \A h \in 1 .. (handleCount - 1) : FALSE
    BY <1>2
  <2>3. \A os \in Streams : channels[os] \in 0 .. (handleCount - 1)
    BY <1>2
  <2> QED
    BY <1>2, <1>5, <2>1, <2>2, <2>3 DEF SetInv
<1> QED
  BY <1>4, <1>7, <1>8, <1>9 DEF ChannelsIInv

(* Every step keeps the invariant, and gives a handle out, takes one back  *)
(* or leaves each where it is.                                             *)
LEMMA ChannelsStep ==
  ASSUME ChannelsIInv, [ChannelsNext]_channelVars
  PROVE  ChannelsIInv' /\ [Pool!PoolNext]_ChannelOf
<1>1. CASE UNCHANGED channelVars
  <2>1. /\ UNCHANGED <<handles, handleCount, handleVals, channels, refs, playing, events, songs,
                       music, batch, lock, main, thr>>
    BY <1>1 DEF channelVars, setVars, streamVars
  <2>2. UNCHANGED <<Sounds, Fresh, Gone, Music, Pending, Stopped>>
    BY <2>1 DEF Sounds, Fresh, Gone, Music, Pending, Stopped
  <2>3. StreamsInv' /\ SetInv'
    BY <2>1, <2>2, StreamsKept, SetKept
  <2>4. ChannelsTypeOK' /\ MainHolds' /\ EventsHold'
    BY <2>1, <2>2 DEF ChannelsIInv, ChannelsTypeOK, MainHolds, EventsHold
  <2>5. ChannelOf' = ChannelOf
    BY <2>1 DEF ChannelOf
  <2> QED
    BY <2>3, <2>4, <2>5 DEF ChannelsIInv
<1>2. ASSUME NEW os \in Streams,
             StreamEnds(os) \/ PlaySample(os) \/ PlayMusic(os) \/ LoadSong(os)
               \/ PlaySong(os) \/ StopSong(os) \/ FreeSong(os)
      PROVE  ChannelsIInv' /\ ChannelOf' = ChannelOf
  <2>1. ChannelsIInv'
    BY <1>2, StreamEndsStep, PlaySampleStep, PlayMusicStep, LoadSongStep, PlaySongStep, StopSongStep
  <2>2. channels' = channels
    BY <1>2 DEF StreamEnds, PlaySample, PlayMusic, LoadSong, PlaySong, StopSong, FreeSong
  <2> QED
    BY <2>1, <2>2 DEF ChannelOf
<1>3. ASSUME NEW h \in 0 .. MaxHandles - 1, GetPointer("stop", h) \/ GetPointer("ask", h)
      PROVE  ChannelsIInv' /\ ChannelOf' = ChannelOf
  <2>1. ChannelsIInv'
    BY <1>3, GetPointerStep
  <2>2. channels' = channels
    BY <1>3 DEF GetPointer
  <2> QED
    BY <2>1, <2>2 DEF ChannelOf
<1>4. ASSUME StopMusic \/ RegisterChannel \/ StartSample \/ StopSound \/ SoundIsPlaying
               \/ UseDeleted \/ UnrefSong \/ TakeEvents \/ UnregisterChannel \/ UnrefSound
               \/ DropEvent
      PROVE  ChannelsIInv' /\ ChannelOf' = ChannelOf
  <2>1. ChannelsIInv'
    BY <1>4, StopMusicStep, RegisterChannelStep, StartSampleStep, StopSoundStep, AskStep,
       UnrefSongStep, TakeEventsStep, UnregisterChannelStep, UnrefSoundStep, DropEventStep
  <2>2. channels' = channels
    BY <1>4 DEF StopMusic, RegisterChannel, StartSample, StopSound, SoundIsPlaying, UseDeleted,
                UnrefSong, TakeEvents, UnregisterChannel, UnrefSound, DropEvent
  <2> QED
    BY <2>1, <2>2 DEF ChannelOf
<1>5. CASE StoreHandle
  <2>1. ChannelsIInv' /\ Pool!Acquire(main.os, main.h)
    BY <1>5, StoreHandleStep
  <2>2. main.os \in Streams /\ main.h \in 0 .. MaxHandles - 1
    BY <1>5, Typed DEF StoreHandle, ChannelsIInv, MainHolds, ChannelsTypeOK
  <2> QED
    BY <2>1, <2>2 DEF Pool!PoolNext
<1>6. CASE PushHandle
  <2>1. ChannelsIInv' /\ Pool!Release(Stopped, channels[Stopped])
    BY <1>6, PushHandleStep
  <2>2. Stopped \in Streams /\ channels[Stopped] \in 0 .. MaxHandles - 1
    BY <1>6, StoppedFacts, Typed DEF PushHandle, ChannelsIInv, EventsHold
  <2> QED
    BY <2>1, <2>2 DEF Pool!PoolNext
<1> QED
  BY <1>1, <1>2, <1>3, <1>4, <1>5, <1>6 DEF ChannelsNext, MainStep, EventStep

LEMMA ChannelsInvariant == ChannelsSpec => []ChannelsIInv
<1>1. ChannelsIInv /\ [ChannelsNext]_channelVars => ChannelsIInv'
  BY ChannelsStep
<1> QED
  BY <1>1, ChannelsInitial, PTL DEF ChannelsSpec

(* Whatever the three threads do: what plays, what waits to be seen by the *)
(* event thread and what stands behind a channel has not been deleted, and *)
(* each handle is free, a sound's, or set aside.                           *)
THEOREM StreamsStayAlive == ChannelsSpec => []ChannelsInv
<1>1. ChannelsIInv => ChannelsInv
  <2> SUFFICES ASSUME ChannelsIInv PROVE ChannelsInv
    OBVIOUS
  <2>1. \A x \in Streams : /\ refs[x] = Pending[x] + (IF x \in Owned THEN 1 ELSE 0)
                           /\ Pending[x] \in Nat
    BY Typed DEF ChannelsIInv, StreamsInv, RefsCounted
  <2>2. \A x \in Streams : x \in Owned \/ Pending[x] # 0 => x \in Live
    BY <2>1 DEF Live
  <2>3. \A h \in 0 .. MaxHandles - 1 : handleVals[h] \in Live \cup {NULL}
    <3>1. SUFFICES ASSUME NEW h \in 0 .. MaxHandles - 1, handleVals[h] # NULL
                   PROVE  handleVals[h] \in Live
      OBVIOUS
    <3>2. handleVals[h] \in Streams
      BY <3>1, Typed
    <3>3. h # 0 /\ channels[handleVals[h]] = h
      BY <3>1 DEF ChannelsIInv, SetInv
    <3>4. handleVals[h] \in Owned
      BY <3>2, <3>3 DEF Owned, Sounds
    <3> QED
      BY <2>2, <3>2, <3>4
  <2>4. playing \cup songs \subseteq Live
    BY <2>2, Typed DEF ChannelsIInv, StreamsInv, PlayersOwned, Owned
  <2>5. ASSUME NEW s \in {events, batch}, NEW i \in 1 .. Len(s) PROVE s[i] \in Live
    <3>1. s \in Seq(Streams) /\ s[i] \in Streams
      BY Typed, ElementOfSeq
    <3>2. PICK a \in Nat, b \in Nat : a = Times(events, s[i]) /\ b = Times(batch, s[i])
      BY Typed, TimesNat
    <3>3. a # 0 \/ b # 0
      BY <3>1, <3>2, TimesNat
    <3>4. Pending[s[i]] = a + b
      BY <3>1, <3>2 DEF Pending
    <3> QED
      BY <2>2, <3>1, <3>3, <3>4
  <2>6. ToSet(events) \cup ToSet(batch) \subseteq Live
    <3>1. DOMAIN events = 1 .. Len(events) /\ DOMAIN batch = 1 .. Len(batch)
      BY Typed
    <3> QED
      BY <2>5, <3>1 DEF ToSet
  <2>7. \A os \in Streams : channels[os] # 0 /\ thr # "push" => handleVals[channels[os]] = os
    BY DEF ChannelsIInv, SetInv, Sounds
  <2>8. 0 .. handleCount - 1 = {0} \cup ToSet(handles) \cup {channels[os] : os \in Streams}
    <3>1. DOMAIN handles = 1 .. Len(handles)
      BY Typed
    <3>2. PICK c \in Nat \ {0} : c = handleCount
      BY Typed, ChannelsAssumption
    <3>3. \A h : h \in 0 .. (c - 1) <=> h = 0 \/ h \in 1 .. (c - 1)
      BY <3>2
    <3>4. /\ \A i \in 1 .. Len(handles) : handles[i] \in 1 .. (c - 1)
          /\ \A os \in Streams : channels[os] \in 0 .. (c - 1)
          /\ \A h \in 1 .. (c - 1) :
               (\E i \in 1 .. Len(handles) : handles[i] = h) \/ (\E os \in Streams : channels[os] = h)
      BY <3>2 DEF ChannelsIInv, SetInv
    <3>5. ToSet(handles) = {handles[i] : i \in 1 .. Len(handles)}
      BY <3>1 DEF ToSet
    <3> QED
      BY <3>2, <3>3, <3>4, <3>5
  <2> QED
    BY <2>3, <2>4, <2>6, <2>7, <2>8, Typed DEF ChannelsInv, NoDeletedStream, HandlesKept
<1> QED
  BY <1>1, ChannelsInvariant, PTL

(* And a channel is never two sounds', though the game's thread gives them *)
(* out while the event thread takes them back.                             *)
THEOREM ChannelsArePooled == ChannelsSpec => ChannelsKept
<1>1. ChannelsInit => Pool!PoolInit
  BY DEF ChannelsInit, Pool!PoolInit, ChannelOf
<1>2. ChannelsIInv /\ [ChannelsNext]_channelVars => [Pool!PoolNext]_ChannelOf
  BY ChannelsStep
<1> QED
  BY <1>1, <1>2, ChannelsInvariant, PTL DEF ChannelsSpec, ChannelsKept, Pool!PoolSpec

=============================================================================
