----------------------------- MODULE Queues_proofs -----------------------------
(***************************************************************************)
(* What is taken in order: the events of the keyboard, and the bytes of a  *)
(* connection.                                                             *)
(*                                                                         *)
(* Of the keyboard, for any keys, sizes of the buffer and numbers of       *)
(* events: a script gets what was typed; a key that repeats is held; an    *)
(* unpressed button stays so; and a button that is held does not fire      *)
(* again and again.  UpdateControls takes all the events that wait in one  *)
(* step, so the first two are shown of one event (Sound) and carried       *)
(* through a recursion along the device's queue.                           *)
(*                                                                         *)
(* Of a connection, for any packets and buffers: the bytes that left one   *)
(* end and were not read as a packet at the other are a part of the        *)
(* stream, without a gap; and each step is one of PacketStream's or leaves *)
(* its packets alone.  Places in the stream are named by PacketEnd and     *)
(* FieldEnd, so that a byte more at one place is a byte less at another.   *)
(***************************************************************************)
EXTENDS Input, Network, WellFoundedInduction, FiniteSetTheorems, SequenceTheorems, TLAPS

-----------------------------------------------------------------------------
(* Induction, and recursions that have a value.                            *)

(* A set that holds 0, and with each number the next, holds them all.      *)
LEMMA Induction ==
  ASSUME NEW D \in Nat, NEW S, 0 \in S, \A n \in 1 .. D : n - 1 \in S => n \in S
  PROVE  \A n \in 0 .. D : n \in S
<1> SUFFICES ASSUME NEW m \in 0 .. D, m \notin S PROVE FALSE
  OBVIOUS
<1> DEFINE R == OpToRel(<, Nat)
           Missing == {n \in 0 .. D : n \notin S}
<1>1. IsWellFoundedOn(R, Nat)
  BY NatLessThanWellFounded
<1>2. Missing \subseteq Nat /\ Missing # {}
  OBVIOUS
<1>3. PICK n \in Missing : \A y \in Missing : ~ (<<y, n>> \in R)
  BY <1>1, <1>2, WFMin
<1>4. \A y \in Missing : ~ (y < n)
  BY <1>2, <1>3 DEF OpToRel
<1>5. n \in 1 .. D
  OBVIOUS
<1>6. n - 1 \notin S /\ n - 1 \in 0 .. D
  BY <1>5
<1> QED
  BY <1>4, <1>6

(* g holds the values of a recursion that starts at a and takes D steps.   *)
Iterates(g, D, a, step) == g[0] = a /\ \A n \in 1 .. D : g[n] = step[n][g[n - 1]]

(* A recursion that never leaves X has a value at each of its steps.       *)
LEMMA Recursion ==
  ASSUME NEW D \in Nat, NEW X, NEW a \in X, NEW step,
         \A n \in 1 .. D, x \in X : step[n][x] \in X
  PROVE  \E g \in [0 .. D -> X] : Iterates(g, D, a, step)
<1> DEFINE S == {m \in 0 .. D : \E g \in [0 .. m -> X] : Iterates(g, m, a, step)}
<1>1. 0 \in S
  <2> DEFINE g == [n \in 0 .. 0 |-> a]
  <2>1. g \in [0 .. 0 -> X] /\ Iterates(g, 0, a, step)
    BY DEF Iterates
  <2>2. \E h \in [0 .. 0 -> X] : Iterates(h, 0, a, step)
    BY <2>1
  <2> QED
    BY <2>2
<1>2. ASSUME NEW m \in 1 .. D, m - 1 \in S
      PROVE  m \in S
  <2>1. PICK g \in [0 .. (m - 1) -> X] : Iterates(g, m - 1, a, step)
    BY <1>2
  <2> DEFINE h == [n \in 0 .. m |-> IF n = m THEN step[m][g[m - 1]] ELSE g[n]]
  <2>2. step[m][g[m - 1]] \in X
    BY <1>2
  <2>3. h \in [0 .. m -> X]
    BY <1>2, <2>2
  <2>4. h[0] = a
    BY <1>2, <2>1 DEF Iterates
  <2>5. ASSUME NEW n \in 1 .. m
        PROVE  h[n] = step[n][h[n - 1]]
    <3>1. CASE n = m
      BY <1>2, <3>1
    <3>2. CASE n # m
      <4>1. n \in 1 .. (m - 1) /\ n \in 0 .. m /\ n - 1 \in 0 .. m /\ n - 1 # m
        BY <1>2, <2>5, <3>2
      <4>2. g[n] = step[n][g[n - 1]]
        BY <2>1, <4>1 DEF Iterates
      <4> QED
        BY <3>2, <4>1, <4>2
    <3> QED
      BY <3>1, <3>2
  <2>6. m \in 0 .. D
    BY <1>2
  <2> HIDE DEF h
  <2>7. Iterates(h, m, a, step)
    BY <2>4, <2>5 DEF Iterates
  <2> QED
    BY <2>3, <2>6, <2>7
<1> HIDE DEF S
<1>3. \A n \in 0 .. D : n \in S
  <2>1. \A m \in 1 .. D : m - 1 \in S => m \in S
    BY <1>2
  <2> QED
    BY <1>1, <2>1, Induction
<1>4. D \in S
  BY <1>3
<1> QED
  BY <1>4 DEF S

-----------------------------------------------------------------------------
(* The keyboard while events are read.                                     *)

ArrowKeys == {Arrows[i] : i \in DOMAIN Arrows}

Boards ==
  [keys : SUBSET Keys, last : Keys \cup {NULL}, rep : Keys \cup {NULL},
   buf : [Cells -> Keys \cup {NULL}], pos : 0 .. KEY_BUFFER_SIZE, typed : Seq(Keys),
   raw : SUBSET ArrowKeys]

(* Until the buffer is full, what was typed stands from its start on, up   *)
(* to the position.                                                        *)
InBuffer(s) ==
  Len(s.typed) <= KEY_BUFFER_SIZE =>
    /\ s.pos = Len(s.typed)
    /\ \A c \in Cells : s.buf[c] = IF c < Len(s.typed) THEN s.typed[c + 1] ELSE NULL

(* The key that repeats is held, or an arrow that will be.                 *)
Repeating(s) ==
  /\ s.rep # NULL => s.rep \in s.keys \cup s.raw
  /\ s.last \in ArrowKeys => s.rep \in {s.last, NULL}

Sound(s) == InBuffer(s) /\ Repeating(s)

LEMMA ArrowIs ==
  /\ \A k : IsArrow(k) <=> k \in ArrowKeys
  /\ ArrowKeys \subseteq Keys /\ NULL \notin ArrowKeys
BY InputAssumption DEF IsArrow, ArrowKeys

LEMMA AppendedSound ==
  ASSUME NEW s \in Boards, NEW k \in Keys, NEW p \in 0 .. KEY_BUFFER_SIZE
  PROVE  LET t == Appended(s, k, p)
         IN  /\ t \in Boards /\ (InBuffer(s) => InBuffer(t))
             /\ t.keys = s.keys /\ t.last = s.last /\ t.rep = s.rep /\ t.raw = s.raw
<1> DEFINE t == Appended(s, k, p)
           n == Len(s.typed)
<1>1. /\ KEY_BUFFER_SIZE \in Nat \ {0} /\ s.pos \in 0 .. KEY_BUFFER_SIZE /\ s.typed \in Seq(Keys)
      /\ s.buf \in [Cells -> Keys \cup {NULL}] /\ n \in Nat
  BY InputAssumption DEF Boards
<1>2. /\ Noted(s, k) \in Seq(Keys)
      /\ n > KEY_BUFFER_SIZE => Noted(s, k) = s.typed
      /\ n <= KEY_BUFFER_SIZE => Noted(s, k) = Append(s.typed, k)
  BY <1>1 DEF Noted
<1>3. CASE s.pos = KEY_BUFFER_SIZE
  <2>1. t = [s EXCEPT !.typed = Noted(s, k), !.pos = p]
    BY <1>3 DEF Appended
  <2>2. t \in Boards /\ t.keys = s.keys /\ t.last = s.last /\ t.rep = s.rep /\ t.raw = s.raw
    BY <1>2, <2>1 DEF Boards
  <2>3. InBuffer(s) => Len(t.typed) > KEY_BUFFER_SIZE
    <3>1. t.typed = Noted(s, k)
      BY <2>1 DEF Boards
    <3> QED
      BY <1>1, <1>2, <1>3, <3>1 DEF InBuffer
  <2> QED
    BY <1>1, <2>2, <2>3 DEF InBuffer
<1>4. CASE s.pos # KEY_BUFFER_SIZE
  <2>1. t = [s EXCEPT !.typed = Noted(s, k), !.pos = s.pos + 1, !.buf = [s.buf EXCEPT ![s.pos] = k]]
    BY <1>4 DEF Appended, Boards
  <2>2. s.pos \in Cells /\ s.pos + 1 \in 0 .. KEY_BUFFER_SIZE
    BY <1>1, <1>4 DEF Cells
  <2>3. [s.buf EXCEPT ![s.pos] = k] \in [Cells -> Keys \cup {NULL}]
    BY <1>1, <2>2
  <2>4. /\ t \in Boards /\ t.keys = s.keys /\ t.last = s.last /\ t.rep = s.rep /\ t.raw = s.raw
        /\ t.typed = Noted(s, k) /\ t.pos = s.pos + 1 /\ t.buf = [s.buf EXCEPT ![s.pos] = k]
    BY <1>2, <2>1, <2>2, <2>3 DEF Boards
  <2>5. ASSUME InBuffer(s), Len(t.typed) <= KEY_BUFFER_SIZE
        PROVE  /\ t.pos = Len(t.typed)
               /\ \A c \in Cells : t.buf[c] = IF c < Len(t.typed) THEN t.typed[c + 1] ELSE NULL
    <3>1. n <= KEY_BUFFER_SIZE /\ t.typed = Append(s.typed, k) /\ Len(t.typed) = n + 1
      BY <1>1, <1>2, <2>4, <2>5
    <3>2. s.pos = n /\ \A c \in Cells : s.buf[c] = IF c < n THEN s.typed[c + 1] ELSE NULL
      BY <2>5, <3>1 DEF InBuffer
    <3>3. ASSUME NEW c \in Cells
          PROVE  t.buf[c] = IF c < n + 1 THEN t.typed[c + 1] ELSE NULL
      <4>1. c \in Nat
        BY DEF Cells
      <4>2. t.buf[c] = IF c = n THEN k ELSE s.buf[c]
        BY <1>1, <2>2, <2>4, <3>2
      <4>4. c < n => t.typed[c + 1] = s.typed[c + 1]
        BY <1>1, <3>1, <4>1
      <4>5. c = n => t.typed[c + 1] = k
        BY <1>1, <3>1, <4>1
      <4> QED
        BY <1>1, <3>2, <4>1, <4>2, <4>4, <4>5
    <3> QED
      BY <2>4, <3>1, <3>2, <3>3
  <2>6. InBuffer(s) => InBuffer(t)
    BY <2>5 DEF InBuffer
  <2> QED
    BY <2>4, <2>6
<1> QED
  BY <1>3, <1>4

LEMMA DownSound ==
  ASSUME NEW s \in Boards, Sound(s), NEW k \in Keys, NEW p \in 0 .. KEY_BUFFER_SIZE
  PROVE  Down(s, k, p) \in Boards /\ Sound(Down(s, k, p))
<1> DEFINE t == IF Types(k) THEN Appended(s, k, p) ELSE s
           u == Down(s, k, p)
<1>1. /\ t \in Boards /\ InBuffer(t) /\ t.keys = s.keys /\ t.last = s.last
      /\ t.rep = s.rep /\ t.raw = s.raw
  BY AppendedSound DEF Sound
<1>2. /\ t.keys \in SUBSET Keys /\ t.raw \in SUBSET ArrowKeys
  BY <1>1 DEF Boards
<1>3. CASE IsArrow(k)
  <2>1. u = [t EXCEPT !.raw = t.raw \cup {k}, !.last = NULL, !.rep = k]
    BY <1>1, <1>3 DEF Down, Boards
  <2> HIDE DEF t, u
  <2>2. k \in ArrowKeys
    BY <1>3, ArrowIs
  <2>3. /\ u \in Boards /\ u.raw = t.raw \cup {k} /\ u.last = NULL /\ u.rep = k
        /\ u.buf = t.buf /\ u.pos = t.pos /\ u.typed = t.typed
    BY <1>1, <1>2, <2>1, <2>2 DEF Boards
  <2>4. InBuffer(u) /\ Repeating(u)
    BY <1>1, <2>3, ArrowIs DEF InBuffer, Repeating
  <2> QED
    BY <2>3, <2>4 DEF Sound, u
<1>4. CASE ~ IsArrow(k)
  <2>1. u = [t EXCEPT !.keys = t.keys \cup {k}, !.last = k, !.rep = k]
    BY <1>1, <1>4 DEF Down, Boards
  <2> HIDE DEF t, u
  <2>2. k \notin ArrowKeys
    BY <1>4, ArrowIs
  <2>3. /\ u \in Boards /\ u.keys = t.keys \cup {k} /\ u.last = k /\ u.rep = k
        /\ u.buf = t.buf /\ u.pos = t.pos /\ u.typed = t.typed
    BY <1>1, <1>2, <2>1 DEF Boards
  <2>4. InBuffer(u) /\ Repeating(u)
    BY <1>1, <2>2, <2>3 DEF InBuffer, Repeating
  <2> QED
    BY <2>3, <2>4 DEF Sound, u
<1> QED
  BY <1>3, <1>4

LEMMA UpSound ==
  ASSUME NEW s \in Boards, Sound(s), NEW k \in Keys
  PROVE  Up(s, k) \in Boards /\ Sound(Up(s, k))
<1> DEFINE rep == IF k = s.rep \/ IsArrow(k) THEN NULL ELSE s.rep
           u == Up(s, k)
<1>1. u = [s EXCEPT !.keys = s.keys \ {k}, !.raw = s.raw \ {k}, !.rep = rep]
  BY DEF Up, Boards
<1>2. rep \in Keys \cup {NULL} /\ (rep # NULL => rep = s.rep /\ rep # k)
  BY DEF Boards
<1> HIDE DEF rep, u
<1>3. /\ u \in Boards /\ u.keys = s.keys \ {k} /\ u.raw = s.raw \ {k} /\ u.rep = rep
      /\ u.last = s.last /\ u.buf = s.buf /\ u.pos = s.pos /\ u.typed = s.typed
  BY <1>1, <1>2 DEF Boards
<1>4. InBuffer(u) /\ Repeating(u)
  BY <1>2, <1>3 DEF Sound, InBuffer, Repeating
<1> QED
  BY <1>3, <1>4 DEF Sound, u

LEMMA EventSound ==
  ASSUME NEW s \in Boards, Sound(s), NEW e \in Keys \X BOOLEAN, NEW p \in 0 .. KEY_BUFFER_SIZE
  PROVE  Event(s, e, p) \in Boards /\ Sound(Event(s, e, p))
BY DownSound, UpSound DEF Event

(* Whatever events wait, and in whatever order.                            *)
LEMMA EventsReadSound ==
  ASSUME Now \in Boards, Sound(Now), device \in Seq(Keys \X BOOLEAN),
         NEW p \in 0 .. KEY_BUFFER_SIZE
  PROVE  EventsRead(p) \in Boards /\ Sound(EventsRead(p))
<1> DEFINE D == Len(device)
           X == {s \in Boards : Sound(s)}
           IsAfter(f) == f = [n \in 0 .. D |-> IF n = 0 THEN Now ELSE Event(f[n - 1], device[n], p)]
           step == [n \in 1 .. D |-> [s \in X |-> Event(s, device[n], p)]]
           c == CHOOSE f : IsAfter(f)
<1>1. D \in Nat /\ Now \in X /\ \A n \in 1 .. D : device[n] \in Keys \X BOOLEAN
  OBVIOUS
<1>2. \A n \in 1 .. D, s \in X : Event(s, device[n], p) \in X
  BY <1>1, EventSound
<1>3. EventsRead(p) = c[D]
  BY DEF EventsRead
<1> HIDE DEF X, D
<1>4. \A n \in 1 .. D, s \in X : step[n][s] = Event(s, device[n], p) /\ step[n][s] \in X
  BY <1>2
<1> HIDE DEF step
<1>5. \E f : IsAfter(f)
  <2>1. PICK g \in [0 .. D -> X] : Iterates(g, D, Now, step)
    BY <1>1, <1>4, Recursion
  <2>2. g[0] = Now /\ \A n \in 1 .. D : g[n] = Event(g[n - 1], device[n], p)
    <3>1. g[0] = Now /\ \A n \in 1 .. D : g[n] = step[n][g[n - 1]]
      BY <2>1 DEF Iterates
    <3>2. \A n \in 1 .. D : g[n - 1] \in X
      BY <1>1, <2>1
    <3> QED
      BY <1>4, <3>1, <3>2
  <2>3. \A n \in 0 .. D : g[n] = IF n = 0 THEN Now ELSE Event(g[n - 1], device[n], p)
    <3>1. \A n \in 0 .. D : n # 0 => n \in 1 .. D
      BY <1>1
    <3> QED
      BY <2>2, <3>1
  <2>4. IsAfter(g)
    BY <2>1, <2>3
  <2> QED
    BY <2>4
<1>6. IsAfter(c)
  BY <1>5
<1> HIDE DEF c
<1>7. /\ c[0] = Now
      /\ \A n \in 1 .. D : c[n] = Event(c[n - 1], device[n], p)
  <2>1. \A n \in 0 .. D : c[n] = IF n = 0 THEN Now ELSE Event(c[n - 1], device[n], p)
    BY <1>6
  <2>2. 0 \in 0 .. D /\ \A n \in 1 .. D : n \in 0 .. D /\ n # 0
    BY <1>1
  <2> HIDE DEF IsAfter
  <2> QED
    BY <2>1, <2>2
<1> DEFINE S == {n \in 0 .. D : c[n] \in X}
<1> HIDE DEF IsAfter
<1>8. 0 \in S
  BY <1>1, <1>7
<1>9. ASSUME NEW n \in 1 .. D, n - 1 \in S
      PROVE  n \in S
  <2>1. c[n - 1] \in X /\ n \in 0 .. D
    BY <1>1, <1>9
  <2>2. Event(c[n - 1], device[n], p) \in X
    BY <1>2, <2>1
  <2>3. c[n] = Event(c[n - 1], device[n], p)
    BY <1>7
  <2> QED
    BY <2>1, <2>2, <2>3
<1> HIDE DEF S
<1>10. D \in S
  <2>1. \A n \in 1 .. D : n - 1 \in S => n \in S
    BY <1>9
  <2>2. \A n \in 0 .. D : n \in S
    BY <1>1, <1>8, <2>1, Induction
  <2> QED
    BY <1>1, <2>2
<1> QED
  BY <1>3, <1>10 DEF S, X

(* Once the arrows pressed are keys, the key that repeats is held.         *)
Held(s) ==
  /\ s.rep # NULL => s.rep \in s.keys
  /\ s.last \in ArrowKeys => s.rep \in {s.last, NULL}

LEMMA LatestArrow ==
  ASSUME NEW S \in SUBSET (DOMAIN Arrows), S # {}
  PROVE  Max(S) \in S
<1>1. DOMAIN Arrows \subseteq {1, 2}
  BY InputAssumption
<1>2. \E x \in S : \A y \in S : x >= y
  <2>1. CASE 2 \in S
    BY <1>1, <2>1
  <2>2. CASE 2 \notin S
    BY <1>1, <2>2
  <2> QED
    BY <2>1, <2>2
<1> QED
  BY <1>2 DEF Max

LEMMA ArrangedSound ==
  ASSUME NEW s \in Boards, Sound(s)
  PROVE  LET t == Arranged(s) IN t \in Boards /\ InBuffer(t) /\ Held(t)
<1> DEFINE fresh   == {i \in DOMAIN Arrows : Arrows[i] \in s.raw}
           latest  == Arrows[Max(fresh)]
           named   == IF fresh = {} THEN s
                      ELSE [s EXCEPT !.keys = s.keys \cup s.raw, !.last = latest, !.rep = latest]
           against == IF IsArrow(named.last) THEN ArrowKeys \ {named.last} ELSE {}
           t       == [named EXCEPT !.keys = named.keys \ against]
<1>1. /\ s.keys \in SUBSET Keys /\ s.raw \in SUBSET ArrowKeys
      /\ s.rep \in Keys \cup {NULL} /\ s.last \in Keys \cup {NULL}
  BY DEF Boards
<1>2. /\ named \in Boards /\ named.buf = s.buf /\ named.pos = s.pos /\ named.typed = s.typed
      /\ named.rep # NULL => named.rep \in named.keys
      /\ named.last \in ArrowKeys => named.rep \in {named.last, NULL}
  <2>1. CASE fresh = {}
    <3>1. s.raw = {}
      BY <1>1, <2>1 DEF ArrowKeys
    <3>2. named = s
      BY <2>1
    <3> HIDE DEF named, fresh
    <3> QED
      BY <3>1, <3>2 DEF Sound, Repeating
  <2>2. CASE fresh # {}
    <3>1. latest \in s.raw /\ latest \in Keys
      <4>1. Max(fresh) \in fresh
        BY <2>2, LatestArrow
      <4> QED
        BY <1>1, <4>1, ArrowIs
    <3>2. named = [s EXCEPT !.keys = s.keys \cup s.raw, !.last = latest, !.rep = latest]
      BY <2>2
    <3>3. s.keys \cup s.raw \subseteq Keys
      BY <1>1, ArrowIs
    <3> HIDE DEF named, fresh, latest
    <3>4. /\ named \in Boards /\ named.buf = s.buf /\ named.pos = s.pos /\ named.typed = s.typed
          /\ named.keys = s.keys \cup s.raw /\ named.last = latest /\ named.rep = latest
      BY <3>1, <3>2, <3>3 DEF Boards
    <3> QED
      BY <3>1, <3>4
  <2> QED
    BY <2>1, <2>2
<1>3. Arranged(s) = t
  BY <1>1, <1>2 DEF Arranged, ArrowKeys, Boards
<1>4. against \in SUBSET ArrowKeys /\ named.rep \notin against
  BY <1>2, ArrowIs
<1> HIDE DEF named, against
<1>5. /\ t \in Boards /\ t.keys = named.keys \ against /\ t.last = named.last /\ t.rep = named.rep
      /\ t.buf = s.buf /\ t.pos = s.pos /\ t.typed = s.typed
  BY <1>2, <1>4 DEF Boards
<1>6. InBuffer(t) /\ Held(t)
  BY <1>2, <1>4, <1>5 DEF Sound, InBuffer, Held
<1> QED
  BY <1>3, <1>5, <1>6

LEMMA RepetitionsSound ==
  ASSUME NEW s \in Boards, InBuffer(s), Held(s), NEW p \in 0 .. KEY_BUFFER_SIZE,
         NEW t \in Repetitions(s, p)
  PROVE  t \in Boards /\ InBuffer(t) /\ Held(t)
<1>1. CASE t = s
  BY <1>1
<1>2. CASE s.rep \in Typing /\ t = Appended(s, s.rep, p)
  <2>1. s.rep \in Keys
    BY <1>2, InputAssumption
  <2>2. /\ t \in Boards /\ InBuffer(t)
        /\ t.keys = s.keys /\ t.last = s.last /\ t.rep = s.rep
    BY <1>2, <2>1, AppendedSound
  <2> QED
    BY <2>2 DEF Held
<1> QED
  BY <1>1, <1>2 DEF Repetitions

(* The keyboard of a state after its events were read.                     *)
LEMMA ParseSound ==
  ASSUME Now \in Boards, Sound(Now), device \in Seq(Keys \X BOOLEAN),
         NEW p \in 0 .. KEY_BUFFER_SIZE, NEW s \in Repetitions(Arranged(EventsRead(p)), p)
  PROVE  s \in Boards /\ InBuffer(s) /\ Held(s)
BY EventsReadSound, ArrangedSound, RepetitionsSound

-----------------------------------------------------------------------------
(* What a script gets of the buffer.                                       *)

LEMMA Wraps ==
  ASSUME NEW d \in Nat \ {0}, NEW x \in 0 .. d + d - 1
  PROVE  x % d = IF x < d THEN x ELSE x - d
<1>1. x % d \in 0 .. d - 1 /\ x = d * (x \div d) + (x % d)
  OBVIOUS
<1>2. PICK q \in Int, r \in 0 .. d - 1 : q = x \div d /\ r = x % d /\ x = d * q + r
  BY <1>1
<1>3. q = 0 \/ q = 1
  <2>1. ~ (q >= 2)
    BY <1>2
  <2>2. ~ (q <= -1)
    BY <1>2
  <2> QED
    BY <2>1, <2>2, <1>2
<1> QED
  BY <1>2, <1>3

(* From the position on: first what is still empty, then what was typed.   *)
LEMMA AroundTheEnd ==
  ASSUME Now \in Boards, InBuffer(Now), Len(typed) < KEY_BUFFER_SIZE,
         NEW i \in 0 .. KEY_BUFFER_SIZE - 1
  PROVE  key_buffer[(key_buffer_position + i) % KEY_BUFFER_SIZE]
           = IF i < KEY_BUFFER_SIZE - Len(typed) THEN NULL
             ELSE typed[i - (KEY_BUFFER_SIZE - Len(typed)) + 1]
<1>1. /\ KEY_BUFFER_SIZE \in Nat \ {0} /\ typed \in Seq(Keys) /\ Len(typed) \in Nat
      /\ key_buffer_position = Len(typed)
      /\ \A c \in Cells : key_buffer[c] = IF c < Len(typed) THEN typed[c + 1] ELSE NULL
  BY InputAssumption DEF Boards, Now, InBuffer
<1>2. PICK n \in Nat, Z \in Nat \ {0} : n = Len(typed) /\ Z = KEY_BUFFER_SIZE
  BY <1>1
<1>3. n < Z /\ i \in 0 .. Z - 1
  BY <1>2
<1>4. (n + i) % Z = IF n + i < Z THEN n + i ELSE n + i - Z
  <2>1. PICK x \in 0 .. Z + Z - 1 : x = n + i
    BY <1>2, <1>3
  <2>2. x % Z = IF x < Z THEN x ELSE x - Z
    BY Wraps
  <2> QED
    BY <2>1, <2>2
<1>5. PICK c \in Cells : c = (n + i) % Z
  <2>1. (n + i) % Z \in 0 .. Z - 1
    BY <1>3, <1>4
  <2> QED
    BY <1>2, <2>1 DEF Cells
<1>6. key_buffer[c] = IF c < n THEN typed[c + 1] ELSE NULL
  BY <1>1, <1>2
<1>7. CASE n + i < Z
  BY <1>1, <1>2, <1>3, <1>4, <1>5, <1>6, <1>7
<1>8. CASE n + i >= Z
  <2>1. c = n + i - Z /\ c < n /\ c + 1 = i - (Z - n) + 1 /\ ~ (i < Z - n)
    BY <1>3, <1>4, <1>5, <1>8
  <2>2. key_buffer[c] = typed[i - (Z - n) + 1]
    BY <1>6, <2>1
  <2> QED
    BY <1>1, <1>2, <1>5, <2>1, <2>2
<1> QED
  BY <1>3, <1>7, <1>8

LEMMA BufferExact ==
  ASSUME Now \in Boards, InBuffer(Now)
  PROVE  BufferExactUntilFull
<1> SUFFICES ASSUME Len(typed) < KEY_BUFFER_SIZE
             PROVE  GetKeyBuffer = typed
  BY DEF BufferExactUntilFull
<1>1. /\ KEY_BUFFER_SIZE \in Nat \ {0} /\ typed \in Seq(Keys) /\ Len(typed) \in Nat
  BY InputAssumption DEF Boards, Now
<1>2. PICK n \in Nat, Z \in Nat \ {0} : n = Len(typed) /\ Z = KEY_BUFFER_SIZE
  BY <1>1
<1> DEFINE at(i) == key_buffer[(key_buffer_position + i) % KEY_BUFFER_SIZE]
           next(x, m) == IF at(m - 1) = NULL THEN x ELSE Append(x, at(m - 1))
           IsOrdered(f) == f = [m \in 0 .. KEY_BUFFER_SIZE |-> IF m = 0 THEN <<>> ELSE next(f[m - 1], m)]
           c == CHOOSE f : IsOrdered(f)
           start(m) == IF m <= Z - n THEN <<>> ELSE [j \in 1 .. m - (Z - n) |-> typed[j]]
           g == [m \in 0 .. Z |-> start(m)]
<1>3. GetKeyBuffer = c[Z]
  BY <1>2 DEF GetKeyBuffer
<1>4. \A i \in 0 .. Z - 1 : at(i) = IF i < Z - n THEN NULL ELSE typed[i - (Z - n) + 1]
  BY <1>2, AroundTheEnd
<1> HIDE DEF at
<1>5. ASSUME NEW m \in 1 .. Z
      PROVE  start(m) = next(start(m - 1), m)
  <2>1. m - 1 \in 0 .. Z - 1
    BY <1>2
  <2>2. at(m - 1) = IF m - 1 < Z - n THEN NULL ELSE typed[m - (Z - n)]
    <3>1. m - 1 - (Z - n) + 1 = m - (Z - n)
      BY <1>2
    <3> QED
      BY <1>4, <2>1, <3>1
  <2>3. CASE m <= Z - n
    <3>1. at(m - 1) = NULL
      BY <1>2, <2>2, <2>3
    <3>2. start(m) = <<>> /\ start(m - 1) = <<>>
      BY <1>2, <2>3
    <3> HIDE DEF start
    <3> QED
      BY <3>1, <3>2
  <2>4. CASE m > Z - n
    <3>1. PICK k \in 1 .. n : k = m - (Z - n)
      <4>1. m - (Z - n) \in 1 .. n
        BY <1>2, <2>4
      <4> QED
        BY <4>1
    <3>2. at(m - 1) = typed[k] /\ typed[k] \in Keys
      BY <1>1, <1>2, <2>1, <2>2, <2>4, <3>1
    <3>3. next(start(m - 1), m) = Append(start(m - 1), typed[k])
      BY <3>2, InputAssumption
    <3>4. start(m) = [j \in 1 .. k |-> typed[j]]
      BY <2>4, <3>1
    <3>5. start(m - 1) = [j \in 1 .. k - 1 |-> typed[j]]
      <4>1. CASE k = 1
        <5>1. m - 1 <= Z - n
          BY <1>2, <3>1, <4>1
        <5> QED
          BY <4>1, <5>1
      <4>2. CASE k # 1
        <5>1. ~ (m - 1 <= Z - n) /\ m - 1 - (Z - n) = k - 1
          BY <1>2, <3>1, <4>2
        <5> QED
          BY <5>1
      <4> QED
        BY <4>1, <4>2
    <3>6. ASSUME NEW s, s = [j \in 1 .. k - 1 |-> typed[j]]
          PROVE  Append(s, typed[k]) = [j \in 1 .. k |-> typed[j]]
      <4>1. s \in Seq(Keys) /\ Len(s) = k - 1
        BY <1>1, <1>2, <3>6
      <4> QED
        BY <1>1, <1>2, <3>2, <3>6, <4>1
    <3> HIDE DEF start, next
    <3> QED
      BY <3>3, <3>4, <3>5, <3>6
  <2> QED
    BY <1>2, <2>3, <2>4
<1>6. start(0) = <<>> /\ start(Z) = typed
  <2>1. CASE n = 0
    <3>1. typed = <<>>
      BY <1>1, <1>2, <2>1, EmptySeq
    <3>2. 0 <= Z - n /\ Z <= Z - n
      BY <2>1
    <3> QED
      BY <3>1, <3>2
  <2>2. CASE n # 0
    <3>1. start(Z) = [j \in 1 .. n |-> typed[j]]
      BY <1>2, <2>2
    <3> QED
      BY <1>1, <1>2, <2>2, <3>1
  <2> QED
    BY <2>1, <2>2
<1> HIDE DEF start, next
<1>7. IsOrdered(g)
  <2>1. ASSUME NEW m \in 0 .. Z
        PROVE  g[m] = IF m = 0 THEN <<>> ELSE next(g[m - 1], m)
    <3>1. CASE m = 0
      BY <1>6, <3>1
    <3>2. CASE m # 0
      <4>1. m \in 1 .. Z /\ m - 1 \in 0 .. Z
        BY <1>2, <3>2
      <4>2. g[m] = start(m) /\ g[m - 1] = start(m - 1)
        BY <4>1
      <4> QED
        BY <1>5, <3>2, <4>1, <4>2
    <3> QED
      BY <3>1, <3>2
  <2>2. DOMAIN g = 0 .. Z
    OBVIOUS
  <2> QED
    BY <1>2, <2>1, <2>2
<1> HIDE DEF g
<1>8. IsOrdered(c)
  <2>1. \E f : IsOrdered(f)
    BY <1>7
  <2> QED
    BY <2>1
<1> HIDE DEF c
<1>9. c[0] = <<>> /\ \A m \in 1 .. Z : c[m] = next(c[m - 1], m)
  BY <1>2, <1>8
<1> DEFINE S == {m \in 0 .. Z : c[m] = start(m)}
<1>10. 0 \in S
  BY <1>6, <1>9
<1>11. ASSUME NEW m \in 1 .. Z, m - 1 \in S
       PROVE  m \in S
  <2>1. c[m - 1] = start(m - 1) /\ m \in 0 .. Z
    BY <1>2, <1>11
  <2> QED
    BY <1>5, <1>9, <2>1
<1> HIDE DEF S
<1>12. Z \in S
  <2>1. \A m \in 1 .. Z : m - 1 \in S => m \in S
    BY <1>11
  <2>2. \A m \in 0 .. Z : m \in S
    BY <1>2, <1>10, <2>1, Induction
  <2> QED
    BY <1>2, <2>2
<1> QED
  BY <1>3, <1>6, <1>12 DEF S

-----------------------------------------------------------------------------
(* The scripts and calls under way.                                        *)

Frames == [at : {"script", "parse", "read", "fire"},
           old : SUBSET Pressable, next : 1 .. (Len(Buttons) + 1)]

(* The calls of UpdateControls among them, and those that have yet to run  *)
(* the script of a button.                                                 *)
Calls(s)   == {j \in DOMAIN s : s[j].at # "script"}
Owes(f, k) == f.at = "fire" /\ k \notin f.old /\ \E i \in f.next .. Len(Buttons) : Buttons[i] = k
Owing(s, k) == {j \in DOMAIN s : Owes(s[j], k)}

LEMMA NewFrame ==
  ASSUME NEW at \in {"script", "parse", "read", "fire"}, NEW old \in SUBSET Pressable
  PROVE  /\ [at |-> at, old |-> old, next |-> 1] \in Frames
         /\ Frame(at) \in Frames /\ Frame(at).at = at
BY InputAssumption DEF Frames, Frame

LEMMA Pushed ==
  ASSUME NEW s \in Seq(Frames), NEW f \in Frames
  PROVE  /\ Append(s, f) \in Seq(Frames) /\ s \o <<f>> = Append(s, f)
         /\ Calls(Append(s, f)) = Calls(s) \cup (IF f.at # "script" THEN {Len(s) + 1} ELSE {})
         /\ \A k : Owing(Append(s, f), k) = Owing(s, k) \cup (IF Owes(f, k) THEN {Len(s) + 1} ELSE {})
<1>1. PICK t \in Seq(Frames) : t = Append(s, f)
  <2>1. Append(s, f) \in Seq(Frames)
    OBVIOUS
  <2> QED
    BY <2>1
<1>2. /\ Len(s) \in Nat /\ DOMAIN s = 1 .. Len(s) /\ DOMAIN t = 1 .. Len(s) + 1
      /\ t[Len(s) + 1] = f /\ \A j \in 1 .. Len(s) : t[j] = s[j]
  BY <1>1
<1>3. DOMAIN t = DOMAIN s \cup {Len(s) + 1} /\ Len(s) + 1 \notin DOMAIN s
  BY <1>2
<1>4. Calls(t) = Calls(s) \cup (IF f.at # "script" THEN {Len(s) + 1} ELSE {})
  BY <1>2, <1>3 DEF Calls
<1>5. ASSUME NEW k
      PROVE  Owing(t, k) = Owing(s, k) \cup (IF Owes(f, k) THEN {Len(s) + 1} ELSE {})
  BY <1>2, <1>3 DEF Owing
<1>6. s \o <<f>> = Append(s, f)
  OBVIOUS
<1> QED
  BY <1>1, <1>4, <1>5, <1>6

LEMMA Popped ==
  ASSUME NEW s \in Seq(Frames), s # <<>>
  PROVE  /\ Last(s) \in Frames /\ Last(s) = s[Len(s)] /\ Len(s) \in DOMAIN s
         /\ Front(s) \in Seq(Frames)
         /\ Calls(Front(s)) \subseteq Calls(s)
         /\ \A k : Owing(Front(s), k) \subseteq Owing(s, k)
<1>1. Len(s) \in Nat \ {0} /\ Last(s) = s[Len(s)] /\ Len(s) \in DOMAIN s
  BY EmptySeq DEF Last
<1>2. s[Len(s)] \in Frames
  BY <1>1
<1>3. /\ Front(s) \in Seq(Frames) /\ Len(Front(s)) = Len(s) - 1
      /\ \A j \in 1 .. Len(s) - 1 : Front(s)[j] = s[j]
  <2>1. PICK n \in Nat : n = Len(s) - 1
    BY <1>1
  <2>2. \A j \in 1 .. n : s[j] \in Frames
    BY <2>1
  <2>3. /\ SubSeq(s, 1, n) \in Seq(Frames)
        /\ Len(SubSeq(s, 1, n)) = IF 1 <= n THEN n - 1 + 1 ELSE 0
        /\ \A j \in 1 .. n - 1 + 1 : SubSeq(s, 1, n)[j] = s[1 + j - 1]
    BY <2>2, SubSeqProperties
  <2>4. /\ n - 1 + 1 = n /\ (IF 1 <= n THEN n - 1 + 1 ELSE 0) = n
        /\ \A j \in 1 .. n : 1 + j - 1 = j
    OBVIOUS
  <2>5. Front(s) = SubSeq(s, 1, n)
    BY <2>1 DEF Front
  <2> QED
    BY <2>1, <2>3, <2>4, <2>5
<1>4. PICK t \in Seq(Frames) : t = Front(s)
  BY <1>3
<1>5. DOMAIN t \subseteq DOMAIN s /\ \A j \in DOMAIN t : t[j] = s[j]
  BY <1>1, <1>3, <1>4
<1>6. Calls(t) \subseteq Calls(s) /\ \A k : Owing(t, k) \subseteq Owing(s, k)
  BY <1>5 DEF Calls, Owing
<1> QED
  BY <1>1, <1>2, <1>4, <1>6

LEMMA Replaced ==
  ASSUME NEW s \in Seq(Frames), s # <<>>, NEW f \in Frames
  PROVE  LET t == [s EXCEPT ![Len(s)] = f]
         IN  /\ t \in Seq(Frames) /\ Front(s) \o <<f>> = t
             /\ f.at # "script" /\ Last(s).at # "script" => Calls(t) = Calls(s)
             /\ \A k : Owing(t, k) = (Owing(s, k) \ {Len(s)}) \cup (IF Owes(f, k) THEN {Len(s)} ELSE {})
<1>1. Len(s) \in DOMAIN s /\ Last(s) = s[Len(s)]
  BY Popped
<1>2. PICK t \in Seq(Frames) : t = [s EXCEPT ![Len(s)] = f]
  <2>1. [s EXCEPT ![Len(s)] = f] \in Seq(Frames)
    BY <1>1
  <2> QED
    BY <2>1
<1>3. /\ DOMAIN t = DOMAIN s /\ t[Len(s)] = f
      /\ \A j \in DOMAIN s : j # Len(s) => t[j] = s[j]
  BY <1>1, <1>2
<1>4. f.at # "script" /\ Last(s).at # "script" => Calls(t) = Calls(s)
  BY <1>1, <1>3 DEF Calls
<1>5. ASSUME NEW k
      PROVE  Owing(t, k) = (Owing(s, k) \ {Len(s)}) \cup (IF Owes(f, k) THEN {Len(s)} ELSE {})
  BY <1>1, <1>3 DEF Owing
<1>6. Front(s) \o <<f>> = t
  BY <1>2 DEF Front
<1> QED
  BY <1>2, <1>4, <1>5, <1>6

-----------------------------------------------------------------------------
(* The keyboard and the key buffer.                                        *)

KeyboardKept == Now \in Boards /\ InBuffer(Now) /\ Held(Now)

(* The part of the types that is not the keyboard's.                       *)
RestOK ==
  /\ hand \subseteq Keys /\ device \in Seq(Keys \X BOOLEAN)
  /\ b \subseteq Pressable /\ kill \subseteq Pressable /\ killswitch \in BOOLEAN
  /\ stack \in Seq(Frames)

InputKept == KeyboardKept /\ RestOK

LEMMA KeyboardStarts == InputInit => InputKept
<1> SUFFICES ASSUME InputInit
             PROVE  InputKept
  OBVIOUS
<1>1. Now \in Boards
  BY InputAssumption DEF InputInit, Now, Boards, Empty, Cells
<1>2. InBuffer(Now) /\ Held(Now)
  BY InputAssumption, ArrowIs DEF InputInit, Now, InBuffer, Held, Empty, Cells
<1>3. RestOK
  <2>1. <<>> \in Seq(Keys \X BOOLEAN) /\ <<>> \in Seq(Frames)
    BY EmptySeq
  <2> QED
    BY <2>1 DEF InputInit, RestOK
<1> QED
  BY <1>1, <1>2, <1>3 DEF InputKept, KeyboardKept

(* One step for the actions that change the keyboard, and one for others.  *)
LEMMA KeyboardStep == InputKept /\ [InputNext]_inputVars => KeyboardKept'
<1> SUFFICES ASSUME InputKept, [InputNext]_inputVars
             PROVE  KeyboardKept'
  OBVIOUS
<1>1. /\ Now \in Boards /\ InBuffer(Now) /\ Held(Now) /\ Sound(Now)
      /\ device \in Seq(Keys \X BOOLEAN)
  BY DEF InputKept, KeyboardKept, RestOK, Held, Sound, Repeating
<1>2. ASSUME UNCHANGED <<keyboard, buffer>>
      PROVE  KeyboardKept'
  <2>1. Now' = Now
    BY <1>2 DEF keyboard, buffer, Now
  <2> QED
    BY <1>1, <2>1 DEF KeyboardKept
<1>3. CASE ParseKeyEvent
  <2>0. PICK p \in 0 .. KEY_BUFFER_SIZE : \E s \in Repetitions(Arranged(EventsRead(p)), p) :
          /\ keys' = s.keys /\ lastpressed' = s.last /\ repeatedkey' = s.rep
          /\ key_buffer' = s.buf /\ key_buffer_position' = s.pos /\ typed' = s.typed
    BY <1>3 DEF ParseKeyEvent
  <2>1. PICK s \in Repetitions(Arranged(EventsRead(p)), p) :
          /\ keys' = s.keys /\ lastpressed' = s.last /\ repeatedkey' = s.rep
          /\ key_buffer' = s.buf /\ key_buffer_position' = s.pos /\ typed' = s.typed
    BY <2>0
  <2>2. s \in Boards /\ InBuffer(s) /\ Held(s)
    BY <1>1, ParseSound
  <2>3. PICK t : t = [keys |-> s.keys, last |-> s.last, rep |-> s.rep,
                      buf |-> s.buf, pos |-> s.pos, typed |-> s.typed, raw |-> {}]
    OBVIOUS
  <2>5. /\ t \in Boards /\ t.keys = s.keys /\ t.last = s.last /\ t.rep = s.rep
        /\ t.buf = s.buf /\ t.pos = s.pos /\ t.typed = s.typed
    BY <2>2, <2>3 DEF Boards
  <2>6. InBuffer(t) /\ Held(t)
    BY <2>2, <2>5 DEF InBuffer, Held
  <2>7. Now' = t
    BY <2>1, <2>3 DEF Now
  <2> QED
    BY <2>5, <2>6, <2>7 DEF KeyboardKept
<1>4. CASE FlushKeyBuffer
  <2>1. PICK t : t = [keys |-> keys, last |-> lastpressed, rep |-> repeatedkey,
                      buf |-> Empty, pos |-> 0, typed |-> <<>>, raw |-> {}]
    OBVIOUS
  <2>2. Now' = t
    BY <1>4, <2>1 DEF FlushKeyBuffer, keyboard, Now
  <2>3. Empty \in [Cells -> Keys \cup {NULL}] /\ 0 \in 0 .. KEY_BUFFER_SIZE
    BY InputAssumption DEF Empty
  <2>4. PICK s \in Boards : s = Now
    BY <1>1
  <2>5. /\ t \in Boards /\ t.keys = s.keys /\ t.last = s.last /\ t.rep = s.rep
        /\ t.buf = Empty /\ t.pos = 0 /\ t.typed = <<>>
    <3>1. /\ keys \in SUBSET Keys /\ lastpressed \in Keys \cup {NULL}
          /\ repeatedkey \in Keys \cup {NULL} /\ <<>> \in Seq(Keys)
      BY <1>1, EmptySeq DEF Now, Boards
    <3>2. s.keys = keys /\ s.last = lastpressed /\ s.rep = repeatedkey
      BY <2>4 DEF Now
    <3> QED
      BY <2>1, <2>3, <3>1, <3>2 DEF Boards
  <2>6. InBuffer(t)
    BY <2>5, InputAssumption DEF InBuffer, Empty, Cells
  <2>7. Held(t)
    BY <1>1, <2>4, <2>5 DEF Held
  <2> QED
    BY <2>2, <2>5, <2>6, <2>7 DEF KeyboardKept
<1>5. CASE UNCHANGED inputVars
  BY <1>2, <1>5 DEF inputVars, keyboard, buffer
<1>6. CASE \E k \in Keys : Press(k) \/ Release(k)
  BY <1>2, <1>6 DEF Press, Release
<1>7. CASE EngineUpdates \/ CallUpdateControls
  BY <1>2, <1>7 DEF EngineUpdates, CallUpdateControls, UpdateControls
<1>8. CASE EngineRunsScript \/ ReadButtons \/ FireButton \/ UpdateReturns \/ ScriptReturns
  BY <1>2, <1>8 DEF EngineRunsScript, ReadButtons, FireButton, UpdateReturns, ScriptReturns
<1>9. CASE \E k \in Pressable : Unpress(k)
  BY <1>2, <1>9 DEF Unpress
<1>10. CASE \E on \in BOOLEAN : SetInputKillSwitch(on)
  BY <1>2, <1>10 DEF SetInputKillSwitch
<1> QED
  BY <1>3, <1>4, <1>5, <1>6, <1>7, <1>8, <1>9, <1>10 DEF InputNext

LEMMA Smallest ==
  ASSUME NEW S \in SUBSET Nat, S # {}
  PROVE  Min(S) \in S
<1>1. PICK x \in S : \A y \in S : ~ (<<y, x>> \in OpToRel(<, Nat))
  BY NatLessThanWellFounded, WFMin
<1>2. \A y \in S : x =< y
  <2>1. \A y \in S : ~ (y < x)
    BY <1>1 DEF OpToRel
  <2> QED
    BY <2>1
<1>3. \E z \in S : \A y \in S : z =< y
  BY <1>2
<1> QED
  BY <1>3 DEF Min

(* FireButton runs the script of a button that is due, and goes on behind. *)
LEMMA Fires ==
  ASSUME stack \in Seq(Frames), FireButton
  PROVE  \E i \in 1 .. Len(Buttons) :
           LET f == [Last(stack) EXCEPT !.next = i + 1]
           IN  /\ f \in Frames
               /\ stack' = Append([stack EXCEPT ![Len(stack)] = f], Frame("script"))
               /\ i \in Last(stack).next .. Len(Buttons) /\ Buttons[i] \in b \ Last(stack).old
               /\ fired' = [fired EXCEPT ![Buttons[i]] = @ + 1]
<1> DEFINE top == Last(stack)
<1>1. PICK i : /\ stack # <<>> /\ Due(top) # {} /\ i = Min(Due(top))
               /\ stack' = [stack EXCEPT ![Len(stack)].next = i + 1] \o <<Frame("script")>>
               /\ fired' = [fired EXCEPT ![Buttons[i]] = @ + 1]
  BY DEF FireButton
<1>2. top \in Frames /\ top = stack[Len(stack)] /\ Len(stack) \in DOMAIN stack
  BY <1>1, Popped
<1> DEFINE f == [top EXCEPT !.next = i + 1]
<1>3. top.next \in 1 .. (Len(Buttons) + 1) /\ Len(Buttons) \in Nat
  BY <1>2, InputAssumption DEF Frames
<1>4. i \in Due(top)
  <2>1. Due(top) \in SUBSET Nat
    BY <1>3 DEF Due
  <2> QED
    BY <1>1, <2>1, Smallest
<1> HIDE DEF top
<1>5. i \in top.next .. Len(Buttons) /\ i \in 1 .. Len(Buttons) /\ Buttons[i] \in b \ top.old
  BY <1>3, <1>4 DEF Due
<1>6. f \in Frames
  BY <1>2, <1>3, <1>5 DEF Frames
<1>7. [stack EXCEPT ![Len(stack)].next = i + 1] = [stack EXCEPT ![Len(stack)] = f]
  BY <1>2
<1>8. /\ [stack EXCEPT ![Len(stack)] = f] \in Seq(Frames)
      /\ Frame("script") \in Frames
  BY <1>1, <1>6, Replaced, NewFrame
<1>9. stack' = Append([stack EXCEPT ![Len(stack)] = f], Frame("script"))
  BY <1>1, <1>7, <1>8, Pushed
<1> QED
  BY <1>1, <1>5, <1>6, <1>9 DEF top

(* What the stack is after a step, one case for each way it changes.       *)
LEMMA RestStep == InputKept /\ [InputNext]_inputVars => RestOK'
<1> SUFFICES ASSUME InputKept, [InputNext]_inputVars
             PROVE  RestOK'
  OBVIOUS
<1>1. /\ hand \subseteq Keys /\ device \in Seq(Keys \X BOOLEAN)
      /\ b \subseteq Pressable /\ kill \subseteq Pressable /\ killswitch \in BOOLEAN
      /\ stack \in Seq(Frames)
  BY DEF InputKept, RestOK
<1>2. /\ Frame("script") \in Frames /\ Frame("parse") \in Frames /\ Frame("read") \in Frames
      /\ [at |-> "fire", old |-> b, next |-> 1] \in Frames
  BY <1>1, NewFrame
<1>3. /\ \A f \in Frames : Append(stack, f) \in Seq(Frames) /\ stack \o <<f>> \in Seq(Frames)
      /\ stack # <<>> => /\ Front(stack) \in Seq(Frames)
                         /\ \A f \in Frames : Front(stack) \o <<f>> \in Seq(Frames)
      /\ <<Frame("script")>> \in Seq(Frames) /\ <<>> \in Seq(Frames)
  BY <1>1, <1>2, Pushed, Popped, Replaced
<1>4. CASE UNCHANGED inputVars
  BY <1>1, <1>4 DEF inputVars, outside, controls, RestOK
<1>5. ASSUME NEW k \in Keys, Press(k) \/ Release(k)
      PROVE  RestOK'
  <2>1. \A x \in BOOLEAN : Append(device, <<k, x>>) \in Seq(Keys \X BOOLEAN)
    BY <1>1
  <2> QED
    BY <1>1, <1>5, <2>1 DEF Press, Release, controls, RestOK
<1>6. CASE EngineUpdates \/ CallUpdateControls
  BY <1>1, <1>2, <1>3, <1>6 DEF EngineUpdates, CallUpdateControls, UpdateControls, outside, controls, RestOK
<1>7. CASE EngineRunsScript
  BY <1>1, <1>3, <1>7 DEF EngineRunsScript, outside, controls, RestOK
<1>8. CASE ParseKeyEvent
  <2>1. stack # <<>> /\ UNCHANGED <<hand, b, kill, killswitch>> /\ device' = <<>>
    BY <1>8 DEF ParseKeyEvent
  <2>2. stack' \in {Front(stack) \o <<Frame("read")>>, stack \o <<Frame("script")>>, stack}
    BY <1>8 DEF ParseKeyEvent
  <2>3. stack' \in Seq(Frames)
    BY <1>1, <1>2, <1>3, <2>1, <2>2
  <2>4. device' \in Seq(Keys \X BOOLEAN)
    BY <2>1, EmptySeq
  <2> QED
    BY <1>1, <2>1, <2>3, <2>4 DEF RestOK
<1>9. CASE ReadButtons
  BY <1>1, <1>2, <1>3, <1>9 DEF ReadButtons, outside, RestOK
<1>10. CASE FireButton
  <2>1. PICK i \in 1 .. Len(Buttons) :
          LET f == [Last(stack) EXCEPT !.next = i + 1]
          IN  f \in Frames /\ stack' = Append([stack EXCEPT ![Len(stack)] = f], Frame("script"))
    BY <1>1, <1>10, Fires
  <2>2. stack # <<>> /\ UNCHANGED <<hand, device, b, kill, killswitch>>
    BY <1>10 DEF FireButton, outside
  <2>3. stack' \in Seq(Frames)
    BY <1>1, <1>2, <2>1, <2>2, Replaced, Pushed
  <2> QED
    BY <1>1, <2>2, <2>3 DEF RestOK
<1>11. CASE UpdateReturns \/ ScriptReturns
  BY <1>1, <1>3, <1>11 DEF UpdateReturns, ScriptReturns, InScript, outside, controls, RestOK
<1>12. CASE FlushKeyBuffer
  BY <1>1, <1>12 DEF FlushKeyBuffer, outside, controls, RestOK
<1>13. ASSUME NEW k \in Pressable, Unpress(k)
       PROVE  RestOK'
  BY <1>1, <1>13 DEF Unpress, outside, RestOK
<1>14. CASE \E on \in BOOLEAN : SetInputKillSwitch(on)
  BY <1>1, <1>14 DEF SetInputKillSwitch, outside, controls, RestOK
<1> QED
  BY <1>4, <1>5, <1>6, <1>7, <1>8, <1>9, <1>10, <1>11, <1>12, <1>13, <1>14 DEF InputNext

LEMMA KeyboardIsKept == InputSpec => []InputKept
<1>1. InputInit => InputKept
  BY KeyboardStarts
<1>2. InputKept /\ [InputNext]_inputVars => InputKept'
  BY KeyboardStep, RestStep DEF InputKept
<1> QED
  BY <1>1, <1>2, PTL DEF InputSpec

(* Whatever keys are pressed and released, however many characters fall    *)
(* past the end of the buffer and however often scripts empty it or update *)
(* the controls within each other: what GetKeyBuffer hands a script is     *)
(* what was typed, and the position and the frames are in their ranges.    *)
THEOREM TypedIsGot == InputSpec => []InputInv
<1>1. InputKept => InputTypeOK
  <2> SUFFICES ASSUME InputKept
               PROVE  InputTypeOK
    OBVIOUS
  <2>1. /\ keys \subseteq Keys /\ {lastpressed, repeatedkey} \subseteq Keys \cup {NULL}
        /\ key_buffer \in [Cells -> Keys \cup {NULL}]
        /\ key_buffer_position \in 0 .. KEY_BUFFER_SIZE
    BY DEF InputKept, KeyboardKept, Now, Boards
  <2> QED
    BY <2>1 DEF InputKept, RestOK, Frames, InputTypeOK
<1>2. InputKept => BufferExactUntilFull
  BY BufferExact DEF InputKept, KeyboardKept
<1>3. InputKept => InputInv
  BY <1>1, <1>2 DEF InputInv
<1> QED
  BY KeyboardIsKept, <1>3, PTL

(* After any events in any order, the release of a key last pressed, of    *)
(* another key or of an arrow, the key that types again is held.           *)
THEOREM HeldKeyRepeats == InputSpec => []RepeatsHeldKey
<1>1. InputKept => RepeatsHeldKey
  BY DEF InputKept, KeyboardKept, Held, Now, RepeatsHeldKey
<1> QED
  BY KeyboardIsKept, <1>1, PTL

-----------------------------------------------------------------------------
(* Buttons that scripts unpress.                                           *)

(* An unpressed button whose key is still down is one ReadButtons leaves   *)
(* out: that alone makes the next step safe.                               *)
Forgiven == unpressed \subseteq keys \cap kill /\ UnpressHolds

(* A button that a script unpressed stays silent while its key is held,    *)
(* through calls of UpdateControls that are under way and through new ones. *)
THEOREM UnpressedStaysUnpressed == InputSpec => []UnpressHolds
<1>1. InputInit => Forgiven
  BY DEF InputInit, Forgiven, UnpressHolds
<1>2. Forgiven /\ [InputNext]_inputVars => Forgiven'
  <2> SUFFICES ASSUME Forgiven, [InputNext]_inputVars
               PROVE  Forgiven'
    OBVIOUS
  <2>1. unpressed \subseteq keys \cap kill /\ b \cap unpressed = {}
    BY DEF Forgiven, UnpressHolds
  <2>2. ASSUME UNCHANGED <<keys, b, kill, unpressed>>
        PROVE  Forgiven'
    BY <2>1, <2>2 DEF Forgiven, UnpressHolds
  <2>3. CASE UNCHANGED inputVars
    BY <2>2, <2>3 DEF inputVars, keyboard, controls
  <2>4. CASE \E k \in Keys : Press(k) \/ Release(k)
    BY <2>2, <2>4 DEF Press, Release, keyboard, controls
  <2>5. CASE EngineUpdates \/ CallUpdateControls
    BY <2>1, <2>5 DEF EngineUpdates, CallUpdateControls, UpdateControls, keyboard, controls,
                      Forgiven, UnpressHolds
  <2>6. CASE ParseKeyEvent
    <3>1. UNCHANGED <<b, kill>> /\ unpressed' \subseteq unpressed \cap keys'
      BY <2>6 DEF ParseKeyEvent
    <3> QED
      BY <2>1, <3>1 DEF Forgiven, UnpressHolds
  <2>7. CASE ReadButtons
    BY <2>1, <2>7 DEF ReadButtons, keyboard, Forgiven, UnpressHolds
  <2>8. CASE EngineRunsScript \/ FireButton \/ UpdateReturns \/ ScriptReturns \/ FlushKeyBuffer
    BY <2>2, <2>8 DEF EngineRunsScript, FireButton, UpdateReturns, ScriptReturns, FlushKeyBuffer,
                      keyboard, controls
  <2>9. CASE \E k \in Pressable : Unpress(k)
    BY <2>1, <2>9 DEF Unpress, keyboard, Forgiven, UnpressHolds
  <2>10. CASE \E on \in BOOLEAN : SetInputKillSwitch(on)
    BY <2>2, <2>10 DEF SetInputKillSwitch, keyboard, controls
  <2> QED
    BY <2>3, <2>4, <2>5, <2>6, <2>7, <2>8, <2>9, <2>10 DEF InputNext
<1>3. Forgiven => UnpressHolds
  BY DEF Forgiven
<1> QED
  BY <1>1, <1>2, <1>3, PTL DEF InputSpec

-----------------------------------------------------------------------------
(* Scripts of buttons, within each other.                                  *)

(* Each call of UpdateControls under way has at most one run of a button's *)
(* script to its account: one that is done, or one it still owes.          *)
Accounted ==
  /\ fired \in [Keys -> Nat]
  /\ Cardinality(Calls(stack)) <= MaxUpdates
  /\ \A k \in Keys : /\ k \notin b => fired[k] = 0
                     /\ fired[k] + Cardinality(Owing(stack, k)) <= MaxUpdates

LEMMA CallsAreFew ==
  ASSUME NEW s \in Seq(Frames)
  PROVE  /\ IsFiniteSet(Calls(s)) /\ Cardinality(Calls(s)) \in Nat
         /\ \A k : /\ IsFiniteSet(Owing(s, k)) /\ Cardinality(Owing(s, k)) \in Nat
                   /\ Cardinality(Owing(s, k)) <= Cardinality(Calls(s))
<1>1. Len(s) \in Nat /\ Calls(s) \subseteq 1 .. Len(s)
  BY DEF Calls
<1>2. IsFiniteSet(1 .. Len(s))
  BY <1>1, FS_Interval
<1>3. IsFiniteSet(Calls(s)) /\ Cardinality(Calls(s)) \in Nat
  BY <1>1, <1>2, FS_Subset, FS_CardinalityType
<1>4. \A k : Owing(s, k) \subseteq Calls(s)
  BY DEF Owing, Owes, Calls
<1> QED
  BY <1>3, <1>4, FS_Subset, FS_CardinalityType

LEMMA FewerAccounted ==
  ASSUME Accounted, stack \in Seq(Frames), stack' \in Seq(Frames),
         Cardinality(Calls(stack')) <= MaxUpdates,
         fired' \in [Keys -> Nat], \A k \in Keys : fired'[k] <= fired[k] /\ (k \notin b' => fired'[k] = 0),
         \A k \in Keys : fired'[k] # 0 => Cardinality(Owing(stack', k)) <= Cardinality(Owing(stack, k))
  PROVE  Accounted'
<1>1. \A k \in Keys : /\ Cardinality(Owing(stack', k)) \in Nat
                      /\ Cardinality(Owing(stack', k)) <= Cardinality(Calls(stack'))
                      /\ Cardinality(Owing(stack, k)) \in Nat
  BY CallsAreFew
<1>2. Cardinality(Calls(stack')) \in Nat /\ MaxUpdates \in Nat
  BY CallsAreFew, InputAssumption
<1>3. ASSUME NEW k \in Keys
      PROVE  fired'[k] + Cardinality(Owing(stack', k)) <= MaxUpdates
  <2>1. CASE fired'[k] = 0
    BY <1>1, <1>2, <2>1
  <2>2. CASE fired'[k] # 0
    BY <1>1, <1>2, <2>2 DEF Accounted
  <2> QED
    BY <2>1, <2>2
<1> QED
  BY <1>3 DEF Accounted

LEMMA PushedCalls ==
  ASSUME NEW s \in Seq(Frames), NEW at \in {"script", "parse"}
  PROVE  LET t == Append(s, Frame(at))
         IN  /\ t \in Seq(Frames) /\ \A k : Owing(t, k) = Owing(s, k)
             /\ Cardinality(Calls(t)) <= Cardinality(Calls(s)) + (IF at = "script" THEN 0 ELSE 1)
<1>1. Frame(at) \in Frames /\ Frame(at).at = at
  BY NewFrame
<1>2. \A k : ~ Owes(Frame(at), k)
  BY <1>1 DEF Owes
<1>3. PICK t \in Seq(Frames) : t = Append(s, Frame(at))
  BY <1>1, Pushed
<1>4. /\ Calls(t) = Calls(s) \cup (IF at # "script" THEN {Len(s) + 1} ELSE {})
      /\ \A k : Owing(t, k) = Owing(s, k)
  <2>1. /\ Calls(t) = Calls(s) \cup (IF Frame(at).at # "script" THEN {Len(s) + 1} ELSE {})
        /\ \A k : Owing(t, k) = Owing(s, k) \cup (IF Owes(Frame(at), k) THEN {Len(s) + 1} ELSE {})
    BY <1>1, <1>3, Pushed
  <2> QED
    BY <1>1, <1>2, <2>1
<1>5. IsFiniteSet(Calls(s)) /\ Cardinality(Calls(s)) \in Nat
  BY CallsAreFew
<1>6. CASE at = "script"
  BY <1>3, <1>4, <1>5, <1>6
<1>7. CASE at = "parse"
  <2>1. Calls(t) = Calls(s) \cup {Len(s) + 1}
    BY <1>4, <1>7
  <2>2. Cardinality(Calls(t)) = IF Len(s) + 1 \in Calls(s) THEN Cardinality(Calls(s))
                                ELSE Cardinality(Calls(s)) + 1
    BY <1>5, <2>1, FS_AddElement
  <2> QED
    BY <1>3, <1>4, <1>5, <1>7, <2>2
<1> QED
  BY <1>6, <1>7

LEMMA PoppedCalls ==
  ASSUME NEW s \in Seq(Frames), s # <<>>
  PROVE  /\ Front(s) \in Seq(Frames)
         /\ Cardinality(Calls(Front(s))) <= Cardinality(Calls(s))
         /\ \A k : Cardinality(Owing(Front(s), k)) <= Cardinality(Owing(s, k))
BY Popped, CallsAreFew, FS_Subset

(* A call goes on to another part of its own.                              *)
LEMMA ReplacedCalls ==
  ASSUME NEW s \in Seq(Frames), s # <<>>, Last(s).at # "script", NEW f \in Frames, f.at # "script"
  PROVE  LET t == Front(s) \o <<f>>
         IN  /\ t \in Seq(Frames) /\ Cardinality(Calls(t)) = Cardinality(Calls(s))
             /\ \A k : ~ Owes(f, k) => Cardinality(Owing(t, k)) <= Cardinality(Owing(s, k))
<1>1. PICK t \in Seq(Frames) : t = Front(s) \o <<f>> /\ t = [s EXCEPT ![Len(s)] = f]
  BY Replaced
<1>2. Calls(t) = Calls(s)
  BY <1>1, Replaced
<1>3. \A k : ~ Owes(f, k) => Owing(t, k) \subseteq Owing(s, k)
  <2>1. \A k : Owing(t, k) = (Owing(s, k) \ {Len(s)}) \cup (IF Owes(f, k) THEN {Len(s)} ELSE {})
    BY <1>1, Replaced
  <2> QED
    BY <2>1
<1>4. \A k : ~ Owes(f, k) => Cardinality(Owing(t, k)) <= Cardinality(Owing(s, k))
  BY <1>3, CallsAreFew, FS_Subset
<1> QED
  BY <1>1, <1>2, <1>4

(* The call on top runs the script of the button i.                        *)
LEMMA FiredCalls ==
  ASSUME NEW s \in Seq(Frames), s # <<>>, Last(s).at = "fire",
         NEW i \in Last(s).next .. Len(Buttons), i \in 1 .. Len(Buttons),
         Buttons[i] \notin Last(s).old, NEW f, f = [Last(s) EXCEPT !.next = i + 1]
  PROVE  LET t == [s EXCEPT ![Len(s)] = f]
         IN  /\ f \in Frames /\ t \in Seq(Frames) /\ Cardinality(Calls(t)) = Cardinality(Calls(s))
             /\ \A k : Cardinality(Owing(t, k)) <= Cardinality(Owing(s, k))
             /\ Cardinality(Owing(t, Buttons[i])) = Cardinality(Owing(s, Buttons[i])) - 1
<1> DEFINE top == Last(s)
<1>1. top \in Frames /\ top = s[Len(s)] /\ Len(s) \in DOMAIN s
  BY Popped
<1>2. /\ f \in Frames /\ f.at = "fire" /\ f.old = top.old /\ f.next = i + 1
      /\ top.next \in Nat /\ Len(Buttons) \in Nat
  <2>1. PICK g \in Frames : g = top
    BY <1>1
  <2>2. g.next \in Nat /\ Len(Buttons) \in Nat /\ i + 1 \in 1 .. (Len(Buttons) + 1)
    BY InputAssumption DEF Frames
  <2>3. f = [g EXCEPT !.next = i + 1] /\ g.at = "fire"
    BY <2>1
  <2>4. f \in Frames /\ f.at = "fire" /\ f.old = g.old /\ f.next = i + 1
    BY <2>2, <2>3 DEF Frames
  <2> QED
    BY <2>1, <2>2, <2>4
<1>3. PICK t \in Seq(Frames) : t = [s EXCEPT ![Len(s)] = f]
  BY <1>2, Replaced
<1>4. /\ Calls(t) = Calls(s)
      /\ \A k : Owing(t, k) = (Owing(s, k) \ {Len(s)}) \cup (IF Owes(f, k) THEN {Len(s)} ELSE {})
  BY <1>2, <1>3, Replaced
<1>5. \A k : Owes(f, k) => Owes(top, k)
  BY <1>2 DEF Owes
<1>6. \A k : Owes(top, k) <=> Len(s) \in Owing(s, k)
  BY <1>1 DEF Owing
<1>7. \A k : Owing(t, k) \subseteq Owing(s, k)
  BY <1>4, <1>5, <1>6
<1>8. Owes(top, Buttons[i]) /\ ~ Owes(f, Buttons[i])
  <2>1. Owes(top, Buttons[i])
    BY DEF Owes
  <2>2. \A j \in f.next .. Len(Buttons) : Buttons[j] # Buttons[i]
    BY <1>2, InputAssumption DEF IsInjective
  <2> QED
    BY <2>1, <2>2 DEF Owes
<1>9. Owing(t, Buttons[i]) = Owing(s, Buttons[i]) \ {Len(s)} /\ Len(s) \in Owing(s, Buttons[i])
  BY <1>4, <1>6, <1>8
<1>10. Cardinality(Owing(t, Buttons[i])) = Cardinality(Owing(s, Buttons[i])) - 1
  BY <1>9, CallsAreFew, FS_RemoveElement
<1>11. \A k : Cardinality(Owing(t, k)) <= Cardinality(Owing(s, k))
  BY <1>7, CallsAreFew, FS_Subset
<1> QED
  BY <1>2, <1>3, <1>4, <1>10, <1>11

LEMMA AccountedStarts == InputInit => Accounted
<1> SUFFICES ASSUME InputInit
             PROVE  Accounted
  OBVIOUS
<1>1. stack = <<>> /\ fired = [k \in Keys |-> 0] /\ MaxUpdates \in Nat
  BY InputAssumption DEF InputInit
<1>2. Calls(stack) = {} /\ \A k : Owing(stack, k) = {}
  BY <1>1 DEF Calls, Owing
<1>3. Cardinality({}) = 0
  BY FS_EmptySet
<1>4. fired \in [Keys -> Nat] /\ \A k \in Keys : fired[k] = 0
  BY <1>1
<1>5. Cardinality(Calls(stack)) = 0 /\ \A k : Cardinality(Owing(stack, k)) = 0
  BY <1>2, <1>3
<1> QED
  BY <1>1, <1>4, <1>5 DEF Accounted

LEMMA AccountedStep == RestOK /\ RestOK' /\ Accounted /\ [InputNext]_inputVars => Accounted'
<1> SUFFICES ASSUME RestOK, RestOK', Accounted, [InputNext]_inputVars
             PROVE  Accounted'
  OBVIOUS
<1>1. /\ stack \in Seq(Frames) /\ stack' \in Seq(Frames) /\ fired \in [Keys -> Nat]
      /\ MaxUpdates \in Nat \ {0} /\ Pressable \subseteq Keys
  BY InputAssumption DEF RestOK, Accounted, Pressable
<1>2. /\ Cardinality(Calls(stack)) \in Nat /\ Cardinality(Calls(stack)) <= MaxUpdates
      /\ \A k : Cardinality(Owing(stack, k)) \in Nat
      /\ \A k \in Keys : fired[k] \in Nat /\ (k \notin b => fired[k] = 0)
  BY <1>1, CallsAreFew DEF Accounted
<1>3. ASSUME UNCHANGED <<b, fired>>,
             Cardinality(Calls(stack')) <= MaxUpdates,
             \A k : Cardinality(Owing(stack', k)) <= Cardinality(Owing(stack, k))
      PROVE  Accounted'
  BY <1>1, <1>2, <1>3, FewerAccounted
<1>4. ASSUME UNCHANGED <<b, fired, stack>>
      PROVE  Accounted'
  BY <1>1, <1>2, <1>3, <1>4
<1>5. ASSUME NEW at \in {"script", "parse"}, stack' = Append(stack, Frame(at)), UNCHANGED <<b, fired>>,
             at = "script" \/ Cardinality(Calls(stack)) < MaxUpdates
      PROVE  Accounted'
  <2>1. /\ Cardinality(Calls(stack')) <= Cardinality(Calls(stack)) + (IF at = "script" THEN 0 ELSE 1)
        /\ \A k : Owing(stack', k) = Owing(stack, k)
    BY <1>1, <1>5, PushedCalls
  <2>2. Cardinality(Calls(stack')) \in Nat
    BY <1>1, CallsAreFew
  <2>3. Cardinality(Calls(stack')) <= MaxUpdates
    BY <1>1, <1>2, <1>5, <2>1, <2>2
  <2> QED
    BY <1>2, <1>3, <1>5, <2>1, <2>3
<1>6. ASSUME stack # <<>>, stack' = Front(stack), UNCHANGED <<b, fired>>
      PROVE  Accounted'
  <2>1. /\ Cardinality(Calls(stack')) <= Cardinality(Calls(stack)) /\ Cardinality(Calls(stack')) \in Nat
        /\ \A k : Cardinality(Owing(stack', k)) <= Cardinality(Owing(stack, k))
    BY <1>1, <1>6, PoppedCalls, CallsAreFew
  <2> QED
    BY <1>1, <1>2, <1>3, <1>6, <2>1
<1>7. ASSUME UNCHANGED stack, fired' \in [Keys -> Nat],
             \A k \in Keys : fired'[k] <= fired[k] /\ (k \notin b' => fired'[k] = 0)
      PROVE  Accounted'
  BY <1>1, <1>2, <1>7, FewerAccounted
<1>8. CASE UNCHANGED inputVars
  BY <1>4, <1>8 DEF inputVars, controls
<1>9. CASE \E k \in Keys : Press(k) \/ Release(k)
  BY <1>4, <1>9 DEF Press, Release, controls
<1>10. CASE EngineUpdates \/ CallUpdateControls
  <2>1. Cardinality(Calls(stack)) < MaxUpdates
    <3>1. CASE EngineUpdates
      <4>1. Calls(stack) = {}
        BY <3>1 DEF EngineUpdates, Calls
      <4> QED
        BY <1>1, <4>1, FS_EmptySet
    <3>2. CASE CallUpdateControls
      BY <3>2 DEF CallUpdateControls, Updates, Calls
    <3> QED
      BY <1>10, <3>1, <3>2
  <2>2. CASE killswitch
    <3>1. UNCHANGED stack /\ b' = {} /\ fired' = [k \in Keys |-> 0]
      BY <1>10, <2>2 DEF EngineUpdates, CallUpdateControls, UpdateControls, FiredAmong
    <3> QED
      BY <1>2, <1>7, <3>1
  <2>3. CASE ~ killswitch
    <3>1. stack' = Append(stack, Frame("parse")) /\ UNCHANGED <<b, fired>>
      BY <1>10, <2>3 DEF EngineUpdates, CallUpdateControls, UpdateControls, controls
    <3> QED
      BY <1>5, <2>1, <3>1
  <2> QED
    BY <2>2, <2>3
<1>11. CASE EngineRunsScript
  <2>1. stack' = Append(stack, Frame("script")) /\ UNCHANGED <<b, fired>>
    BY <1>11 DEF EngineRunsScript, controls
  <2> QED
    BY <1>5, <2>1
<1>12. CASE ParseKeyEvent
  <2>1. stack # <<>> /\ Last(stack).at = "parse" /\ UNCHANGED <<b, fired>>
    BY <1>12 DEF ParseKeyEvent
  <2>2. CASE stack' = Front(stack) \o <<Frame("read")>>
    <3>1. Frame("read") \in Frames /\ Frame("read").at = "read"
      BY NewFrame
    <3>2. \A k : ~ Owes(Frame("read"), k)
      BY <3>1 DEF Owes
    <3>3. /\ Cardinality(Calls(stack')) = Cardinality(Calls(stack))
          /\ \A k : Cardinality(Owing(stack', k)) <= Cardinality(Owing(stack, k))
      BY <1>1, <2>1, <2>2, <3>1, <3>2, ReplacedCalls
    <3> QED
      BY <1>2, <1>3, <2>1, <3>3
  <2>3. CASE stack' = stack \o <<Frame("script")>>
    <3>1. stack' = Append(stack, Frame("script"))
      BY <1>1, <2>3, NewFrame, Pushed
    <3> QED
      BY <1>5, <2>1, <3>1
  <2>4. CASE stack' = stack
    BY <1>4, <2>1, <2>4
  <2> QED
    BY <1>12, <2>2, <2>3, <2>4 DEF ParseKeyEvent
<1>13. CASE ReadButtons
  <2> DEFINE f == [at |-> "fire", old |-> b, next |-> 1]
  <2>1. /\ stack # <<>> /\ Last(stack).at = "read" /\ stack' = Front(stack) \o <<f>>
        /\ fired' = [k \in Keys |-> IF k \in b' THEN fired[k] ELSE 0]
    BY <1>13 DEF ReadButtons, FiredAmong
  <2>2. f \in Frames /\ f.at = "fire" /\ f.old = b
    BY NewFrame DEF RestOK
  <2> HIDE DEF f
  <2>3. \A k : Owes(f, k) => k \notin b
    BY <2>2 DEF Owes
  <2>4. /\ Cardinality(Calls(stack')) = Cardinality(Calls(stack))
        /\ \A k : ~ Owes(f, k) => Cardinality(Owing(stack', k)) <= Cardinality(Owing(stack, k))
    BY <1>1, <2>1, <2>2, ReplacedCalls
  <2>5. \A k \in Keys : fired'[k] # 0 => Cardinality(Owing(stack', k)) <= Cardinality(Owing(stack, k))
    BY <1>2, <2>1, <2>3, <2>4
  <2>6. fired' \in [Keys -> Nat] /\ \A k \in Keys : fired'[k] <= fired[k] /\ (k \notin b' => fired'[k] = 0)
    BY <1>2, <2>1
  <2> QED
    BY <1>1, <1>2, <2>4, <2>5, <2>6, FewerAccounted
<1>14. CASE FireButton
  <2>1. PICK i \in 1 .. Len(Buttons) :
          LET f == [Last(stack) EXCEPT !.next = i + 1]
          IN  /\ stack' = Append([stack EXCEPT ![Len(stack)] = f], Frame("script"))
              /\ i \in Last(stack).next .. Len(Buttons) /\ Buttons[i] \in b \ Last(stack).old
              /\ fired' = [fired EXCEPT ![Buttons[i]] = @ + 1]
    BY <1>1, <1>14, Fires
  <2>2. stack # <<>> /\ Last(stack).at = "fire" /\ UNCHANGED b
    BY <1>14 DEF FireButton
  <2>3. PICK f : f = [Last(stack) EXCEPT !.next = i + 1]
    OBVIOUS
  <2>4. PICK t : t = [stack EXCEPT ![Len(stack)] = f]
    OBVIOUS
  <2>5. /\ t \in Seq(Frames) /\ Cardinality(Calls(t)) = Cardinality(Calls(stack))
        /\ \A k : Cardinality(Owing(t, k)) <= Cardinality(Owing(stack, k))
        /\ Cardinality(Owing(t, Buttons[i])) = Cardinality(Owing(stack, Buttons[i])) - 1
    BY <1>1, <2>1, <2>2, <2>3, <2>4, FiredCalls, ZenonT(40)
  <2>6. /\ Cardinality(Calls(stack')) <= Cardinality(Calls(t)) + 0
        /\ \A k : Owing(stack', k) = Owing(t, k)
    BY <2>1, <2>3, <2>4, <2>5, PushedCalls
  <2>7. /\ Cardinality(Calls(stack')) \in Nat /\ Cardinality(Calls(t)) \in Nat
        /\ \A k : Cardinality(Owing(t, k)) \in Nat
    BY <1>1, <2>5, CallsAreFew
  <2>8. Buttons[i] \in Keys /\ Buttons[i] \in b
    BY <2>1, InputAssumption
  <2>9. ASSUME NEW k \in Keys
        PROVE  fired'[k] + Cardinality(Owing(t, k)) <= MaxUpdates
    <3>1. fired[k] + Cardinality(Owing(stack, k)) <= MaxUpdates
      BY DEF Accounted
    <3>2. CASE k = Buttons[i]
      BY <1>1, <1>2, <2>1, <2>5, <2>7, <3>1, <3>2
    <3>3. CASE k # Buttons[i]
      BY <1>1, <1>2, <2>1, <2>5, <2>7, <3>1, <3>3
    <3> QED
      BY <3>2, <3>3
  <2>10. fired' \in [Keys -> Nat] /\ \A k \in Keys : k \notin b' => fired'[k] = 0
    BY <1>1, <1>2, <2>1, <2>2, <2>8
  <2>11. Cardinality(Calls(stack')) <= MaxUpdates
    BY <1>1, <1>2, <2>5, <2>6, <2>7
  <2> QED
    BY <2>6, <2>9, <2>10, <2>11 DEF Accounted
<1>15. CASE UpdateReturns \/ ScriptReturns
  BY <1>6, <1>15 DEF UpdateReturns, ScriptReturns, InScript, controls
<1>16. CASE FlushKeyBuffer
  BY <1>4, <1>16 DEF FlushKeyBuffer, controls
<1>17. ASSUME NEW k \in Pressable, Unpress(k)
       PROVE  Accounted'
  <2>1. UNCHANGED stack /\ b' = b \ {k} /\ fired' = [fired EXCEPT ![k] = 0]
    BY <1>17 DEF Unpress
  <2> QED
    BY <1>1, <1>2, <1>7, <2>1
<1>18. CASE \E on \in BOOLEAN : SetInputKillSwitch(on)
  BY <1>4, <1>18 DEF SetInputKillSwitch, controls
<1> QED
  BY <1>8, <1>9, <1>10, <1>11, <1>12, <1>13, <1>14, <1>15, <1>16, <1>17, <1>18 DEF InputNext

(* However the calls of UpdateControls nest and whatever their scripts do  *)
(* to the buttons, a button that stays reported runs its script no more    *)
(* often than there were calls at once.                                    *)
THEOREM HeldButtonFiresFewTimes == InputSpec => []FiredByNestingOnly
<1>1. InputInit => Accounted
  BY AccountedStarts
<1>2. RestOK /\ RestOK' /\ Accounted /\ [InputNext]_inputVars => Accounted'
  BY AccountedStep
<1>3. InputKept => RestOK
  BY DEF InputKept
<1>4. InputKept /\ Accounted => FiredByNestingOnly
  <2> SUFFICES ASSUME InputKept, Accounted, NEW k \in Keys
               PROVE  fired[k] <= MaxUpdates
    BY DEF FiredByNestingOnly
  <2>1. Cardinality(Owing(stack, k)) \in Nat
    BY CallsAreFew DEF InputKept, RestOK
  <2>2. fired[k] \in Nat /\ fired[k] + Cardinality(Owing(stack, k)) <= MaxUpdates
    BY DEF Accounted
  <2> QED
    BY <2>1, <2>2, InputAssumption
<1> QED
  BY KeyboardIsKept, <1>1, <1>2, <1>3, <1>4, PTL DEF InputSpec

-----------------------------------------------------------------------------
(* Packets: where their fields and they themselves end.                    *)

(* Sums of natural numbers exist, and grow.                                *)
IsSum(c, D, w) == c[0] = 0 /\ \A n \in 1 .. D : c[n] = c[n - 1] + w[n]

LEMMA SumExists ==
  ASSUME NEW D \in Nat, NEW w \in [1 .. D -> Nat]
  PROVE  \E g \in [0 .. D -> Nat] : IsSum(g, D, w)
<1> DEFINE step == [n \in 1 .. D |-> [x \in Nat |-> x + w[n]]]
<1>1. \A n \in 1 .. D, x \in Nat : step[n][x] = x + w[n] /\ step[n][x] \in Nat
  OBVIOUS
<1> HIDE DEF step
<1>2. PICK g \in [0 .. D -> Nat] : Iterates(g, D, 0, step)
  BY <1>1, Recursion
<1>3. \A n \in 1 .. D : g[n - 1] \in Nat
  OBVIOUS
<1>4. IsSum(g, D, w)
  BY <1>1, <1>2, <1>3 DEF Iterates, IsSum
<1> QED
  BY <1>4

LEMMA SumGrows ==
  ASSUME NEW D \in Nat, NEW w \in [1 .. D -> Nat], NEW c, IsSum(c, D, w)
  PROVE  \A n \in 0 .. D : c[n] \in Nat /\ \A m \in 0 .. n : c[m] <= c[n]
<1> DEFINE S == {n \in 0 .. D : c[n] \in Nat /\ \A m \in 0 .. n : c[m] \in Nat /\ c[m] <= c[n]}
<1>1. 0 \in S
  BY DEF IsSum
<1>2. ASSUME NEW n \in 1 .. D, n - 1 \in S
      PROVE  n \in S
  <2>1. c[n - 1] \in Nat /\ \A m \in 0 .. n - 1 : c[m] \in Nat /\ c[m] <= c[n - 1]
    BY <1>2
  <2>2. c[n] = c[n - 1] + w[n] /\ w[n] \in Nat
    BY DEF IsSum
  <2>3. \A m \in 0 .. n : m = n \/ m \in 0 .. n - 1
    OBVIOUS
  <2>4. c[n] \in Nat /\ c[n - 1] <= c[n]
    BY <2>1, <2>2
  <2>5. \A m \in 0 .. n : c[m] \in Nat /\ c[m] <= c[n]
    BY <2>1, <2>3, <2>4
  <2> QED
    BY <2>4, <2>5
<1> HIDE DEF S
<1>3. \A n \in 0 .. D : n \in S
  <2>1. \A n \in 1 .. D : n - 1 \in S => n \in S
    BY <1>2
  <2> QED
    BY <1>1, <2>1, Induction
<1> QED
  BY <1>3 DEF S

LEMMA Peers == \A e \in Ends : Peer(e) \in Ends /\ Peer(e) # e /\ Peer(Peer(e)) = e
<1>1. PICK c \in Ends, s \in Ends : c # s /\ Ends = {c, s}
  BY NetworkAssumption
<1>2. \A e \in Ends : \E d \in Ends : d # e
  BY <1>1
<1>3. \A e \in Ends : Peer(e) \in Ends /\ Peer(e) # e
  BY <1>2 DEF Peer
<1> QED
  BY <1>1, <1>3

LastField(e, n) == Len(Fields(Protocol[e][n].kind))
FieldWidth(e, n, f) == Width(Protocol[e][n], Fields(Protocol[e][n].kind)[f])

(* A packet has one field or more, and the first is never empty.           *)
LEMMA PacketFields ==
  ASSUME NEW e \in Ends, NEW n \in DOMAIN Protocol[e]
  PROVE  /\ Protocol[e][n] \in Packet /\ Protocol[e][n].kind \in Kinds
         /\ LastField(e, n) \in 1 .. 4
         /\ \A f \in 1 .. LastField(e, n) : FieldWidth(e, n, f) \in Nat
         /\ FieldWidth(e, n, 1) > 0
<1>1. PICK p \in Packet : p = Protocol[e][n]
  BY NetworkAssumption
<1>2. /\ p.kind \in Kinds /\ p.chars \in Nat /\ p.body \in Nat
      /\ p.kind = "raw" => p.chars > 0
  BY DEF Packet
<1>3. IntWidth \in Nat \ {0} /\ LenWidth \in Nat \ {0}
  BY NetworkAssumption
<1>4. \A field : Width(p, field) \in Nat
  BY <1>2, <1>3 DEF Width
<1>5. Len(Fields(p.kind)) \in 1 .. 4
  BY <1>2 DEF Fields, Kinds
<1>6. Width(p, Fields(p.kind)[1]) > 0
  BY <1>2, <1>3 DEF Fields, Kinds, Width
<1> QED
  BY <1>1, <1>2, <1>4, <1>5, <1>6 DEF LastField, FieldWidth

(* The fields of a packet follow each other, and the last ends with it.    *)
LEMMA FieldEnds ==
  ASSUME NEW e \in Ends, NEW n \in DOMAIN Protocol[e]
  PROVE  /\ FieldEnd[e][n][0] = 0
         /\ \A f \in 1 .. LastField(e, n) :
              FieldEnd[e][n][f] = FieldEnd[e][n][f - 1] + FieldWidth(e, n, f)
         /\ \A f \in 0 .. LastField(e, n) :
              FieldEnd[e][n][f] \in Nat /\ FieldEnd[e][n][f] <= Size[e][n]
         /\ \A f \in 1 .. LastField(e, n) : FieldEnd[e][n][f] > 0
         /\ Size[e][n] = FieldEnd[e][n][LastField(e, n)] /\ Size[e][n] \in Nat \ {0}
<1> DEFINE D == LastField(e, n)
           w == [f \in 1 .. D |-> FieldWidth(e, n, f)]
           IsEnd(g) == g = [f \in 0 .. D |-> IF f = 0 THEN 0 ELSE g[f - 1] + FieldWidth(e, n, f)]
           c == CHOOSE g : IsEnd(g)
<1>1. FieldEnd[e][n] = c
  BY DEF FieldEnd, LastField, FieldWidth
<1>2. /\ D \in 1 .. 4 /\ w \in [1 .. D -> Nat]
      /\ FieldWidth(e, n, 1) \in Nat /\ FieldWidth(e, n, 1) > 0
  BY PacketFields
<1>3. Size[e][n] = c[D]
  BY <1>1 DEF Size, LastField
<1> HIDE DEF D
<1>4. \A f \in 1 .. D : w[f] = FieldWidth(e, n, f)
  OBVIOUS
<1> HIDE DEF w
<1>5. \E g : IsEnd(g)
  <2>1. PICK g \in [0 .. D -> Nat] : IsSum(g, D, w)
    <3>1. D \in Nat
      BY <1>2
    <3> QED
      BY <1>2, <3>1, SumExists
  <2>2. \A f \in 0 .. D : f # 0 => f \in 1 .. D
    BY <1>2
  <2>3. \A f \in 0 .. D : g[f] = IF f = 0 THEN 0 ELSE g[f - 1] + FieldWidth(e, n, f)
    BY <1>4, <2>1, <2>2 DEF IsSum
  <2>4. IsEnd(g)
    BY <2>3
  <2> QED
    BY <2>4
<1>6. IsEnd(c)
  BY <1>5
<1> HIDE DEF c
<1>7. c[0] = 0 /\ \A f \in 1 .. D : c[f] = c[f - 1] + FieldWidth(e, n, f)
  BY <1>2, <1>6
<1>8. IsSum(c, D, w)
  BY <1>4, <1>7 DEF IsSum
<1>9. \A f \in 0 .. D : c[f] \in Nat /\ \A g \in 0 .. f : c[g] <= c[f]
  BY <1>2, <1>8, SumGrows
<1>10. /\ D \in 0 .. D /\ 1 \in 0 .. D /\ 1 \in 1 .. D /\ 1 - 1 = 0
  BY <1>2
<1>11. c[1] > 0
  <2>1. c[1] = c[0] + FieldWidth(e, n, 1)
    BY <1>7, <1>10
  <2> QED
    BY <1>2, <1>7, <2>1
<1>12. c[D] \in Nat \ {0} /\ \A f \in 0 .. D : c[f] <= c[D]
  BY <1>9, <1>10, <1>11
<1>13. ASSUME NEW f \in 1 .. D
       PROVE  c[f] > 0
  <2>1. f \in 0 .. D /\ 1 \in 0 .. f
    BY <1>2
  <2>2. c[1] <= c[f] /\ c[f] \in Nat /\ c[1] \in Nat
    BY <1>9, <1>10, <2>1
  <2> QED
    BY <1>11, <2>2
<1> QED
  BY <1>1, <1>3, <1>7, <1>9, <1>12, <1>13 DEF D

(* The packets of an end follow each other in its stream.                  *)
LEMMA PacketEnds ==
  ASSUME NEW e \in Ends
  PROVE  /\ Len(Protocol[e]) \in Nat /\ DOMAIN Protocol[e] = 1 .. Len(Protocol[e])
         /\ PacketEnd[e][0] = 0
         /\ \A n \in 1 .. Len(Protocol[e]) : PacketEnd[e][n] = PacketEnd[e][n - 1] + Size[e][n]
         /\ \A n \in 0 .. Len(Protocol[e]) :
              PacketEnd[e][n] \in Nat /\ \A m \in 0 .. n : PacketEnd[e][m] <= PacketEnd[e][n]
<1> DEFINE D == Len(Protocol[e])
           w == [n \in 1 .. D |-> Size[e][n]]
           IsEnd(g) == g = [n \in 0 .. D |-> IF n = 0 THEN 0 ELSE g[n - 1] + Size[e][n]]
           c == CHOOSE g : IsEnd(g)
<1>1. PacketEnd[e] = c
  BY DEF PacketEnd
<1>2. D \in Nat /\ DOMAIN Protocol[e] = 1 .. D
  BY NetworkAssumption
<1> HIDE DEF D
<1>3. w \in [1 .. D -> Nat]
  BY <1>2, FieldEnds
<1>4. \A n \in 1 .. D : w[n] = Size[e][n]
  OBVIOUS
<1> HIDE DEF w
<1>5. \E g : IsEnd(g)
  <2>1. PICK g \in [0 .. D -> Nat] : IsSum(g, D, w)
    BY <1>2, <1>3, SumExists
  <2>2. \A n \in 0 .. D : n # 0 => n \in 1 .. D
    BY <1>2
  <2>3. \A n \in 0 .. D : g[n] = IF n = 0 THEN 0 ELSE g[n - 1] + Size[e][n]
    BY <1>4, <2>1, <2>2 DEF IsSum
  <2>4. IsEnd(g)
    BY <2>3
  <2> QED
    BY <2>4
<1>6. IsEnd(c)
  BY <1>5
<1> HIDE DEF c
<1>7. c[0] = 0 /\ \A n \in 1 .. D : c[n] = c[n - 1] + Size[e][n]
  BY <1>2, <1>6
<1>8. IsSum(c, D, w)
  BY <1>4, <1>7 DEF IsSum
<1>9. \A n \in 0 .. D : c[n] \in Nat /\ \A m \in 0 .. n : c[m] <= c[n]
  BY <1>2, <1>3, <1>8, SumGrows
<1> QED
  BY <1>1, <1>2, <1>7, <1>9 DEF D

ByteSet == Nat \X Nat

(* A packet is a string of bytes, as long as its fields.                   *)
LEMMA PacketBytes ==
  ASSUME NEW e \in Ends, NEW n \in DOMAIN Protocol[e]
  PROVE  /\ Bytes[e][n] \in Seq(ByteSet) /\ Len(Bytes[e][n]) = Size[e][n]
         /\ \A k \in 1 .. Size[e][n] : Bytes[e][n][k] = <<n, k>>
<1>1. n \in Nat /\ Size[e][n] \in Nat
  BY PacketEnds, FieldEnds
<1>2. Bytes[e][n] = [k \in 1 .. Size[e][n] |-> <<n, k>>]
  BY DEF Bytes
<1> QED
  BY <1>1, <1>2, SMTT(30) DEF ByteSet

(* The k-th byte of the n-th packet is in its place.                       *)
LEMMA StreamBytes ==
  ASSUME NEW e \in Ends
  PROVE  /\ AllBytes[e] \in Seq(ByteSet)
         /\ Len(AllBytes[e]) = PacketEnd[e][Len(Protocol[e])]
         /\ \A n \in 1 .. Len(Protocol[e]) : \A k \in 1 .. Size[e][n] :
              AllBytes[e][PacketEnd[e][n - 1] + k] = <<n, k>>
<1> DEFINE D == Len(Protocol[e])
           X == Seq(ByteSet)
           IsUpto(g) == g = [n \in 0 .. D |-> IF n = 0 THEN <<>> ELSE g[n - 1] \o Bytes[e][n]]
           step == [n \in 1 .. D |-> [x \in X |-> x \o Bytes[e][n]]]
           c == CHOOSE g : IsUpto(g)
           end == PacketEnd[e]
<1>1. AllBytes[e] = c[D]
  BY DEF AllBytes
<1>2. /\ D \in Nat /\ \A n \in 1 .. D : n \in DOMAIN Protocol[e]
      /\ end[0] = 0 /\ \A n \in 1 .. D : end[n] = end[n - 1] + Size[e][n]
      /\ \A n \in 0 .. D : end[n] \in Nat /\ \A m \in 0 .. n : end[m] <= end[n]
  BY PacketEnds
<1>3. \A n \in 1 .. D : /\ Bytes[e][n] \in X /\ Len(Bytes[e][n]) = Size[e][n] /\ Size[e][n] \in Nat
                        /\ \A k \in 1 .. Size[e][n] : Bytes[e][n][k] = <<n, k>>
  BY <1>2, PacketBytes, FieldEnds
<1> HIDE DEF D, X, end
<1>4. \A n \in 1 .. D, x \in X : step[n][x] = x \o Bytes[e][n] /\ step[n][x] \in X
  BY <1>3 DEF X
<1> HIDE DEF step
<1>5. \E g : IsUpto(g)
  <2>1. <<>> \in X
    BY EmptySeq DEF X
  <2>2. PICK g \in [0 .. D -> X] : Iterates(g, D, <<>>, step)
    BY <1>2, <1>4, <2>1, Recursion
  <2>3. \A n \in 1 .. D : g[n] = g[n - 1] \o Bytes[e][n]
    <3>1. \A n \in 1 .. D : g[n] = step[n][g[n - 1]]
      BY <2>2 DEF Iterates
    <3>2. \A n \in 1 .. D : g[n - 1] \in X
      BY <1>2, <2>2
    <3> QED
      BY <1>4, <3>1, <3>2
  <2>4. \A n \in 0 .. D : n # 0 => n \in 1 .. D
    BY <1>2
  <2>5. \A n \in 0 .. D : g[n] = IF n = 0 THEN <<>> ELSE g[n - 1] \o Bytes[e][n]
    BY <2>2, <2>3, <2>4 DEF Iterates
  <2>6. IsUpto(g)
    BY <2>5
  <2> QED
    BY <2>6
<1>6. IsUpto(c)
  BY <1>5
<1> HIDE DEF c
<1>7. c[0] = <<>> /\ \A n \in 1 .. D : c[n] = c[n - 1] \o Bytes[e][n]
  <2>1. \A n \in 0 .. D : c[n] = IF n = 0 THEN <<>> ELSE c[n - 1] \o Bytes[e][n]
    BY <1>6
  <2>2. 0 \in 0 .. D /\ \A n \in 1 .. D : n \in 0 .. D /\ n # 0
    BY <1>2
  <2> HIDE DEF IsUpto
  <2> QED
    BY <2>1, <2>2
<1> DEFINE InPlace(n) == /\ c[n] \in X /\ Len(c[n]) = end[n]
                         /\ \A m \in 1 .. n : \A k \in 1 .. Size[e][m] : c[n][end[m - 1] + k] = <<m, k>>
           S == {n \in 0 .. D : InPlace(n)}
<1>8. 0 \in S
  <2>1. c[0] \in X /\ Len(c[0]) = end[0]
    BY <1>2, <1>7, EmptySeq DEF X
  <2>2. 0 \in 0 .. D /\ \A m : m \notin 1 .. 0
    BY <1>2
  <2> QED
    BY <2>1, <2>2
<1>9. ASSUME NEW n \in 1 .. D, n - 1 \in S
      PROVE  n \in S
  <2>1. /\ c[n - 1] \in X /\ Len(c[n - 1]) = end[n - 1]
        /\ \A m \in 1 .. n - 1 : \A k \in 1 .. Size[e][m] : c[n - 1][end[m - 1] + k] = <<m, k>>
    BY <1>9
  <2>2. PICK x \in X, y \in X : x = c[n - 1] /\ y = Bytes[e][n]
    BY <1>3, <2>1
  <2>3. c[n] = x \o y
    BY <1>7, <2>2
  <2>4. Len(y) = Size[e][n] /\ Size[e][n] \in Nat /\ end[n] = end[n - 1] + Size[e][n] /\ end[n - 1] \in Nat
    <3>1. n - 1 \in 0 .. D
      BY <1>2
    <3> QED
      BY <1>2, <1>3, <2>2, <3>1
  <2>5. /\ x \o y \in X /\ Len(x \o y) = Len(x) + Len(y)
        /\ \A i \in 1 .. Len(x) : (x \o y)[i] = x[i]
        /\ \A i \in 1 .. Len(y) : (x \o y)[Len(x) + i] = y[i]
    <3>1. /\ x \o y \in X /\ Len(x \o y) = Len(x) + Len(y) /\ Len(x) \in Nat /\ Len(y) \in Nat
          /\ \A i \in 1 .. Len(x) + Len(y) : (x \o y)[i] = IF i <= Len(x) THEN x[i] ELSE y[i - Len(x)]
      BY ConcatProperties, LenProperties DEF X
    <3>2. \A i \in 1 .. Len(x) : i \in 1 .. Len(x) + Len(y) /\ i <= Len(x)
      BY <3>1
    <3>3. \A i \in 1 .. Len(y) : /\ Len(x) + i \in 1 .. Len(x) + Len(y) /\ ~ (Len(x) + i <= Len(x))
                                 /\ Len(x) + i - Len(x) = i
      BY <3>1
    <3> QED
      BY <3>1, <3>2, <3>3
  <2>6. ASSUME NEW m \in 1 .. n, NEW k \in 1 .. Size[e][m]
        PROVE  c[n][end[m - 1] + k] = <<m, k>>
    <3>1. CASE m = n
      BY <1>3, <2>1, <2>2, <2>3, <2>4, <2>5, <3>1, ZenonT(40)
    <3>2. CASE m # n
      <4>1. m \in 1 .. n - 1 /\ m \in 1 .. D /\ m - 1 \in 0 .. D /\ m \in 0 .. n - 1 /\ n - 1 \in 0 .. D
        BY <1>2, <3>2
      <4>2. end[m - 1] + k \in 1 .. end[n - 1]
        BY <1>2, <1>3, <4>1
      <4>3. x[end[m - 1] + k] = <<m, k>>
        BY <2>1, <2>2, <4>1
      <4> QED
        BY <2>1, <2>2, <2>3, <2>5, <4>2, <4>3
    <3> QED
      BY <3>1, <3>2
  <2>7. c[n] \in X /\ Len(c[n]) = end[n]
    BY <2>1, <2>2, <2>3, <2>4, <2>5
  <2>8. n \in 0 .. D
    BY <1>2
  <2> QED
    BY <2>6, <2>7, <2>8
<1> HIDE DEF S
<1>10. D \in S
  <2>1. \A n \in 1 .. D : n - 1 \in S => n \in S
    BY <1>9
  <2>2. \A n \in 0 .. D : n \in S
    BY <1>2, <1>8, <2>1, Induction
  <2> QED
    BY <1>2, <2>2
<1>11. InPlace(D)
  BY <1>10 DEF S
<1> QED
  BY <1>1, <1>11 DEF D, X, end

-----------------------------------------------------------------------------
(* Pieces of sequences.                                                    *)

(* A string is its first k bytes and the rest.                             *)
LEMMA Pieces ==
  ASSUME NEW T, NEW s \in Seq(T), NEW k \in 0 .. Len(s)
  PROVE  /\ SubSeq(s, 1, k) \in Seq(T) /\ Len(SubSeq(s, 1, k)) = k
         /\ SubSeq(s, k + 1, Len(s)) \in Seq(T) /\ Len(SubSeq(s, k + 1, Len(s))) = Len(s) - k
         /\ SubSeq(s, 1, k) \o SubSeq(s, k + 1, Len(s)) = s
<1>1. PICK L \in Nat : L = Len(s)
  BY LenProperties
<1>2. \A i \in 1 .. L : s[i] \in T
  BY <1>1, ElementOfSeq
<1>3. /\ SubSeq(s, 1, k) \in Seq(T)
      /\ Len(SubSeq(s, 1, k)) = IF 1 <= k THEN k - 1 + 1 ELSE 0
  <2>1. k \in Int /\ \A i \in 1 .. k : s[i] \in T
    BY <1>1, <1>2
  <2> QED
    BY <2>1, SubSeqProperties
<1>4. /\ SubSeq(s, k + 1, L) \in Seq(T)
      /\ Len(SubSeq(s, k + 1, L)) = IF k + 1 <= L THEN L - (k + 1) + 1 ELSE 0
  <2>1. k + 1 \in Int /\ L \in Int /\ \A i \in k + 1 .. L : s[i] \in T
    BY <1>1, <1>2
  <2> QED
    BY <2>1, SubSeqProperties
<1>5. SubSeq(s, 1, k) \o SubSeq(s, k + 1, L) = s
  <2>1. 1 \in 1 .. L + 1 /\ k \in 1 - 1 .. L /\ L \in k .. L
    BY <1>1
  <2>2. SubSeq(s, 1, k) \o SubSeq(s, k + 1, L) = SubSeq(s, 1, L)
    BY <1>1, <2>1, ConcatAdjacentSubSeq
  <2> QED
    BY <1>1, <2>2, SubSeqFull
<1>6. /\ (IF 1 <= k THEN k - 1 + 1 ELSE 0) = k
      /\ (IF k + 1 <= L THEN L - (k + 1) + 1 ELSE 0) = L - k
  BY <1>1
<1>7. Len(SubSeq(s, 1, k)) = k /\ Len(SubSeq(s, k + 1, L)) = L - k
  BY <1>3, <1>4, <1>6
<1> QED
  BY <1>1, <1>3, <1>4, <1>5, <1>7

(* A part of a sequence, and what it is made of.                           *)
LEMMA Part ==
  ASSUME NEW T, NEW s \in Seq(T), NEW a \in 0 .. Len(s), NEW hi \in a .. Len(s)
  PROVE  /\ SubSeq(s, a + 1, hi) \in Seq(T) /\ Len(SubSeq(s, a + 1, hi)) = hi - a
         /\ \A i \in 1 .. hi - a : SubSeq(s, a + 1, hi)[i] = s[a + i]
<1>1. PICK L \in Nat : L = Len(s)
  BY LenProperties
<1>2. a + 1 \in Int /\ hi \in Int /\ \A i \in a + 1 .. hi : s[i] \in T
  BY <1>1, ElementOfSeq
<1>3. /\ SubSeq(s, a + 1, hi) \in Seq(T)
      /\ Len(SubSeq(s, a + 1, hi)) = IF a + 1 <= hi THEN hi - (a + 1) + 1 ELSE 0
      /\ \A i \in 1 .. hi - (a + 1) + 1 : SubSeq(s, a + 1, hi)[i] = s[a + 1 + i - 1]
  BY <1>2, SubSeqProperties
<1>4. /\ hi - (a + 1) + 1 = hi - a /\ (IF a + 1 <= hi THEN hi - (a + 1) + 1 ELSE 0) = hi - a
      /\ \A i \in 1 .. hi - a : a + 1 + i - 1 = a + i
  BY <1>1
<1> QED
  BY <1>3, <1>4

(* Two pieces that make up a part of s, and where each of them is.         *)
MakeUp(x, y, s, a, hi) ==
  /\ s \in Seq(ByteSet) /\ x \in Seq(ByteSet) /\ y \in Seq(ByteSet)
  /\ a \in 0 .. Len(s) /\ hi \in a .. Len(s) /\ x \o y = SubSeq(s, a + 1, hi)
CutAt(x, y, s, a, hi) ==
  a + Len(x) <= hi /\ x = SubSeq(s, a + 1, a + Len(x)) /\ y = SubSeq(s, a + Len(x) + 1, hi)

(* The second of two strings starts after the last byte of the first.        *)
LEMMA SecondString ==
  ASSUME NEW x \in Seq(ByteSet), NEW y \in Seq(ByteSet)
  PROVE  \A i \in 1 .. Len(y) : (x \o y)[Len(x) + i] = y[i]
<1> SUFFICES ASSUME NEW i \in 1 .. Len(y)
             PROVE  (x \o y)[Len(x) + i] = y[i]
  OBVIOUS
<1>1. Len(x) \in Nat /\ Len(y) \in Nat
  BY LenProperties
<1>2. PICK j \in 1 .. Len(x) + Len(y) : j = Len(x) + i /\ ~ (j <= Len(x)) /\ j - Len(x) = i
  BY <1>1, SMTT(30)
<1>3. (x \o y)[j] = IF j <= Len(x) THEN x[j] ELSE y[j - Len(x)]
  BY <1>2, ConcatProperties
<1>4. (x \o y)[j] = y[j - Len(x)]
  BY <1>2, <1>3, Zenon
<1> QED
  BY <1>2, <1>4, Zenon

(* Where two strings that make up a part of s meet, they cut it.           *)
LEMMA BytesCut ==
  \A x, y, s, a, hi : MakeUp(x, y, s, a, hi) => CutAt(x, y, s, a, hi)
<1> SUFFICES ASSUME NEW s \in Seq(ByteSet), NEW a \in 0 .. Len(s), NEW hi \in a .. Len(s),
                    NEW x \in Seq(ByteSet), NEW y \in Seq(ByteSet), x \o y = SubSeq(s, a + 1, hi)
             PROVE  CutAt(x, y, s, a, hi)
  BY Zenon DEF MakeUp
<1>1. PICK L \in Nat, m \in Nat, n \in Nat : L = Len(s) /\ m = Len(x) /\ n = Len(y)
  BY LenProperties
<1>2. /\ Len(x \o y) = m + n
      /\ \A i \in 1 .. m + n : (x \o y)[i] = IF i <= m THEN x[i] ELSE y[i - m]
  BY <1>1, ConcatProperties
<1>3. m + n = hi - a /\ \A i \in 1 .. hi - a : (x \o y)[i] = s[a + i]
  <2>1. /\ Len(SubSeq(s, a + 1, hi)) = hi - a
        /\ \A i \in 1 .. hi - a : SubSeq(s, a + 1, hi)[i] = s[a + i]
    BY Part, Zenon
  <2> QED
    BY <1>2, <2>1, Zenon
<1>4. a + m \in a .. hi /\ a + m \in 0 .. L /\ a + m \in a .. L /\ hi \in a + m .. L /\ n = hi - (a + m)
  BY <1>1, <1>3
<1>5. x = SubSeq(s, a + 1, a + m)
  <2>1. /\ SubSeq(s, a + 1, a + m) \in Seq(ByteSet) /\ Len(SubSeq(s, a + 1, a + m)) = a + m - a
        /\ \A i \in 1 .. a + m - a : SubSeq(s, a + 1, a + m)[i] = s[a + i]
    BY <1>1, <1>4, Part
  <2>2. a + m - a = m
    BY <1>1
  <2>3. \A i \in 1 .. m : i \in 1 .. m + n /\ i \in 1 .. hi - a /\ i <= m
    BY <1>3
  <2>4. \A i \in 1 .. m : x[i] = SubSeq(s, a + 1, a + m)[i]
    BY <1>2, <1>3, <2>1, <2>2, <2>3
  <2> QED
    BY <1>1, <2>1, <2>2, <2>4, SeqEqual
<1>6. y = SubSeq(s, a + m + 1, hi)
  <2>1. /\ SubSeq(s, a + m + 1, hi) \in Seq(ByteSet) /\ Len(SubSeq(s, a + m + 1, hi)) = hi - (a + m)
        /\ \A i \in 1 .. hi - (a + m) : SubSeq(s, a + m + 1, hi)[i] = s[a + m + i]
    BY <1>1, <1>4, Part, ZenonT(40)
  <2>2. \A i \in 1 .. n : m + i \in 1 .. hi - a /\ a + (m + i) = a + m + i
    BY <1>3
  <2>3. \A i \in 1 .. n : y[i] = SubSeq(s, a + m + 1, hi)[i]
    <3>1. ASSUME NEW i \in 1 .. n
          PROVE  y[i] = s[a + m + i]
      <4>1. m + i \in 1 .. hi - a /\ a + (m + i) = a + m + i
        BY <2>2, Zenon
      <4>2. (x \o y)[m + i] = y[i]
        BY <1>1, SecondString, Zenon
      <4>3. (x \o y)[m + i] = s[a + (m + i)]
        BY <1>3, <4>1, Zenon
      <4> QED
        BY <4>1, <4>2, <4>3, Zenon
    <3> QED
      BY <1>4, <2>1, <3>1
  <2> QED
    BY <1>1, <1>4, <2>1, <2>3, SeqEqual
<1>7. a + m <= hi /\ n = hi - (a + m)
  BY <1>1, <1>4
<1> QED
  BY <1>1, <1>5, <1>6, <1>7 DEF CutAt

(* A part of a packet is the part of the stream where the packet is.       *)
LEMMA PacketPart ==
  ASSUME NEW e \in Ends, NEW n \in DOMAIN Protocol[e],
         NEW a \in 0 .. Size[e][n], NEW hi \in a .. Size[e][n]
  PROVE  LET p == PacketEnd[e][n - 1]
         IN  /\ p + a \in 0 .. Len(AllBytes[e]) /\ p + hi \in p + a .. Len(AllBytes[e])
             /\ SubSeq(AllBytes[e], p + a + 1, p + hi) = SubSeq(Bytes[e][n], a + 1, hi)
<1>1. n \in 1 .. Len(Protocol[e]) /\ n \in Nat /\ Len(Protocol[e]) \in Nat /\ Size[e][n] \in Nat
  BY PacketEnds, FieldEnds
<1>2. n - 1 \in 0 .. Len(Protocol[e]) /\ n \in 0 .. Len(Protocol[e])
      /\ Len(Protocol[e]) \in 0 .. Len(Protocol[e])
  BY <1>1
<1>3. PICK p \in Nat, L \in Nat : p = PacketEnd[e][n - 1] /\ L = Len(AllBytes[e])
  BY <1>2, PacketEnds, StreamBytes
<1>4. PacketEnd[e][n] = p + Size[e][n] /\ PacketEnd[e][n] <= L
  BY <1>1, <1>2, <1>3, PacketEnds, StreamBytes
<1>5. p + a \in 0 .. L /\ p + hi \in p + a .. L /\ p + hi - (p + a) = hi - a
  <2>1. PICK z \in Nat : z = Size[e][n] /\ p + z <= L
    BY <1>1, <1>4
  <2>2. a \in 0 .. z /\ hi \in a .. z
    BY <2>1
  <2>3. a \in Nat /\ hi \in Nat /\ a <= hi /\ hi <= z
    BY <2>2
  <2>4. p + hi <= L
    BY <2>1, <2>3
  <2> QED
    BY <2>3, <2>4
<1>6. /\ SubSeq(AllBytes[e], p + a + 1, p + hi) \in Seq(ByteSet)
      /\ Len(SubSeq(AllBytes[e], p + a + 1, p + hi)) = hi - a
      /\ \A i \in 1 .. hi - a : SubSeq(AllBytes[e], p + a + 1, p + hi)[i] = AllBytes[e][p + a + i]
  <2>1. AllBytes[e] \in Seq(ByteSet)
    BY StreamBytes
  <2>2. PICK x \in 0 .. L : x = p + a
    BY <1>5
  <2>9. PICK y \in x .. L : y = p + hi
    BY <1>5, <2>2
  <2>3. /\ SubSeq(AllBytes[e], x + 1, y) \in Seq(ByteSet)
        /\ Len(SubSeq(AllBytes[e], x + 1, y)) = y - x
        /\ \A i \in 1 .. y - x : SubSeq(AllBytes[e], x + 1, y)[i] = AllBytes[e][x + i]
    BY <1>3, <2>1, Part
  <2> QED
    BY <1>5, <2>2, <2>9, <2>3
<1>7. /\ SubSeq(Bytes[e][n], a + 1, hi) \in Seq(ByteSet)
      /\ Len(SubSeq(Bytes[e][n], a + 1, hi)) = hi - a
      /\ \A i \in 1 .. hi - a : SubSeq(Bytes[e][n], a + 1, hi)[i] = Bytes[e][n][a + i]
  <2>1. Bytes[e][n] \in Seq(ByteSet) /\ a \in 0 .. Len(Bytes[e][n]) /\ hi \in a .. Len(Bytes[e][n])
    BY PacketBytes
  <2> QED
    BY <2>1, Part
<1>8. \A i \in 1 .. hi - a : AllBytes[e][p + a + i] = Bytes[e][n][a + i]
  <2>1. \A i \in 1 .. hi - a : a + i \in 1 .. Size[e][n] /\ p + (a + i) = p + a + i
    BY <1>1, <1>3, SMTT(30)
  <2>2. \A k \in 1 .. Size[e][n] : AllBytes[e][p + k] = <<n, k>> /\ Bytes[e][n][k] = <<n, k>>
    BY <1>1, <1>3, StreamBytes, PacketBytes
  <2> QED
    BY <2>1, <2>2
<1>9. SubSeq(AllBytes[e], p + a + 1, p + hi) = SubSeq(Bytes[e][n], a + 1, hi)
  <2>1. PICK x \in Seq(ByteSet), y \in Seq(ByteSet) :
          x = SubSeq(AllBytes[e], p + a + 1, p + hi) /\ y = SubSeq(Bytes[e][n], a + 1, hi)
    BY <1>6, <1>7
  <2>2. Len(x) = hi - a /\ Len(y) = hi - a /\ \A i \in 1 .. hi - a : x[i] = y[i]
    BY <1>6, <1>7, <1>8, <2>1
  <2> QED
    BY <2>1, <2>2, SeqEqual
<1> QED
  BY <1>3, <1>5, <1>9

-----------------------------------------------------------------------------
(* The jobs of scripts.                                                    *)

Jobs == [op : {"idle", "send", "get", "poll"}, field : 0 .. 4, need : Nat, rx : Seq(ByteSet)]

SocketsOK ==
  /\ job \in [Ends -> Jobs] /\ sent \in [Ends -> Nat] /\ got \in [Ends -> Seq(Nat)]
  /\ out \in [Ends -> Seq(ByteSet)] /\ inbox \in [Ends -> Seq(ByteSet)]
  /\ blocking \in [Ends -> BOOLEAN] /\ broken \in BOOLEAN
  /\ closed \subseteq Ends /\ torn \subseteq Ends /\ failed \subseteq closed
  /\ \A e \in Ends : Len(out[e]) <= Space /\ Len(inbox[e]) <= Window

NeedOK(w) == w \in Nat /\ \E l \in Lengths : w <= l

(* A script in the middle of a packet is in one of its fields, and the     *)
(* socket of one that is done may be closed.                               *)
JobOK(e) ==
  /\ NeedOK(job[e].need) /\ sent[e] <= Len(Protocol[e])
  /\ job[e].op = "send" =>
       /\ sent[e] < Len(Protocol[e]) /\ job[e].field \in 1 .. LastField(e, sent[e] + 1)
       /\ job[e].need <= FieldWidth(e, sent[e] + 1, job[e].field)
  /\ job[e].op = "get" =>
       /\ Len(got[e]) < Len(Protocol[Peer(e)])
       /\ job[e].field \in 1 .. LastField(Peer(e), Len(got[e]) + 1)
  /\ e \in closed => job[e].op = "idle"

(* The bytes of a field, and that a script may ask for so many.            *)
LEMMA FieldBytesAre ==
  ASSUME NEW e \in Ends, NEW n \in DOMAIN Protocol[e], NEW f \in 1 .. LastField(e, n)
  PROVE  /\ FieldBytes(e, n, f) \in Seq(ByteSet) /\ Len(FieldBytes(e, n, f)) = FieldWidth(e, n, f)
         /\ FieldWidth(e, n, f) \in Nat /\ NeedOK(FieldWidth(e, n, f))
<1>1. LastField(e, n) \in 1 .. 4 /\ FieldWidth(e, n, f) \in Nat
  BY PacketFields
<1>2. f - 1 \in 0 .. LastField(e, n) /\ f \in 0 .. LastField(e, n)
  BY <1>1
<1>3. PICK a \in Nat, hi \in Nat, z \in Nat :
        /\ a = FieldEnd[e][n][f - 1] /\ hi = FieldEnd[e][n][f] /\ z = Size[e][n]
        /\ hi = a + FieldWidth(e, n, f) /\ hi <= z
  BY <1>2, FieldEnds
<1>4. a \in 0 .. z /\ hi \in a .. z /\ hi - a = FieldWidth(e, n, f) /\ FieldWidth(e, n, f) <= z
  BY <1>1, <1>3
<1>5. /\ SubSeq(Bytes[e][n], a + 1, hi) \in Seq(ByteSet)
      /\ Len(SubSeq(Bytes[e][n], a + 1, hi)) = hi - a
  <2>1. /\ Bytes[e][n] \in Seq(ByteSet)
        /\ a \in 0 .. Len(Bytes[e][n]) /\ hi \in a .. Len(Bytes[e][n])
    BY <1>3, <1>4, PacketBytes
  <2> QED
    BY <2>1, Part
<1>6. Size[e][n] \in Lengths
  BY DEF Lengths
<1> QED
  BY <1>1, <1>3, <1>4, <1>5, <1>6 DEF FieldBytes, NeedOK

(* The kind says which fields a packet has, so that a packet that is taken *)
(* for another is as long as one of them.                                  *)
LEMMA WidthsOK ==
  ASSUME NEW e \in Ends, got[e] \in Seq(Nat), Len(got[e]) < Len(Protocol[Peer(e)]),
         NEW f \in 1 .. LastField(Peer(e), Len(got[e]) + 1), NEW rx, NEW w \in Widths(e, f, rx)
  PROVE  NeedOK(w)
<1> DEFINE d == Peer(e)
           n == Len(got[e]) + 1
           field == GetFields(e)[f]
<1>1. d \in Ends /\ n \in DOMAIN Protocol[d] /\ Expected(e) = Protocol[d][n]
  BY Peers, PacketEnds DEF Expected
<1>2. Width(Expected(e), field) = FieldWidth(d, n, f)
  BY <1>1 DEF GetFields, FieldWidth
<1>3. CASE w = Width(Expected(e), field)
  BY <1>1, <1>2, <1>3, FieldBytesAre
<1>4. ASSUME NEW m \in Looks(e, f, rx), w = Width(Protocol[d][m], field)
      PROVE  NeedOK(w)
  <2>1. m \in DOMAIN Protocol[d] /\ Protocol[d][m].kind = Expected(e).kind
    BY DEF Looks
  <2>2. f \in 1 .. LastField(d, m) /\ w = FieldWidth(d, m, f)
    BY <1>1, <1>4, <2>1 DEF LastField, FieldWidth, GetFields
  <2> QED
    BY <1>1, <2>1, <2>2, FieldBytesAre
<1>5. CASE w \in 0 .. MaxGarble
  <2>1. MaxGarble \in Nat /\ MaxGarble \in Lengths
    BY NetworkAssumption DEF Lengths
  <2> QED
    BY <1>5, <2>1 DEF NeedOK
<1> QED
  BY <1>3, <1>4, <1>5 DEF Widths

LEMMA Resting ==
  Idle \in Jobs /\ Idle.op = "idle" /\ Idle.rx = <<>> /\ NeedOK(Idle.need)
<1>1. NeedOK(0)
  BY NetworkAssumption DEF NeedOK, Lengths
<1> QED
  BY <1>1, EmptySeq DEF Idle, Jobs

(* What is left of the others is as it was.                                *)
LEMMA OtherJobs ==
  ASSUME NEW e \in Ends, JobOK(e), job'[e] = job[e], sent'[e] = sent[e], got'[e] = got[e],
         e \in closed' => e \in closed
  PROVE  JobOK(e)'
BY DEF JobOK

(* After a field is written: the next packet, or the next field.           *)
LEMMA WrittenJob ==
  ASSUME SocketsOK, NEW e \in Ends, JobOK(e), job[e].op = "send", FieldWritten(e)
  PROVE  \E j \in Jobs :
           /\ job' = [job EXCEPT ![e] = j]
           /\ \/ /\ j = Idle /\ job[e].field = LastField(e, sent[e] + 1)
                 /\ sent' = [sent EXCEPT ![e] = sent[e] + 1]
              \/ /\ job[e].field < LastField(e, sent[e] + 1) /\ sent' = sent
                 /\ j.op = "send" /\ j.field = job[e].field + 1
                 /\ j.need = FieldWidth(e, sent[e] + 1, job[e].field + 1)
<1> DEFINE n == sent[e] + 1
           f == job[e].field + 1
<1>1. /\ job[e] \in Jobs /\ sent[e] \in Nat /\ sent[e] < Len(Protocol[e])
      /\ job[e].field \in 1 .. LastField(e, n)
  BY DEF SocketsOK, JobOK
<1>2. n \in DOMAIN Protocol[e]
  BY <1>1, PacketEnds
<1>3. LastField(e, n) \in 1 .. 4 /\ Len(Fields(Sending(e).kind)) = LastField(e, n)
  BY <1>2, PacketFields DEF LastField, Sending
<1>4. CASE f > LastField(e, n)
  <2>1. job' = [job EXCEPT ![e] = Idle] /\ sent' = [sent EXCEPT ![e] = sent[e] + 1]
    BY <1>3, <1>4 DEF FieldWritten
  <2>2. job[e].field = LastField(e, n)
    BY <1>1, <1>3, <1>4
  <2> QED
    BY <2>1, <2>2, Resting
<1>5. CASE ~ (f > LastField(e, n))
  <2>1. f \in 1 .. LastField(e, n) /\ f \in 0 .. 4 /\ job[e].field < LastField(e, n)
    BY <1>1, <1>3, <1>5
  <2>2. PICK w \in Nat : w = Len(FieldBytes(e, n, f)) /\ w = FieldWidth(e, n, f)
    BY <1>2, <2>1, FieldBytesAre
  <2>3. PICK i \in Jobs : i = job[e]
    BY <1>1
  <2>4. PICK j : j = [i EXCEPT !.field = f, !.need = w]
    OBVIOUS
  <2>5. j \in Jobs /\ j.op = "send" /\ j.field = f /\ j.need = w
    BY <2>1, <2>3, <2>4 DEF Jobs
  <2>6. job' = [job EXCEPT ![e].field = f, ![e].need = w] /\ sent' = sent
    BY <1>3, <1>5, <2>2 DEF FieldWritten
  <2>7. job' = [job EXCEPT ![e] = j]
    BY <2>3, <2>4, <2>6 DEF SocketsOK
  <2> QED
    BY <2>1, <2>2, <2>5, <2>6, <2>7
<1> QED
  BY <1>4, <1>5

(* The next field's turn to be read.                                       *)
LEMMA NextFieldJob ==
  ASSUME SocketsOK, NEW e \in Ends, Getting(e), NEW rx \in Seq(ByteSet), NextField(e, rx),
         job[e].field < LastField(Peer(e), Len(got[e]) + 1), JobOK(e)
  PROVE  \E j \in Jobs : /\ job' = [job EXCEPT ![e] = j] /\ NeedOK(j.need)
                         /\ j.op = "get" /\ j.field = job[e].field + 1 /\ j.rx = rx
                         /\ j.need \in Widths(e, job[e].field + 1, rx)
                         /\ UNCHANGED <<got, closed, failed>>
<1>1. job[e] \in Jobs /\ job[e].op = "get" /\ job \in [Ends -> Jobs] /\ got[e] \in Seq(Nat)
  BY DEF SocketsOK, Getting
<1> DEFINE f == job[e].field + 1
<1>2. PICK w \in Widths(e, f, rx) :
        job' = [job EXCEPT ![e].field = f, ![e].need = w, ![e].rx = rx]
  BY DEF NextField
<1>3. /\ Len(got[e]) < Len(Protocol[Peer(e)])
      /\ job[e].field \in 1 .. LastField(Peer(e), Len(got[e]) + 1)
      /\ job[e].field < LastField(Peer(e), Len(got[e]) + 1)
  BY <1>1 DEF JobOK
<1>4. LastField(Peer(e), Len(got[e]) + 1) \in 1 .. 4
  BY <1>1, <1>3, Peers, PacketEnds, PacketFields
<1>5. f \in 1 .. LastField(Peer(e), Len(got[e]) + 1) /\ f \in 0 .. 4
  BY <1>3, <1>4, SMTT(30)
<1>6. NeedOK(w)
  BY <1>1, <1>3, <1>5, WidthsOK
<1>7. PICK i \in Jobs : i = job[e]
  BY <1>1
<1>8. PICK j : j = [i EXCEPT !.field = f, !.need = w, !.rx = rx]
  OBVIOUS
<1>9. j \in Jobs /\ j.op = "get" /\ j.field = f /\ j.need = w /\ j.rx = rx
  BY <1>1, <1>5, <1>6, <1>7, <1>8 DEF Jobs, NeedOK
<1>10. job' = [job EXCEPT ![e] = j]
  BY <1>1, <1>2, <1>7, <1>8
<1>11. UNCHANGED <<got, closed, failed>>
  BY DEF NextField
<1> QED
  BY <1>6, <1>9, <1>10, <1>11

(* After a field is read: a packet given, an end, or the next field.       *)
LEMMA ReadJob ==
  ASSUME SocketsOK, NEW e \in Ends, Getting(e), NEW rx \in Seq(ByteSet),
         (\E p \in Nat : Give(e, p)) \/ Fail(e) \/ NextField(e, rx),
         NextField(e, rx) => job[e].field < LastField(Peer(e), Len(got[e]) + 1), JobOK(e)
  PROVE  \E j \in Jobs : job' = [job EXCEPT ![e] = j] /\ NeedOK(j.need)
           /\ \/ /\ j = Idle /\ \E p \in Nat : got' = [got EXCEPT ![e] = Append(got[e], p)]
                 /\ UNCHANGED <<closed, failed>>
              \/ /\ j = Idle /\ UNCHANGED got /\ Fail(e)
              \/ /\ j.op = "get" /\ j.field = job[e].field + 1 /\ j.rx = rx
                 /\ j.need \in Widths(e, job[e].field + 1, rx)
                 /\ UNCHANGED <<got, closed, failed>> /\ NextField(e, rx)
<1>1. job[e] \in Jobs /\ job[e].op = "get" /\ job \in [Ends -> Jobs] /\ got[e] \in Seq(Nat)
  BY DEF SocketsOK, Getting
<1>2. ASSUME NEW p \in Nat, Give(e, p)
      PROVE  /\ job' = [job EXCEPT ![e] = Idle] /\ UNCHANGED <<closed, failed>>
             /\ got' = [got EXCEPT ![e] = Append(got[e], p)]
  BY <1>2 DEF Give
<1>3. CASE \E p \in Nat : Give(e, p)
  BY <1>2, <1>3, Resting
<1>4. CASE Fail(e)
  BY <1>4, Resting DEF Fail
<1>5. CASE NextField(e, rx)
  BY <1>5, NextFieldJob
<1> QED
  BY <1>3, <1>4, <1>5

LEMMA LeastOfTwo ==
  ASSUME NEW a \in Nat, NEW hi \in Nat
  PROVE  Min({a, hi}) = IF a <= hi THEN a ELSE hi
<1>1. Min({a, hi}) \in {a, hi} /\ \A y \in {a, hi} : Min({a, hi}) =< y
  <2>1. \E x \in {a, hi} : \A y \in {a, hi} : x =< y
    <3>1. CASE a <= hi
      BY <3>1
    <3>2. CASE ~ (a <= hi)
      BY <3>2
    <3> QED
      BY <3>1, <3>2
  <2> QED
    BY <2>1 DEF Min
<1> QED
  BY <1>1

(* It does not matter in which order strings are put together.             *)
LEMMA Regroup ==
  \A s1, s2, s3 \in Seq(ByteSet) : (s1 \o s2) \o s3 = s1 \o (s2 \o s3)
<1> SUFFICES ASSUME NEW x \in Seq(ByteSet), NEW y \in Seq(ByteSet), NEW z \in Seq(ByteSet)
             PROVE  (x \o y) \o z = x \o (y \o z)
  OBVIOUS
<1>1. \A r \in Seq(ByteSet), s \in Seq(ByteSet) :
        /\ r \o s \in Seq(ByteSet) /\ Len(r \o s) = Len(r) + Len(s)
        /\ \A i \in 1 .. Len(r) + Len(s) : (r \o s)[i] = IF i <= Len(r) THEN r[i] ELSE s[i - Len(r)]
  BY ConcatProperties
<1>2. PICK a \in Nat, hi \in Nat, c \in Nat : a = Len(x) /\ hi = Len(y) /\ c = Len(z)
  BY LenProperties
<1>3. PICK xy \in Seq(ByteSet), yz \in Seq(ByteSet) : xy = x \o y /\ yz = y \o z
  BY <1>1
<1>4. PICK u \in Seq(ByteSet), v \in Seq(ByteSet) : u = xy \o z /\ v = x \o yz
  BY <1>1
<1>5. Len(xy) = a + hi /\ Len(yz) = hi + c /\ Len(u) = (a + hi) + c /\ Len(v) = a + (hi + c)
  BY <1>1, <1>2, <1>3, <1>4
<1>6. ASSUME NEW i \in 1 .. (a + hi) + c
      PROVE  u[i] = v[i]
  <2>1. u[i] = IF i <= a + hi THEN xy[i] ELSE z[i - (a + hi)]
    BY <1>1, <1>2, <1>4, <1>5, SMTT(30)
  <2>2. v[i] = IF i <= a THEN x[i] ELSE yz[i - a]
    BY <1>1, <1>2, <1>4, <1>5
  <2>3. i <= a + hi => xy[i] = IF i <= a THEN x[i] ELSE y[i - a]
    BY <1>1, <1>2, <1>3
  <2>4. i > a => yz[i - a] = IF i - a <= hi THEN y[i - a] ELSE z[i - a - hi]
    BY <1>1, <1>2, <1>3
  <2> QED
    BY <2>1, <2>2, <2>3, <2>4
<1>7. u = v
  <2>1. Len(u) = Len(v) /\ Len(u) = (a + hi) + c
    BY <1>5, SMTT(30)
  <2> QED
    BY <1>6, <2>1, SeqEqual
<1> QED
  BY <1>3, <1>4, <1>7

(* What the bytes read so far are, with k of those that wait.              *)
LEMMA ReadBytes ==
  ASSUME SocketsOK, NEW e \in Ends
  PROVE  LET k == Available(e)
         IN  /\ k \in Nat /\ k <= job[e].need /\ k <= Len(inbox[e]) /\ job[e].need \in Nat
             /\ k = job[e].need \/ k = Len(inbox[e])
             /\ Read(e, k) \in Seq(ByteSet) /\ Len(Read(e, k)) = Len(job[e].rx) + k
             /\ Rest(e, k) \in Seq(ByteSet) /\ Len(Rest(e, k)) <= Len(inbox[e])
             /\ Read(e, k) \o Rest(e, k) = job[e].rx \o inbox[e]
<1>1. PICK rx \in Seq(ByteSet), s \in Seq(ByteSet), need \in Nat, L \in Nat :
        rx = job[e].rx /\ s = inbox[e] /\ need = job[e].need /\ L = Len(s)
  <2>1. job[e] \in Jobs /\ inbox[e] \in Seq(ByteSet)
    BY DEF SocketsOK
  <2> QED
    BY <2>1, LenProperties DEF Jobs
<1>2. PICK k \in Nat : k = Available(e) /\ k = (IF need <= L THEN need ELSE L)
  BY <1>1, LeastOfTwo DEF Available
<1>3. k \in 0 .. L /\ k <= need /\ k <= L /\ (k = need \/ k = L)
  BY <1>2
<1>4. /\ SubSeq(s, 1, k) \in Seq(ByteSet) /\ Len(SubSeq(s, 1, k)) = k
      /\ SubSeq(s, k + 1, L) \in Seq(ByteSet) /\ Len(SubSeq(s, k + 1, L)) = L - k
      /\ SubSeq(s, 1, k) \o SubSeq(s, k + 1, L) = s
  BY <1>1, <1>3, Pieces
<1>5. PICK x \in Seq(ByteSet), y \in Seq(ByteSet) : x = SubSeq(s, 1, k) /\ y = SubSeq(s, k + 1, L)
  BY <1>4
<1>6. /\ rx \o x \in Seq(ByteSet) /\ Len(rx \o x) = Len(rx) + Len(x)
      /\ (rx \o x) \o y = rx \o (x \o y)
  <2>1. rx \o x \in Seq(ByteSet) /\ Len(rx \o x) = Len(rx) + Len(x)
    BY <1>1, <1>5, ConcatProperties
  <2>2. (rx \o x) \o y = rx \o (x \o y)
    BY Regroup, ZenonT(40)
  <2> QED
    BY <2>1, <2>2
<1>7. Read(e, k) = rx \o x /\ Rest(e, k) = y
  BY <1>1, <1>5 DEF Read, Rest
<1>8. L - k <= L
  BY <1>3
<1> QED
  BY <1>1, <1>2, <1>3, <1>4, <1>5, <1>6, <1>7, <1>8

-----------------------------------------------------------------------------
(* The types of a connection are kept.                                     *)

TypesOK == SocketsOK /\ \A e \in Ends : JobOK(e)

WireOK ==
  /\ out \in [Ends -> Seq(ByteSet)] /\ inbox \in [Ends -> Seq(ByteSet)] /\ broken \in BOOLEAN
  /\ \A e \in Ends : Len(out[e]) <= Space /\ Len(inbox[e]) <= Window

LEMMA LostWire == Lost => WireOK'
<1> SUFFICES ASSUME Lost PROVE WireOK'
  OBVIOUS
<1>1. <<>> \in Seq(ByteSet) /\ Len(<<>>) = 0 /\ Space \in Nat /\ Window \in Nat
  BY EmptySeq, NetworkAssumption
<1> QED
  BY <1>1 DEF Lost, WireOK

LEMMA ConsumeWire ==
  ASSUME SocketsOK, NEW e \in Ends, NEW rest \in Seq(ByteSet), Len(rest) <= Len(inbox[e]),
         Consume(e, rest)
  PROVE  WireOK' /\ (broken => broken')
<1>1. CASE Lost
  BY <1>1, LostWire DEF Lost
<1>2. CASE inbox' = [inbox EXCEPT ![e] = rest] /\ UNCHANGED <<out, broken>>
  <2>1. Window \in Nat /\ Len(rest) \in Nat /\ inbox[e] \in Seq(ByteSet) /\ Len(inbox[e]) \in Nat
    BY NetworkAssumption, LenProperties DEF SocketsOK
  <2>2. \A d \in Ends : Len(inbox[d]) <= Window
    BY DEF SocketsOK
  <2>3. Len(rest) <= Window
    BY <2>1, <2>2
  <2> QED
    BY <1>2, <2>2, <2>3 DEF WireOK, SocketsOK
<1> QED
  BY <1>1, <1>2 DEF Consume

(* A step of one end.                                                      *)
LEMMA EndStep ==
  ASSUME TypesOK, NEW e \in Ends, WireOK', blocking' \in [Ends -> BOOLEAN],
         NEW j \in Jobs, job' = [job EXCEPT ![e] = j],
         NEW s \in Nat, sent' = [sent EXCEPT ![e] = s],
         NEW g \in Seq(Nat), got' = [got EXCEPT ![e] = g],
         closed \subseteq closed', closed' \subseteq closed \cup {e},
         torn' \subseteq Ends, failed' \subseteq closed', JobOK(e)'
  PROVE  TypesOK'
<1>1. SocketsOK'
  BY DEF TypesOK, SocketsOK, WireOK
<1>2. ASSUME NEW d \in Ends
      PROVE  JobOK(d)'
  <2>1. CASE d # e
    <3>1. job'[d] = job[d] /\ sent'[d] = sent[d] /\ got'[d] = got[d] /\ (d \in closed' => d \in closed)
      BY <2>1 DEF TypesOK, SocketsOK
    <3> QED
      BY <3>1, OtherJobs DEF TypesOK
  <2> QED
    BY <2>1
<1> QED
  BY <1>1, <1>2 DEF TypesOK

(* A step that leaves the jobs of both ends.                               *)
LEMMA WireStep ==
  ASSUME TypesOK, WireOK', UNCHANGED <<job, sent, got, blocking, closed, torn, failed>>
  PROVE  TypesOK'
<1>1. SocketsOK'
  BY DEF TypesOK, SocketsOK, WireOK
<1>2. \A e \in Ends : JobOK(e)'
  BY DEF TypesOK, JobOK
<1> QED
  BY <1>1, <1>2 DEF TypesOK

(* A script that stops is in nothing's middle.                             *)
LEMMA IdleStep ==
  ASSUME TypesOK, NEW e \in Ends, job' = [job EXCEPT ![e] = Idle],
         sent'[e] \in Nat, sent'[e] <= Len(Protocol[e])
  PROVE  JobOK(e)'
<1>1. job'[e] = Idle
  BY DEF TypesOK, SocketsOK
<1> QED
  BY <1>1, Resting DEF JobOK, NeedOK

LEMMA SameTypes ==
  ASSUME TypesOK
  PROVE  /\ WireOK
         /\ \A e \in Ends :
              /\ job[e] \in Jobs /\ job = [job EXCEPT ![e] = job[e]]
              /\ sent[e] \in Nat /\ sent = [sent EXCEPT ![e] = sent[e]] /\ sent[e] <= Len(Protocol[e])
              /\ got[e] \in Seq(Nat) /\ got = [got EXCEPT ![e] = got[e]]
              /\ job[e].op = "send" \/ job[e].op = "get" => e \notin closed
BY DEF TypesOK, SocketsOK, WireOK, JobOK

-----------------------------------------------------------------------------
(* What is written.                                                        *)

(* A later packet ends later: none is empty.                               *)
LEMMA PacketsGrow ==
  ASSUME NEW e \in Ends, NEW m \in Nat, NEW n \in 0 .. Len(Protocol[e]), m < n
  PROVE  PacketEnd[e][m] < PacketEnd[e][n]
<1>1. Len(Protocol[e]) \in Nat
  BY PacketEnds
<1>2. m + 1 \in 1 .. Len(Protocol[e]) /\ m \in 0 .. Len(Protocol[e]) /\ m + 1 \in 0 .. n
  BY <1>1
<1>3. m + 1 \in DOMAIN Protocol[e]
  BY <1>2, PacketEnds
<1>4. PICK a, hi, z : a = PacketEnd[e][m] /\ hi = PacketEnd[e][m + 1] /\ z = Size[e][m + 1]
  OBVIOUS
<1>5. a \in Nat /\ z \in Nat \ {0} /\ hi = a + z
  <2>1. PacketEnd[e][m + 1] = PacketEnd[e][(m + 1) - 1] + Size[e][m + 1] /\ (m + 1) - 1 = m
    BY <1>2, PacketEnds
  <2>2. PacketEnd[e][m] \in Nat /\ Size[e][m + 1] \in Nat \ {0}
    BY <1>2, <1>3, PacketEnds, FieldEnds
  <2> QED
    BY <1>4, <2>1, <2>2
<1>6. hi <= PacketEnd[e][n] /\ PacketEnd[e][n] \in Nat
  BY <1>2, <1>4, PacketEnds
<1> QED
  BY <1>4, <1>5, <1>6, SMTT(30)

(* A script that sends is in one of its packets.                           *)
LEMMA SendingOK ==
  ASSUME TypesOK, NEW e \in Ends, job[e].op = "send"
  PROVE  LET n == sent[e] + 1
             f == job[e].field
         IN  /\ n \in 1 .. Len(Protocol[e]) /\ n \in DOMAIN Protocol[e] /\ n - 1 = sent[e]
             /\ f \in 1 .. LastField(e, n) /\ f \in 0 .. LastField(e, n) /\ f - 1 \in 0 .. LastField(e, n)
             /\ job[e].need \in Nat /\ job[e].need <= FieldWidth(e, n, f)
             /\ FieldWidth(e, n, f) \in Nat /\ FieldEnd[e][n][f - 1] \in Nat
             /\ FieldEnd[e][n][f] = FieldEnd[e][n][f - 1] + FieldWidth(e, n, f)
             /\ FieldEnd[e][n][f] <= Size[e][n] /\ Size[e][n] \in Nat
<1> DEFINE n == sent[e] + 1
           f == job[e].field
<1>1. /\ sent[e] \in Nat /\ sent[e] < Len(Protocol[e]) /\ f \in 1 .. LastField(e, n)
      /\ job[e].need \in Nat /\ job[e].need <= FieldWidth(e, n, f)
  BY DEF TypesOK, SocketsOK, JobOK, Jobs
<1>2. n \in 1 .. Len(Protocol[e]) /\ n \in DOMAIN Protocol[e] /\ n - 1 = sent[e]
  BY <1>1, PacketEnds
<1>3. LastField(e, n) \in 1 .. 4 /\ FieldWidth(e, n, f) \in Nat
  BY <1>1, <1>2, PacketFields
<1>4. f \in 0 .. LastField(e, n) /\ f - 1 \in 0 .. LastField(e, n)
  BY <1>1, <1>3
<1> QED
  BY <1>1, <1>2, <1>3, <1>4, FieldEnds, ZenonT(40)

(* Where an end is in its stream, and what it has put.                     *)
LEMMA WrittenOK ==
  ASSUME TypesOK, NEW e \in Ends
  PROVE  /\ Written(e) \in Nat /\ PacketEnd[e][sent[e]] <= Written(e)
         /\ Written(e) <= Len(AllBytes[e]) /\ Len(AllBytes[e]) \in Nat
         /\ Put(e) \in {sent[e], sent[e] + 1} /\ Put(e) \in 0 .. Len(Protocol[e])
         /\ job[e].op # "send" => Put(e) = sent[e] /\ Written(e) = PacketEnd[e][sent[e]]
         /\ job[e].op = "send" => /\ Written(e) <= PacketEnd[e][sent[e] + 1]
                                  /\ Written(e) + job[e].need <= PacketEnd[e][sent[e] + 1]
<1> DEFINE n == sent[e] + 1
           f == job[e].field
<1>1. /\ sent[e] \in 0 .. Len(Protocol[e]) /\ Len(Protocol[e]) \in 0 .. Len(Protocol[e])
      /\ sent[e] \in Nat /\ Len(Protocol[e]) \in Nat
  BY SameTypes, PacketEnds
<1>2. PICK a \in Nat, l \in Nat : /\ a = PacketEnd[e][sent[e]] /\ l = PacketEnd[e][Len(Protocol[e])]
                                  /\ a <= l /\ l = Len(AllBytes[e])
  BY <1>1, PacketEnds, StreamBytes
<1>3. CASE job[e].op # "send"
  <2>1. Written(e) = a /\ Put(e) = sent[e]
    BY <1>2, <1>3, SMTT(30) DEF Written, Put
  <2> QED
    BY <1>1, <1>2, <1>3, <2>1
<1>4. CASE job[e].op = "send"
  <2>1. PICK hi \in Nat, w \in Nat, z \in Nat, need \in Nat :
          /\ hi = FieldEnd[e][n][f - 1] /\ w = FieldWidth(e, n, f) /\ z = Size[e][n]
          /\ need = job[e].need /\ need <= w /\ FieldEnd[e][n][f] = hi + w /\ hi + w <= z
    <3>1. /\ FieldEnd[e][n][f - 1] \in Nat /\ FieldWidth(e, n, f) \in Nat /\ Size[e][n] \in Nat
          /\ job[e].need \in Nat /\ job[e].need <= FieldWidth(e, n, f)
          /\ FieldEnd[e][n][f] = FieldEnd[e][n][f - 1] + FieldWidth(e, n, f)
          /\ FieldEnd[e][n][f] <= Size[e][n]
      BY <1>4, SendingOK, Zenon
    <3> HIDE DEF n, f
    <3> QED
      BY <3>1
  <2>2. n \in 1 .. Len(Protocol[e]) /\ n \in 0 .. Len(Protocol[e]) /\ n - 1 = sent[e]
    BY <1>1, <1>4, SendingOK
  <2>3. PacketEnd[e][n] = a + z /\ PacketEnd[e][n] <= l
    BY <1>1, <1>2, <2>1, <2>2, PacketEnds
  <2>4. Written(e) = a + (hi + w - need)
    BY <1>2, <1>4, <2>1, SMTT(30) DEF Written
  <2>5. a <= a + (hi + w - need) /\ a + (hi + w - need) <= a + z /\ a + (hi + w - need) \in Nat
        /\ a + (hi + w - need) <= l /\ a + (hi + w - need) + need <= a + z
    BY <2>1, <2>3
  <2>6. Put(e) \in {sent[e], n}
    BY <1>4 DEF Put
  <2> QED
    BY <1>1, <1>2, <1>4, <2>1, <2>2, <2>3, <2>4, <2>5, <2>6
<1> QED
  BY <1>3, <1>4

(* The packets put are the ones whose bytes are all written.               *)
LEMMA PutCounts ==
  ASSUME TypesOK, NEW e \in Ends, NEW n \in 0 .. Len(Protocol[e])
  PROVE  PacketEnd[e][n] <= Written(e) <=> n <= Put(e)
<1>1. PICK s \in Nat, p \in Nat, w \in Nat, l \in Nat :
        /\ s = sent[e] /\ p = Put(e) /\ w = Written(e) /\ p \in {s, s + 1} /\ l = Len(Protocol[e])
        /\ p <= l /\ n \in 0 .. l /\ s <= l
  BY WrittenOK, SameTypes, PacketEnds
<1>2. \A k \in 0 .. l : PacketEnd[e][k] \in Nat
  BY <1>1, PacketEnds
<1>3. PacketEnd[e][p] <= w
  <2>1. CASE p = s
    BY <1>1, <2>1, WrittenOK
  <2>2. CASE p = s + 1
    <3>1. p # sent[e]
      BY <1>1, <2>2
    <3>2. Written(e) = PacketEnd[e][sent[e] + 1]
      BY <1>1, <3>1 DEF Put
    <3> QED
      BY <1>1, <1>2, <2>2, <3>2
  <2> QED
    BY <1>1, <2>1, <2>2
<1>4. ASSUME n <= p
      PROVE  PacketEnd[e][n] <= w
  <2>1. PacketEnd[e][n] <= PacketEnd[e][p]
    BY <1>1, <1>4, PacketEnds
  <2> QED
    BY <1>1, <1>2, <1>3, <2>1
<1>5. ASSUME ~ (n <= p)
      PROVE  w < PacketEnd[e][n]
  <2>1. CASE p = s + 1
    <3>1. job[e].op = "send" /\ w <= PacketEnd[e][s + 1]
      BY <1>1, <2>1, WrittenOK DEF Put
    <3>2. PacketEnd[e][s + 1] < PacketEnd[e][n]
      BY <1>1, <1>5, <2>1, PacketsGrow
    <3> QED
      BY <1>1, <1>2, <2>1, <3>1, <3>2
  <2>2. CASE p = s /\ job[e].op # "send"
    <3>1. w = PacketEnd[e][s]
      BY <1>1, <2>2, WrittenOK
    <3> QED
      BY <1>1, <1>5, <2>2, <3>1, PacketsGrow
  <2>3. CASE p = s /\ job[e].op = "send"
    <3>1. w <= PacketEnd[e][s + 1] /\ w # PacketEnd[e][s + 1]
      BY <1>1, <2>3, WrittenOK DEF Put
    <3>2. s + 1 \in 0 .. n /\ s + 1 \in 0 .. l
      BY <1>1, <1>5, <2>3
    <3>3. PacketEnd[e][s + 1] <= PacketEnd[e][n] /\ PacketEnd[e][s + 1] \in Nat
      BY <1>1, <1>2, <3>2, PacketEnds
    <3> QED
      BY <1>1, <1>2, <3>1, <3>3
  <2> QED
    BY <1>1, <2>1, <2>2, <2>3
<1> QED
  <2>1. PacketEnd[e][n] \in Nat
    BY <1>1, <1>2
  <2> QED
    BY <1>1, <1>4, <1>5, <2>1

(* Numbers: where a piece of k bytes lies, of a field that ends at hi.     *)
Fits(a, hi, z, need, w, k) ==
  /\ a \in Nat /\ hi \in Nat /\ z \in Nat /\ need \in Nat /\ w \in Nat /\ k \in Nat
  /\ need <= w /\ hi = a + w /\ hi <= z /\ k <= need
Lies(a, hi, z, need, w, k) ==
  \E i \in Nat, c \in Nat :
    /\ i = w - need /\ c = hi - need /\ c = a + i
    /\ a \in 0 .. z /\ hi \in a .. z /\ i \in 0 .. hi - a /\ i + k \in i .. hi - a
    /\ a + (i + k) = c + k /\ c \in 0 .. z /\ c + k \in c .. z /\ (c + k) - c = k

LEMMA PieceLies == \A a, hi, z, need, w, k : Fits(a, hi, z, need, w, k) => Lies(a, hi, z, need, w, k)
<1> SUFFICES ASSUME NEW a \in Nat, NEW hi \in Nat, NEW z \in Nat, NEW need \in Nat, NEW w \in Nat,
                    NEW k \in Nat, need <= w, hi = a + w, hi <= z, k <= need
             PROVE  Lies(a, hi, z, need, w, k)
  BY DEF Fits
<1>1. PICK u \in Nat : w = need + u
  OBVIOUS
<1>2. w - need = u /\ hi - need = a + u /\ hi - a = w
  BY <1>1
<1>3. /\ a \in 0 .. z /\ hi \in a .. z /\ u \in 0 .. w /\ u + k \in u .. w
      /\ a + (u + k) = (a + u) + k /\ a + u \in 0 .. z /\ (a + u) + k \in a + u .. z
      /\ ((a + u) + k) - (a + u) = k
  BY <1>1
<1>4. a + u \in Nat
  OBVIOUS
<1> QED
  BY <1>2, <1>3, <1>4, Zenon DEF Lies

(* And what is written after the rest of a field is.                       *)
Follows(p, a, hi, need, w) ==
  p \in Nat /\ a \in Nat /\ hi \in Nat /\ need \in Nat /\ w \in Nat /\ a = hi + need
Adds(p, a, hi, need, w) ==
  (p + a) + 0 = (p + hi) + need /\ p + ((a + w) - w) = (p + hi) + need

LEMMA FieldEndsAt ==
  \A p, a, hi, need, w : Follows(p, a, hi, need, w) => Adds(p, a, hi, need, w)
<1> SUFFICES ASSUME NEW p \in Nat, NEW a \in Nat, NEW hi \in Nat, NEW need \in Nat, NEW w \in Nat,
                    a = hi + need
             PROVE  Adds(p, a, hi, need, w)
  BY DEF Follows
<1> QED
  BY DEF Adds

(* A part of s that is in another part of it, i .. j from the start of that. *)
Within(s, a, hi, i, j) ==
  /\ s \in Seq(ByteSet) /\ a \in 0 .. Len(s) /\ hi \in a .. Len(s)
  /\ i \in 0 .. hi - a /\ j \in i .. hi - a
IsPart(s, a, hi, i, j) ==
  SubSeq(SubSeq(s, a + 1, hi), i + 1, j) = SubSeq(s, (a + i) + 1, a + j)

(* A part of a part of s is a part of s.                                   *)
LEMMA PartOfPart ==
  \A s, a, hi, i, j : Within(s, a, hi, i, j) => IsPart(s, a, hi, i, j)
<1> SUFFICES ASSUME NEW s \in Seq(ByteSet), NEW a \in 0 .. Len(s), NEW hi \in a .. Len(s),
                    NEW i \in 0 .. hi - a, NEW j \in i .. hi - a
             PROVE  SubSeq(SubSeq(s, a + 1, hi), i + 1, j) = SubSeq(s, (a + i) + 1, a + j)
  BY Zenon DEF Within, IsPart
<1>1. PICK L \in Nat : L = Len(s)
  BY LenProperties
<1>2. PICK t \in Seq(ByteSet) : t = SubSeq(s, a + 1, hi) /\ Len(t) = hi - a /\ \A k \in 1 .. hi - a : t[k] = s[a + k]
  <2>1. /\ SubSeq(s, a + 1, hi) \in Seq(ByteSet) /\ Len(SubSeq(s, a + 1, hi)) = hi - a
        /\ \A k \in 1 .. hi - a : SubSeq(s, a + 1, hi)[k] = s[a + k]
    BY Part
  <2> QED
    BY <2>1, Zenon
<1>3. i \in 0 .. Len(t) /\ j \in i .. Len(t) /\ a + i \in 0 .. Len(s) /\ a + j \in a + i .. Len(s)
  BY <1>1, <1>2
<1>4. PICK u \in Seq(ByteSet) : u = SubSeq(t, i + 1, j) /\ Len(u) = j - i /\ \A k \in 1 .. j - i : u[k] = t[i + k]
  <2>1. /\ SubSeq(t, i + 1, j) \in Seq(ByteSet) /\ Len(SubSeq(t, i + 1, j)) = j - i
        /\ \A k \in 1 .. j - i : SubSeq(t, i + 1, j)[k] = t[i + k]
    BY <1>3, Part
  <2> QED
    BY <2>1, Zenon
<1>5. PICK v \in Seq(ByteSet) : /\ v = SubSeq(s, (a + i) + 1, a + j) /\ Len(v) = (a + j) - (a + i)
                          /\ \A k \in 1 .. (a + j) - (a + i) : v[k] = s[(a + i) + k]
  <2> DEFINE c == a + i
             d == a + j
  <2>1. /\ SubSeq(s, c + 1, d) \in Seq(ByteSet) /\ Len(SubSeq(s, c + 1, d)) = d - c
        /\ \A k \in 1 .. d - c : SubSeq(s, c + 1, d)[k] = s[c + k]
    <3>1. c \in 0 .. Len(s) /\ d \in c .. Len(s)
      BY <1>3
    <3> HIDE DEF c, d
    <3> QED
      BY <3>1, Part
  <2> QED
    BY <2>1, Zenon
<1>6. Len(u) = Len(v) /\ Len(u) = j - i /\ (a + j) - (a + i) = j - i
  BY <1>1, <1>4, <1>5
<1>7. ASSUME NEW k \in 1 .. j - i
      PROVE  u[k] = v[k]
  <2>1. i + k \in 1 .. hi - a /\ a + (i + k) = (a + i) + k
    BY <1>1
  <2> QED
    BY <1>2, <1>4, <1>5, <1>6, <2>1
<1>8. u = v
  BY <1>6, <1>7, SeqEqual
<1> QED
  BY <1>2, <1>4, <1>5, <1>8

(* The bytes a write takes are the next of the stream.                     *)
LEMMA TakenPiece ==
  ASSUME TypesOK, NEW e \in Ends, job[e].op = "send", NEW k \in 0 .. job[e].need, Taken(e, k)
  PROVE  \E x \in Seq(ByteSet) :
           /\ out' = [out EXCEPT ![e] = out[e] \o x] /\ Len(x) = k
           /\ x = SubSeq(AllBytes[e], Written(e) + 1, Written(e) + k)
           /\ Written(e) + k <= Len(AllBytes[e])
<1> DEFINE n == sent[e] + 1
           f == job[e].field
<1>1. PICK a \in Nat, hi \in Nat, z \in Nat, need \in Nat, w \in Nat :
        /\ a = FieldEnd[e][n][f - 1] /\ hi = FieldEnd[e][n][f] /\ z = Size[e][n]
        /\ need = job[e].need /\ need <= w /\ w = FieldWidth(e, n, f) /\ hi = a + w /\ hi <= z
  <2>1. /\ FieldEnd[e][n][f - 1] \in Nat /\ FieldWidth(e, n, f) \in Nat /\ Size[e][n] \in Nat
        /\ job[e].need \in Nat /\ job[e].need <= FieldWidth(e, n, f)
        /\ FieldEnd[e][n][f] = FieldEnd[e][n][f - 1] + FieldWidth(e, n, f)
        /\ FieldEnd[e][n][f] <= Size[e][n]
    BY SendingOK, Zenon
  <2> HIDE DEF n, f
  <2>2. FieldEnd[e][n][f] \in Nat
    BY <2>1
  <2> QED
    BY <2>1, <2>2, Zenon
<1>2. /\ n \in DOMAIN Protocol[e] /\ n \in 1 .. Len(Protocol[e]) /\ f \in 1 .. LastField(e, n)
      /\ n - 1 = sent[e]
  BY SendingOK
<1>3. PICK p \in Nat : p = PacketEnd[e][n - 1] /\ p = PacketEnd[e][sent[e]]
  <2>1. PacketEnd[e][sent[e]] \in Nat
    BY SameTypes, PacketEnds
  <2> QED
    BY <1>2, <2>1, Zenon
<1>4. Written(e) = p + (hi - need)
  BY <1>1, <1>3, Zenon DEF Written
<1>5. PICK s \in Seq(ByteSet) : s = Bytes[e][n] /\ Len(s) = z
  BY <1>1, <1>2, PacketBytes, Zenon
<1>6. PICK bytes \in Seq(ByteSet) : /\ bytes = SubSeq(s, a + 1, hi) /\ bytes = FieldBytes(e, n, f)
                                    /\ Len(bytes) = w
  BY <1>1, <1>2, <1>5, FieldBytesAre, ZenonT(40) DEF FieldBytes
<1>7. PICK x : x = SubSeq(bytes, (w - need) + 1, (w - need) + k) /\ out' = [out EXCEPT ![e] = out[e] \o x]
  BY <1>1, <1>6 DEF Taken
<1> HIDE DEF n, f
<1>0. need <= w /\ hi = a + w /\ hi <= z
  BY <1>1, Zenon
<1>9. k \in Nat /\ k <= need
  BY <1>1
<1>8. PICK i \in Nat, c \in Nat :
        /\ i = w - need /\ c = hi - need /\ c = a + i
        /\ a \in 0 .. z /\ hi \in a .. z /\ i \in 0 .. hi - a /\ i + k \in i .. hi - a
        /\ a + (i + k) = c + k /\ c \in 0 .. z /\ c + k \in c .. z /\ (c + k) - c = k
  <2>1. Fits(a, hi, z, need, w, k)
    BY <1>0, <1>9, Zenon DEF Fits
  <2>2. Lies(a, hi, z, need, w, k)
    BY <2>1, PieceLies, Zenon
  <2> QED
    BY <2>2, Zenon DEF Lies
<1>10. /\ a \in 0 .. Len(s) /\ hi \in a .. Len(s) /\ i \in 0 .. hi - a /\ i + k \in i .. hi - a
       /\ a + (i + k) = c + k /\ c \in 0 .. z /\ c + k \in c .. z /\ (c + k) - c = k
  BY <1>5, <1>8, Zenon
<1>11. x = SubSeq(s, c + 1, c + k)
  <2>1. SubSeq(SubSeq(s, a + 1, hi), i + 1, i + k) = SubSeq(s, (a + i) + 1, a + (i + k))
    <3>1. Within(s, a, hi, i, i + k)
      BY <1>5, <1>10, Zenon DEF Within
    <3>2. IsPart(s, a, hi, i, i + k)
      BY <3>1, PartOfPart, Zenon
    <3> QED
      BY <3>2, Zenon DEF IsPart
  <2>2. x = SubSeq(SubSeq(s, a + 1, hi), i + 1, i + k)
    BY <1>6, <1>7, <1>8, Zenon
  <2>3. a + i = c /\ a + (i + k) = c + k
    BY <1>8, Zenon
  <2> QED
    BY <2>1, <2>2, <2>3, Zenon
<1>12. /\ p + c \in 0 .. Len(AllBytes[e]) /\ p + (c + k) \in p + c .. Len(AllBytes[e])
       /\ SubSeq(AllBytes[e], (p + c) + 1, p + (c + k)) = SubSeq(s, c + 1, c + k)
  <2>1. c \in 0 .. Size[e][n] /\ c + k \in c .. Size[e][n]
    BY <1>1, <1>10
  <2> QED
    BY <1>2, <1>3, <1>5, <2>1, PacketPart
<1>13. x = SubSeq(AllBytes[e], Written(e) + 1, Written(e) + k) /\ Written(e) + k <= Len(AllBytes[e])
  <2>1. PICK l \in Nat : l = Len(AllBytes[e])
    BY WrittenOK
  <2>2. Written(e) = p + c /\ Written(e) + k = p + (c + k)
    <3>1. Written(e) = p + c
      BY <1>4, <1>8, Zenon
    <3>2. (p + c) + k = p + (c + k)
      BY <1>9
    <3> QED
      BY <3>1, <3>2, Zenon
  <2>3. p + (c + k) <= l
    BY <1>3, <1>8, <1>9, <1>12, <2>1
  <2> QED
    BY <1>11, <1>12, <2>1, <2>2, <2>3
<1>14. x \in Seq(ByteSet) /\ Len(x) = k
  <2>1. c \in 0 .. Len(s) /\ c + k \in c .. Len(s)
    BY <1>5, <1>10
  <2>2. SubSeq(s, c + 1, c + k) \in Seq(ByteSet) /\ Len(SubSeq(s, c + 1, c + k)) = (c + k) - c
    BY <2>1, Part
  <2> QED
    BY <1>10, <1>11, <2>2
<1> QED
  BY <1>7, <1>13, <1>14

-----------------------------------------------------------------------------
(* The types, action by action.                                            *)

LEMMA DeliverTypes ==
  ASSUME TypesOK, NEW e \in Ends, Deliver(e)
  PROVE  TypesOK'
<1>1. WireOK'
  <2>1. CASE Lost
    BY <2>1, LostWire
  <2>2. CASE ~ Lost
    <3> DEFINE d == Peer(e)
    <3>1. /\ out[e] # <<>> /\ Len(inbox[d]) < Window
          /\ inbox' = [inbox EXCEPT ![d] = Append(inbox[d], Head(out[e]))]
          /\ out' = [out EXCEPT ![e] = Tail(out[e])] /\ broken' = broken
      BY <2>2 DEF Deliver
    <3>2. PICK o \in Seq(ByteSet), i \in Seq(ByteSet) : o = out[e] /\ i = inbox[d]
      BY Peers DEF TypesOK, SocketsOK
    <3>3. /\ Head(o) \in ByteSet /\ Tail(o) \in Seq(ByteSet) /\ Len(Tail(o)) = Len(o) - 1
      BY <3>1, <3>2, HeadTailProperties
    <3>4. PICK h \in ByteSet : h = Head(o)
      BY <3>3
    <3>5. Append(i, h) \in Seq(ByteSet) /\ Len(Append(i, h)) = Len(i) + 1
      BY AppendProperties
    <3>6. Len(Tail(o)) <= Space /\ Len(Append(i, h)) <= Window
      <4>1. Len(o) <= Space /\ Space \in Nat /\ Window \in Nat /\ Len(i) < Window
        BY <3>1, <3>2, NetworkAssumption DEF TypesOK, SocketsOK
      <4>2. Len(o) \in Nat /\ Len(i) \in Nat
        BY LenProperties
      <4> QED
        BY <3>3, <3>5, <4>1, <4>2
    <3>7. \A x \in Ends : Len(out[x]) <= Space /\ Len(inbox[x]) <= Window
      BY DEF TypesOK, SocketsOK
    <3>8. /\ inbox' = [inbox EXCEPT ![d] = Append(i, h)] /\ out' = [out EXCEPT ![e] = Tail(o)]
          /\ inbox \in [Ends -> Seq(ByteSet)] /\ out \in [Ends -> Seq(ByteSet)] /\ broken' \in BOOLEAN
      BY <3>1, <3>2, <3>4 DEF TypesOK, SocketsOK
    <3> HIDE DEF d
    <3> QED
      BY <3>3, <3>5, <3>6, <3>7, <3>8 DEF WireOK
  <2> QED
    BY <2>1, <2>2
<1> QED
  BY <1>1, WireStep DEF Deliver

LEMMA ResetTypes ==
  ASSUME TypesOK, Reset
  PROVE  TypesOK'
BY LostWire, WireStep DEF Reset

LEMMA SocketCloseTypes ==
  ASSUME TypesOK, NEW e \in Ends, SocketClose(e)
  PROVE  TypesOK'
<1>1. WireOK'
  <2>1. CASE Lost
    BY <2>1, LostWire
  <2>2. CASE ~ Lost
    <3>1. UNCHANGED <<out, broken>> /\ inbox' = [inbox EXCEPT ![e] = <<>>]
      BY <2>2 DEF SocketClose, CloseSocket
    <3>2. <<>> \in Seq(ByteSet) /\ Len(<<>>) = 0 /\ Window \in Nat /\ WireOK
      BY EmptySeq, NetworkAssumption, SameTypes
    <3> QED
      BY <3>1, <3>2 DEF WireOK
  <2> QED
    BY <2>1, <2>2
<1>2. /\ closed' = closed \cup {e} /\ job[e].op = "idle"
      /\ UNCHANGED <<job, sent, got, blocking, torn, failed>>
  BY DEF SocketClose, CloseSocket, Ready
<1>3. JobOK(e)'
  BY <1>2 DEF JobOK, TypesOK
<1>4. /\ blocking' \in [Ends -> BOOLEAN] /\ torn' \subseteq Ends /\ failed' \subseteq closed'
  BY <1>2 DEF TypesOK, SocketsOK
<1>5. /\ job' = [job EXCEPT ![e] = job[e]] /\ sent' = [sent EXCEPT ![e] = sent[e]]
      /\ got' = [got EXCEPT ![e] = got[e]]
      /\ job[e] \in Jobs /\ sent[e] \in Nat /\ got[e] \in Seq(Nat)
  BY <1>2, SameTypes
<1> QED
  BY <1>1, <1>2, <1>3, <1>4, <1>5, EndStep

(* A step that changes nothing but what a script is in the middle of.      *)
LEMMA JobStep ==
  ASSUME TypesOK, NEW e \in Ends, NEW j \in Jobs, job' = [job EXCEPT ![e] = j],
         UNCHANGED <<sent, got, wire, blocking, closed, torn, failed>>, JobOK(e)'
  PROVE  TypesOK'
<1>1. WireOK'
  BY SameTypes DEF WireOK, wire
<1>2. /\ blocking' \in [Ends -> BOOLEAN] /\ torn' \subseteq Ends /\ failed' \subseteq closed'
      /\ closed' = closed
  BY DEF TypesOK, SocketsOK
<1>3. /\ sent' = [sent EXCEPT ![e] = sent[e]] /\ got' = [got EXCEPT ![e] = got[e]]
      /\ sent[e] \in Nat /\ got[e] \in Seq(Nat)
  BY SameTypes
<1> QED
  BY <1>1, <1>2, <1>3, EndStep

LEMMA StartSendTypes ==
  ASSUME TypesOK, NEW e \in Ends, StartSend(e)
  PROVE  /\ TypesOK'
         /\ \E j \in Jobs : /\ job' = [job EXCEPT ![e] = j] /\ j.op = "send" /\ j.field = 1
                            /\ j.need = FieldWidth(e, sent[e] + 1, 1) /\ j.rx = <<>>
<1> DEFINE n == sent[e] + 1
<1>1. sent[e] \in Nat /\ sent[e] < Len(Protocol[e]) /\ Len(Protocol[e]) \in Nat /\ e \notin closed
  BY SameTypes, PacketEnds DEF StartSend, Ready
<1>2. n \in DOMAIN Protocol[e] /\ LastField(e, n) \in 1 .. 4
  BY <1>1, PacketEnds, PacketFields
<1>3. 1 \in 1 .. LastField(e, n)
  BY <1>2
<1>4. PICK w \in Nat : w = Len(FieldBytes(e, n, 1)) /\ w = FieldWidth(e, n, 1) /\ NeedOK(w)
  BY <1>2, <1>3, FieldBytesAre
<1>5. PICK j : j = [op |-> "send", field |-> 1, need |-> w, rx |-> <<>>]
  OBVIOUS
<1>6. /\ j \in Jobs /\ j.op = "send" /\ j.field = 1 /\ j.need = w /\ j.rx = <<>>
  BY <1>5, EmptySeq DEF Jobs
<1>7. job' = [job EXCEPT ![e] = j] /\ UNCHANGED <<sent, got, wire, blocking, closed, torn, failed>>
  BY <1>4, <1>5 DEF StartSend
<1>8. job'[e] = j
  BY <1>7 DEF TypesOK, SocketsOK
<1>9. JobOK(e)'
  BY <1>1, <1>3, <1>4, <1>6, <1>7, <1>8 DEF JobOK, NeedOK
<1> QED
  BY <1>4, <1>6, <1>7, <1>9, JobStep

(* After k bytes are written, all of them or those of a part of a field.   *)
Wrote(e, k) ==
  /\ job'[e] \in Jobs /\ job' = [job EXCEPT ![e] = job'[e]] /\ JobOK(e)'
  /\ \/ job'[e] = Idle /\ sent' = [sent EXCEPT ![e] = sent[e] + 1]
     \/ job'[e].op = "send" /\ sent' = sent
  /\ Written(e)' = Written(e) + k

(* The end of a field is the start of the next, or of the next packet.     *)
LEMMA FieldWrittenIs ==
  ASSUME TypesOK, NEW e \in Ends, job[e].op = "send", FieldWritten(e), UNCHANGED <<got, closed>>
  PROVE  Wrote(e, job[e].need)
<1> DEFINE n == sent[e] + 1
           f == job[e].field
<1>1. PICK a \in Nat, hi \in Nat, z \in Nat, need \in Nat, p \in Nat :
        /\ a = FieldEnd[e][n][f] /\ z = Size[e][n] /\ need = job[e].need
        /\ p = PacketEnd[e][sent[e]] /\ hi = a - need /\ a = hi + need
        /\ Written(e) = p + hi
  <2>1. /\ FieldEnd[e][n][f - 1] \in Nat /\ FieldWidth(e, n, f) \in Nat /\ Size[e][n] \in Nat
        /\ job[e].need \in Nat /\ job[e].need <= FieldWidth(e, n, f)
        /\ FieldEnd[e][n][f] = FieldEnd[e][n][f - 1] + FieldWidth(e, n, f)
    BY SendingOK, Zenon
  <2>2. PacketEnd[e][sent[e]] \in Nat
    BY SameTypes, PacketEnds
  <2>3. Written(e) = PacketEnd[e][sent[e]] + (FieldEnd[e][n][f] - job[e].need)
    BY DEF Written
  <2> HIDE DEF n, f
  <2>4. /\ FieldEnd[e][n][f] - job[e].need \in Nat /\ FieldEnd[e][n][f] \in Nat
        /\ FieldEnd[e][n][f] = (FieldEnd[e][n][f] - job[e].need) + job[e].need
    BY <2>1
  <2> QED
    BY <2>1, <2>2, <2>3, <2>4, Zenon
<1>0. hi = a - need /\ a = hi + need /\ Written(e) = p + hi
  BY <1>1, Zenon
<1>2. /\ n \in DOMAIN Protocol[e] /\ n \in 1 .. Len(Protocol[e]) /\ f \in 1 .. LastField(e, n)
      /\ n - 1 = sent[e] /\ SocketsOK /\ JobOK(e) /\ LastField(e, n) \in 1 .. 4
  BY SendingOK, PacketFields DEF TypesOK
<1>3. PICK j \in Jobs :
        /\ job' = [job EXCEPT ![e] = j]
        /\ \/ /\ j = Idle /\ f = LastField(e, n) /\ sent' = [sent EXCEPT ![e] = n]
           \/ /\ f < LastField(e, n) /\ sent' = sent
              /\ j.op = "send" /\ j.field = f + 1 /\ j.need = FieldWidth(e, n, f + 1)
  BY <1>2, WrittenJob
<1>4. job'[e] = j /\ job' = [job EXCEPT ![e] = job'[e]] /\ sent[e] \in Nat
  BY <1>2, <1>3, SMTT(30) DEF SocketsOK
<1>5. CASE j = Idle /\ f = LastField(e, n) /\ sent' = [sent EXCEPT ![e] = n]
  <2>1. sent'[e] = n /\ n \in Nat /\ n <= Len(Protocol[e])
    BY <1>2, <1>4, <1>5, PacketEnds DEF SocketsOK
  <2>2. JobOK(e)'
    BY <1>3, <1>5, <2>1, IdleStep
  <2>3. Written(e)' = PacketEnd[e][n] + 0
    <3>1. job'[e].op # "send" /\ sent'[e] = n
      BY <1>4, <1>5, <2>1, Resting
    <3> QED
      BY <3>1 DEF Written
  <2>4. PacketEnd[e][n] = p + a
    <3>1. PacketEnd[e][n] = PacketEnd[e][n - 1] + Size[e][n]
      BY <1>2, PacketEnds, Zenon
    <3>2. Size[e][n] = FieldEnd[e][n][LastField(e, n)]
      BY <1>2, FieldEnds, Zenon
    <3> QED
      BY <1>1, <1>2, <1>5, <3>1, <3>2, Zenon
  <2>5. Written(e)' = Written(e) + need
    <3> HIDE DEF n, f
    <3>1. PICK q : q = PacketEnd[e][n]
      OBVIOUS
    <3>2. q = p + a /\ Written(e)' = q + 0
      BY <2>3, <2>4, <3>1
    <3>3. (p + a) + 0 = (p + hi) + need
      <4>1. Follows(p, a, hi, need, 0)
        BY <1>0 DEF Follows
      <4>2. Adds(p, a, hi, need, 0)
        BY <4>1, FieldEndsAt, ZenonT(40)
      <4> QED
        BY <4>2, Zenon DEF Adds
    <3> QED
      BY <1>0, <3>2, <3>3, Zenon
  <2> QED
    BY <1>1, <1>4, <1>5, <2>2, <2>5 DEF Wrote
<1>6. CASE /\ f < LastField(e, n) /\ sent' = sent
           /\ j.op = "send" /\ j.field = f + 1 /\ j.need = FieldWidth(e, n, f + 1)
  <2>1. f + 1 \in 1 .. LastField(e, n) /\ (f + 1) - 1 = f
    BY <1>2, <1>6
  <2>2. PICK w \in Nat : w = FieldWidth(e, n, f + 1) /\ NeedOK(w)
    BY <1>2, <2>1, FieldBytesAre, ZenonT(40)
  <2>3. FieldEnd[e][n][f + 1] = a + w
    BY <1>1, <1>2, <2>1, <2>2, FieldEnds, ZenonT(40)
  <2>4. /\ sent'[e] = sent[e] /\ job'[e].op = "send" /\ job'[e].field = f + 1
        /\ job'[e].need = w /\ got' = got /\ closed' = closed /\ e \notin closed
    BY <1>4, <1>6, <2>2, SameTypes
  <2>5. Written(e)' = p + ((a + w) - w)
    BY <1>1, <2>3, <2>4 DEF Written
  <2>6. Written(e)' = Written(e) + need
    <3> HIDE DEF n, f
    <3>1. p + ((a + w) - w) = (p + hi) + need
      <4>1. Follows(p, a, hi, need, w)
        BY <1>0 DEF Follows
      <4>2. Adds(p, a, hi, need, w)
        BY <4>1, FieldEndsAt, Zenon
      <4> QED
        BY <4>2, Zenon DEF Adds
    <3> QED
      BY <1>0, <2>5, <3>1, Zenon
  <2>7. JobOK(e)'
    <3>1. sent[e] < Len(Protocol[e]) /\ sent[e] <= Len(Protocol[e])
      BY <1>2 DEF JobOK
    <3> QED
      BY <2>1, <2>2, <2>4, <3>1 DEF JobOK, NeedOK
  <2> QED
    BY <1>1, <1>4, <1>6, <2>4, <2>6, <2>7 DEF Wrote
<1> QED
  BY <1>3, <1>5, <1>6

(* A part of a field that is written.                                      *)
LEMMA PartWritten ==
  ASSUME TypesOK, NEW e \in Ends, job[e].op = "send", NEW k \in 0 .. job[e].need,
         job' = [job EXCEPT ![e].need = job[e].need - k], UNCHANGED <<sent, got, closed>>
  PROVE  Wrote(e, k)
<1>1. PICK i \in Jobs : i = job[e] /\ i.need \in Nat /\ k \in 0 .. i.need /\ job \in [Ends -> Jobs]
  BY DEF TypesOK, SocketsOK, Jobs
<1>2. PICK m \in Nat, r \in Nat : r = i.need /\ m = r - k /\ r = m + k /\ m <= r /\ k \in Nat
  <2>1. k \in Nat /\ i.need - k \in Nat /\ i.need = (i.need - k) + k /\ i.need - k <= i.need
    BY <1>1
  <2> QED
    BY <1>1, <2>1
<1>3. PICK j : j = [i EXCEPT !.need = m]
  OBVIOUS
<1>4. j \in Jobs /\ j.op = i.op /\ j.field = i.field /\ j.need = m
  BY <1>1, <1>3 DEF Jobs
<1>5. job' = [job EXCEPT ![e] = j] /\ job'[e] = j /\ job' = [job EXCEPT ![e] = job'[e]]
  BY <1>1, <1>2, <1>3
<1>6. JobOK(e)'
  <2>1. NeedOK(m)
    <3>1. PICK l \in Lengths : r <= l
      BY <1>1, <1>2 DEF TypesOK, JobOK, NeedOK
    <3>2. l \in Nat
      <4>1. ASSUME NEW d \in Ends, NEW n \in DOMAIN Protocol[d]
            PROVE  Size[d][n] \in Nat
        BY FieldEnds
      <4> QED
        BY <4>1, NetworkAssumption DEF Lengths
    <3>3. m <= l
      BY <1>2, <3>1, <3>2
    <3> QED
      BY <3>1, <3>3 DEF NeedOK
  <2>2. m <= FieldWidth(e, sent[e] + 1, i.field)
    <3>1. FieldWidth(e, sent[e] + 1, i.field) \in Nat /\ r <= FieldWidth(e, sent[e] + 1, i.field)
      BY <1>1, <1>2, SendingOK
    <3> QED
      BY <1>2, <3>1
  <2> QED
    BY <1>1, <1>4, <1>5, <2>1, <2>2 DEF TypesOK, JobOK
<1>7. Written(e)' = Written(e) + k
  <2>1. PICK a \in Int, p \in Int :
          p = PacketEnd[e][sent[e]] /\ a = FieldEnd[e][sent[e] + 1][i.field]
    <3>1. /\ FieldEnd[e][sent[e] + 1][i.field - 1] \in Nat /\ FieldWidth(e, sent[e] + 1, i.field) \in Nat
          /\ FieldEnd[e][sent[e] + 1][i.field]
               = FieldEnd[e][sent[e] + 1][i.field - 1] + FieldWidth(e, sent[e] + 1, i.field)
      BY <1>1, SendingOK, Zenon
    <3>2. FieldEnd[e][sent[e] + 1][i.field] \in Int
      BY <3>1
    <3>3. PacketEnd[e][sent[e]] \in Int
      BY SameTypes, PacketEnds
    <3> QED
      BY <3>2, <3>3
  <2>2. Written(e) = p + (a - r) /\ Written(e)' = p + (a - m)
    BY <1>1, <1>2, <1>4, <1>5, <2>1 DEF Written
  <2>3. PICK l \in Nat : l = k /\ r = m + l
    BY <1>2, Zenon
  <2>4. p + (a - m) = (p + (a - r)) + l
    BY <2>3
  <2> QED
    BY <2>2, <2>3, <2>4
<1> QED
  BY <1>1, <1>4, <1>5, <1>6, <1>7 DEF Wrote

(* A write takes what there is room for; what it leaves is only cut off    *)
(* when the socket does not wait.                                          *)
LEMMA WriteIs ==
  ASSUME TypesOK, NEW e \in Ends, WriteStep(e)
  PROVE  /\ job[e].op = "send" /\ e \notin closed /\ job[e].need \in Nat
         /\ UNCHANGED <<got, inbox, broken, blocking, closed, failed>>
         /\ \/ broken /\ Wrote(e, job[e].need) /\ UNCHANGED <<out, torn>>
            \/ /\ ~broken /\ torn' \in {torn, torn \cup {e}}
               /\ \E k \in 0 .. job[e].need :
                    /\ Taken(e, k) /\ k <= Room(e)
                    /\ \/ torn' = torn /\ Wrote(e, k)
                       \/ torn' = torn \cup {e} /\ Wrote(e, job[e].need)
<1>1. job[e].op = "send" /\ UNCHANGED <<got, inbox, broken, blocking, closed, failed>>
  BY DEF WriteStep, Write, WriteWaiting
<1>2. e \notin closed /\ job[e].need \in Nat
  BY <1>1, SameTypes, SendingOK
<1>3. job[e].need \in 0 .. job[e].need /\ Room(e) \in Int
  <2>1. out[e] \in Seq(ByteSet) /\ Space \in Nat
    BY NetworkAssumption DEF TypesOK, SocketsOK
  <2> QED
    BY <1>2, <2>1, LenProperties DEF Room
<1>4. CASE Write(e)
  <2>1. Wrote(e, job[e].need)
    BY <1>1, <1>4, FieldWrittenIs DEF Write
  <2>2. CASE ~broken
    <3>1. PICK k \in 0 .. job[e].need :
            /\ Taken(e, k)
            /\ IF job[e].need <= Room(e) THEN k = job[e].need ELSE k <= Room(e)
            /\ torn' = IF k < job[e].need THEN torn \cup {e} ELSE torn
      BY <1>4, <2>2 DEF Write
    <3>2. k <= Room(e)
      BY <3>1
    <3>3. CASE k < job[e].need
      BY <1>1, <1>2, <2>1, <2>2, <3>1, <3>2, <3>3
    <3>4. CASE ~ (k < job[e].need)
      <4>1. k = job[e].need
        BY <1>2, <3>4
      <4> QED
        BY <1>1, <1>2, <2>1, <2>2, <3>1, <3>2, <3>4, <4>1
    <3> QED
      BY <3>3, <3>4
  <2> QED
    BY <1>1, <1>2, <1>4, <2>1, <2>2 DEF Write
<1>5. CASE WriteWaiting(e)
  <2>1. /\ ~broken /\ (Room(e) > 0 \/ job[e].need = 0) /\ torn' = torn
    BY <1>5 DEF WriteWaiting
  <2>2. 0 <= Room(e)
    <3>1. out[e] \in Seq(ByteSet) /\ Space \in Nat /\ Len(out[e]) <= Space
      BY NetworkAssumption DEF TypesOK, SocketsOK
    <3> QED
      BY <3>1, LenProperties DEF Room
  <2>3. PICK room \in Nat, need \in Nat : room = Room(e) /\ need = job[e].need
    BY <1>2, <1>3, <2>2
  <2>4. PICK k \in Nat : k = Min({Room(e), job[e].need}) /\ k = IF room <= need THEN room ELSE need
    BY <2>3, LeastOfTwo
  <2>5. k \in 0 .. need /\ k <= room
    BY <2>4
  <2>6. /\ Taken(e, k)
        /\ IF k = job[e].need THEN FieldWritten(e)
           ELSE job' = [job EXCEPT ![e].need = job[e].need - k] /\ UNCHANGED sent
    BY <1>5, <2>4 DEF WriteWaiting
  <2>7. Wrote(e, k)
    <3>1. CASE k = job[e].need
      BY <1>1, <2>6, <3>1, FieldWrittenIs
    <3>2. CASE k # job[e].need
      BY <1>1, <2>3, <2>5, <2>6, <3>2, PartWritten
    <3> QED
      BY <3>1, <3>2
  <2> QED
    BY <1>1, <1>2, <2>1, <2>3, <2>5, <2>6, <2>7
<1> QED
  BY <1>4, <1>5 DEF WriteStep

LEMMA WriteTypes ==
  ASSUME TypesOK, NEW e \in Ends, WriteStep(e)
  PROVE  TypesOK'
<1>1. WireOK'
  <2>1. CASE out' = out
    BY <2>1, WriteIs, SameTypes DEF WireOK
  <2>2. ASSUME NEW k \in 0 .. job[e].need, Taken(e, k), k <= Room(e)
        PROVE  WireOK'
    <3>1. PICK x \in Seq(ByteSet) : out' = [out EXCEPT ![e] = out[e] \o x] /\ Len(x) = k
      BY <2>2, WriteIs, TakenPiece
    <3>2. PICK o \in Seq(ByteSet) : o = out[e]
      BY DEF TypesOK, SocketsOK
    <3>3. o \o x \in Seq(ByteSet) /\ Len(o \o x) = Len(o) + k
      BY <3>1, ConcatProperties
    <3>4. k \in Nat /\ Len(o) \in Nat /\ Space \in Nat /\ k <= Space - Len(o)
      BY <2>2, <3>2, WriteIs, LenProperties, NetworkAssumption DEF Room
    <3>5. Len(o \o x) <= Space
      BY <3>3, <3>4
    <3>6. /\ out' = [out EXCEPT ![e] = o \o x] /\ inbox' = inbox /\ broken' = broken /\ WireOK
      BY <3>1, <3>2, WriteIs, SameTypes
    <3> QED
      BY <3>3, <3>5, <3>6 DEF WireOK
  <2> QED
    BY <2>1, <2>2, WriteIs
<1>2. \E k : Wrote(e, k)
  BY WriteIs
<1>3. /\ blocking' \in [Ends -> BOOLEAN] /\ torn' \subseteq Ends /\ failed' \subseteq closed'
      /\ closed' = closed /\ got' = [got EXCEPT ![e] = got[e]] /\ got[e] \in Seq(Nat)
  BY WriteIs, SameTypes DEF TypesOK, SocketsOK
<1>4. \E s \in Nat : sent' = [sent EXCEPT ![e] = s]
  <2>1. sent' = [sent EXCEPT ![e] = sent[e] + 1] \/ sent' = sent
    BY <1>2 DEF Wrote
  <2>2. sent[e] \in Nat /\ sent[e] + 1 \in Nat /\ sent = [sent EXCEPT ![e] = sent[e]]
    BY SameTypes
  <2> QED
    BY <2>1, <2>2
<1>5. job'[e] \in Jobs /\ job' = [job EXCEPT ![e] = job'[e]] /\ JobOK(e)'
  BY <1>2 DEF Wrote
<1>6. PICK j \in Jobs, s \in Nat : job' = [job EXCEPT ![e] = j] /\ sent' = [sent EXCEPT ![e] = s]
  BY <1>4, <1>5
<1> QED
  BY <1>1, <1>3, <1>5, <1>6, EndStep

(* A write puts at most one packet, and takes none back.                   *)
LEMMA PutGrows ==
  ASSUME TypesOK, NEW e \in Ends, job[e].op = "send", NEW k \in 0 .. job[e].need, Wrote(e, k)
  PROVE  /\ Put(e) \in Nat /\ Put(e)' \in {Put(e), Put(e) + 1} /\ Put(e)' <= Len(Protocol[e])
<1>1. PICK s \in Nat, p \in Nat, w \in Nat, need \in Nat, q \in Nat :
        /\ s = sent[e] /\ p = Put(e) /\ w = Written(e) /\ need = job[e].need /\ q = PacketEnd[e][s + 1]
        /\ p \in {s, s + 1} /\ w <= q /\ w + need <= q /\ s + 1 <= Len(Protocol[e])
  <2>1. sent[e] \in Nat /\ job[e].need \in Nat /\ sent[e] + 1 \in 0 .. Len(Protocol[e])
        /\ sent[e] + 1 <= Len(Protocol[e])
    <3>1. sent[e] \in Nat /\ job[e].need \in Nat /\ sent[e] + 1 \in 1 .. Len(Protocol[e])
          /\ Len(Protocol[e]) \in Nat
      BY SameTypes, SendingOK, PacketEnds
    <3> QED
      BY <3>1
  <2>2. PacketEnd[e][sent[e] + 1] \in Nat
    BY <2>1, PacketEnds
  <2>3. /\ Written(e) \in Nat /\ Put(e) \in {sent[e], sent[e] + 1} /\ Put(e) \in 0 .. Len(Protocol[e])
        /\ Written(e) <= PacketEnd[e][sent[e] + 1] /\ Written(e) + job[e].need <= PacketEnd[e][sent[e] + 1]
    BY WrittenOK
  <2>4. Put(e) \in Nat
    BY <2>3
  <2> QED
    BY <2>1, <2>2, <2>3, <2>4
<1>2. s + 1 # s /\ s < s + 1
  OBVIOUS
<1>3. CASE job'[e] = Idle /\ sent' = [sent EXCEPT ![e] = sent[e] + 1]
  <2>1. job'[e].op # "send" /\ sent'[e] = s + 1
    BY <1>1, <1>3, Resting DEF TypesOK, SocketsOK
  <2>2. Put(e)' = s + 1
    BY <2>1 DEF Put
  <2> QED
    BY <1>1, <2>2
<1>4. CASE job'[e].op = "send" /\ sent' = sent
  <2>1. Put(e)' = IF Written(e)' = PacketEnd[e][s + 1] THEN s + 1 ELSE s
    BY <1>1, <1>4 DEF Put
  <2>2. Put(e) = IF w = q THEN s + 1 ELSE s
    BY <1>1 DEF Put
  <2>3. PICK l \in Nat : l = k /\ l <= need /\ Written(e)' = w + l
    BY <1>1 DEF Wrote
  <2>4. w = q => w + l = q
    BY <1>1, <2>3
  <2> QED
    BY <1>1, <2>1, <2>2, <2>3, <2>4
<1> QED
  BY <1>3, <1>4 DEF Wrote

(* What a step that gets leaves to the other end.                          *)
GetMove(e) ==
  /\ \E j \in Jobs : job' = [job EXCEPT ![e] = j] /\ j.op \in {"idle", "get"}
  /\ \A x \in Ends : x # e => got'[x] = got[x]
  /\ closed \subseteq closed'

LEMMA FieldReadTypes ==
  ASSUME TypesOK, NEW e \in Ends, Getting(e), NEW rx \in Seq(ByteSet),
         (\E p \in Nat : Give(e, p)) \/ Fail(e) \/ NextField(e, rx),
         NextField(e, rx) => job[e].field < LastField(Peer(e), Len(got[e]) + 1),
         WireOK', UNCHANGED <<sent, torn>>, blocking' \in [Ends -> BOOLEAN]
  PROVE  TypesOK' /\ GetMove(e)
<1>1. SocketsOK /\ JobOK(e) /\ job[e].op = "get" /\ e \notin closed
  BY SameTypes DEF TypesOK, Getting
<1>2. PICK j \in Jobs :
        /\ job' = [job EXCEPT ![e] = j] /\ NeedOK(j.need)
        /\ \/ /\ j = Idle /\ \E p \in Nat : got' = [got EXCEPT ![e] = Append(got[e], p)]
              /\ UNCHANGED <<closed, failed>>
           \/ /\ j = Idle /\ UNCHANGED got /\ Fail(e)
           \/ /\ j.op = "get" /\ j.field = job[e].field + 1 /\ j.rx = rx
              /\ j.need \in Widths(e, job[e].field + 1, rx)
              /\ UNCHANGED <<got, closed, failed>>
              /\ NextField(e, rx)
  BY <1>1, ReadJob
<1>3. job'[e] = j /\ sent'[e] = sent[e] /\ sent[e] \in Nat /\ sent[e] <= Len(Protocol[e])
      /\ sent' = [sent EXCEPT ![e] = sent[e]]
  BY <1>2, SameTypes DEF TypesOK, SocketsOK
<1>4. \E g \in Seq(Nat) : got' = [got EXCEPT ![e] = g]
  <2>1. got[e] \in Seq(Nat) /\ got = [got EXCEPT ![e] = got[e]]
    BY SameTypes
  <2>2. \A p \in Nat : Append(got[e], p) \in Seq(Nat)
    BY <2>1, AppendProperties
  <2> QED
    BY <1>2, <2>1, <2>2
<1>5. JobOK(e)'
  <2>1. CASE j = Idle
    BY <1>2, <1>3, <2>1, IdleStep
  <2>2. CASE j.op = "get" /\ j.field = job[e].field + 1 /\ NextField(e, rx) /\ UNCHANGED <<got, closed>>
    <3>1. Len(got[e]) < Len(Protocol[Peer(e)]) /\ job[e].field \in 1 .. LastField(Peer(e), Len(got[e]) + 1)
          /\ job[e].field < LastField(Peer(e), Len(got[e]) + 1) /\ got[e] \in Seq(Nat)
      BY <1>1, <2>2, SameTypes DEF JobOK
    <3>2. LastField(Peer(e), Len(got[e]) + 1) \in 1 .. 4
      BY <3>1, Peers, PacketEnds, PacketFields
    <3>3. j.field \in 1 .. LastField(Peer(e), Len(got[e]) + 1)
      BY <2>2, <3>1, <3>2
    <3> QED
      BY <1>1, <1>2, <1>3, <2>2, <3>1, <3>3 DEF JobOK, NeedOK
  <2> QED
    BY <1>2, <2>1, <2>2
<1>6. /\ closed \subseteq closed' /\ closed' \subseteq closed \cup {e} /\ failed' \subseteq closed'
      /\ torn' \subseteq Ends
  BY <1>2 DEF Fail, TypesOK, SocketsOK
<1>7. GetMove(e)
  BY <1>2, <1>4, <1>6, Resting DEF GetMove, TypesOK, SocketsOK
<1> QED
  BY <1>2, <1>3, <1>4, <1>5, <1>6, <1>7, EndStep

LEMMA PacketOfOK ==
  ASSUME NEW e \in Ends, NEW rx
  PROVE  PacketOf(e, rx) \in 0 .. Len(Protocol[Peer(e)]) /\ PacketOf(e, rx) \in Nat
<1> DEFINE d == Peer(e)
<1>1. d \in Ends /\ Len(Protocol[d]) \in Nat /\ DOMAIN Protocol[d] = 1 .. Len(Protocol[d])
  BY Peers, PacketEnds
<1>2. CASE \E n \in DOMAIN Protocol[d] : rx = Bytes[d][n]
  <2>1. PacketOf(e, rx) \in DOMAIN Protocol[d]
    BY <1>2 DEF PacketOf
  <2> QED
    BY <1>1, <2>1
<1>3. CASE ~ \E n \in DOMAIN Protocol[d] : rx = Bytes[d][n]
  <2>1. PacketOf(e, rx) = 0
    BY <1>3 DEF PacketOf
  <2> QED
    BY <1>1, <2>1
<1> QED
  BY <1>2, <1>3

(* A packet whose first field is a tag has more fields.                    *)
LEMMA Tagged ==
  ASSUME NEW e \in Ends, GetFields(e)[job[e].field] = "tag", Expected(e).kind \in Kinds,
         job[e].field \in 1 .. Len(GetFields(e))
  PROVE  job[e].field = 1 /\ Expected(e).kind \in {"int", "string"} /\ 1 < Len(GetFields(e))
BY DEF GetFields, Fields, Kinds

LEMMA TakeTypes ==
  ASSUME TypesOK, NEW e \in Ends, Getting(e), Take(e, Available(e)),
         UNCHANGED <<sent, torn>>, blocking' \in [Ends -> BOOLEAN]
  PROVE  TypesOK' /\ (broken => broken') /\ GetMove(e)
<1> DEFINE k == Available(e)
           rx == Read(e, k)
<1>1. /\ k \in Nat /\ k <= job[e].need /\ job[e].need \in Nat
      /\ rx \in Seq(ByteSet) /\ Rest(e, k) \in Seq(ByteSet) /\ Len(Rest(e, k)) <= Len(inbox[e])
  BY ReadBytes DEF TypesOK
<1>2. Consume(e, Rest(e, k))
  BY DEF Take
<1>3. WireOK' /\ (broken => broken')
  BY <1>1, <1>2, ConsumeWire DEF TypesOK
<1>4. CASE k = job[e].need
  <2>1. FieldRead(e, rx)
    BY <1>4 DEF Take
  <2>2. Len(GetFields(e)) = LastField(Peer(e), Len(got[e]) + 1)
    BY DEF GetFields, Expected, LastField
  <2>3. CASE Give(e, PacketOf(e, rx))
    <3>1. \E p \in Nat : Give(e, p)
      BY <2>3, PacketOfOK
    <3>2. NextField(e, rx) => FALSE
      <4>1. job'[e].op = "idle" /\ job[e].op = "get" /\ job[e] \in Jobs
        BY <2>3, Resting, SameTypes DEF Give, Getting, TypesOK, SocketsOK
      <4>2. SUFFICES ASSUME NextField(e, rx) PROVE FALSE
        OBVIOUS
      <4>3. PICK w : job' = [job EXCEPT ![e].field = job[e].field + 1, ![e].need = w, ![e].rx = rx]
        BY <4>2 DEF NextField
      <4>4. job'[e].op = job[e].op
        <5>1. PICK i \in Jobs : i = job[e]
          BY <4>1
        <5>2. PICK j : j = [i EXCEPT !.field = job[e].field + 1, !.need = w, !.rx = rx]
          OBVIOUS
        <5>3. j.op = i.op
          BY <5>2 DEF Jobs
        <5>4. job'[e] = j
          BY <4>3, <5>1, <5>2 DEF TypesOK, SocketsOK
        <5> QED
          BY <5>1, <5>3, <5>4
      <4> QED
        BY <4>1, <4>4
    <3> HIDE DEF rx
    <3> QED
      BY <1>1, <1>3, <3>1, <3>2, FieldReadTypes
  <2>4. CASE NextField(e, rx) /\ job[e].field < Len(GetFields(e))
    <3> HIDE DEF rx
    <3> QED
      BY <1>1, <1>3, <2>2, <2>4, FieldReadTypes
  <2>5. CASE Fail(e) /\ ~NextField(e, rx)
    <3> HIDE DEF rx
    <3> QED
      BY <1>1, <1>3, <2>5, FieldReadTypes
  <2>6. CASE Fail(e) /\ NextField(e, rx)
    <3>1. e \in closed' /\ closed' = closed
      BY <2>6 DEF Fail, NextField
    <3> QED
      BY <3>1, SameTypes DEF Getting
  <2> QED
    BY <2>1, <2>3, <2>4, <2>5, <2>6 DEF FieldRead
<1>5. CASE k # job[e].need
  <2>1. /\ job' = [job EXCEPT ![e].need = job[e].need - k, ![e].rx = rx]
        /\ UNCHANGED <<got, closed, failed>>
    BY <1>5 DEF Take
  <2>2. PICK i \in Jobs : i = job[e] /\ i.op = "get" /\ job \in [Ends -> Jobs]
    BY DEF TypesOK, SocketsOK, Getting
  <2>3. PICK m \in Nat : m = i.need - k /\ m <= i.need
    BY <1>1, <2>2
  <2>4. PICK j : j = [i EXCEPT !.need = m, !.rx = rx]
    OBVIOUS
  <2>5. j \in Jobs /\ j.op = "get" /\ j.field = i.field /\ j.need = m
    BY <1>1, <2>2, <2>4 DEF Jobs
  <2>6. job' = [job EXCEPT ![e] = j]
    BY <2>1, <2>2, <2>3, <2>4
  <2>7. NeedOK(m)
    <3>1. PICK l \in Lengths : i.need <= l
      BY <2>2 DEF TypesOK, JobOK, NeedOK
    <3>2. l \in Nat
      <4>1. ASSUME NEW d \in Ends, NEW n \in DOMAIN Protocol[d]
            PROVE  Size[d][n] \in Nat
        BY FieldEnds
      <4> QED
        BY <4>1, NetworkAssumption DEF Lengths
    <3>3. m <= l
      BY <1>1, <2>2, <2>3, <3>1, <3>2
    <3> QED
      BY <3>1, <3>3 DEF NeedOK
  <2>8. JobOK(e)'
    <3>1. job'[e] = j /\ sent'[e] = sent[e] /\ got'[e] = got[e] /\ closed' = closed
      BY <2>1, <2>2, <2>6
    <3> QED
      BY <2>2, <2>5, <2>7, <3>1 DEF TypesOK, JobOK
  <2>9. /\ sent' = [sent EXCEPT ![e] = sent[e]] /\ got' = [got EXCEPT ![e] = got[e]]
        /\ sent[e] \in Nat /\ got[e] \in Seq(Nat)
        /\ torn' \subseteq Ends /\ failed' \subseteq closed' /\ closed' = closed
    BY <2>1, SameTypes DEF TypesOK, SocketsOK
  <2> QED
    BY <1>3, <2>1, <2>5, <2>6, <2>8, <2>9, EndStep DEF GetMove
<1> QED
  BY <1>4, <1>5

LEMMA GetNothingTypes ==
  ASSUME TypesOK, NEW e \in Ends, GetNothing(e)
  PROVE  TypesOK' /\ GetMove(e)
<1> DEFINE rx == job[e].rx
           f == job[e].field
<1>1. /\ Getting(e) /\ UNCHANGED <<sent, wire, blocking, torn>> /\ rx \in Seq(ByteSet)
  BY SameTypes DEF GetNothing, Jobs
<1>2. WireOK' /\ blocking' \in [Ends -> BOOLEAN]
  BY <1>1, SameTypes DEF WireOK, wire, TypesOK, SocketsOK
<1>3. Len(GetFields(e)) = LastField(Peer(e), Len(got[e]) + 1)
  BY DEF GetFields, Expected, LastField
<1>4. \/ Give(e, 0)
      \/ f < Len(GetFields(e)) /\ NextField(e, rx)
      \/ GetFields(e)[f] = "tag" /\ Fail(e)
  BY DEF GetNothing
<1>5. f < Len(GetFields(e)) \/ ~ NextField(e, rx)
  <2>1. SUFFICES ASSUME NextField(e, rx), ~ (f < Len(GetFields(e))) PROVE FALSE
    OBVIOUS
  <2>2. PICK w : job' = [job EXCEPT ![e].field = f + 1, ![e].need = w, ![e].rx = rx]
    BY <2>1 DEF NextField
  <2>3. job'[e].op = "get" /\ closed' = closed
    <3>1. PICK i \in Jobs : i = job[e] /\ i.op = "get"
      BY <1>1, SameTypes DEF Getting
    <3>2. PICK j : j = [i EXCEPT !.field = f + 1, !.need = w, !.rx = rx]
      OBVIOUS
    <3>3. j.op = i.op
      BY <3>2 DEF Jobs
    <3>4. job'[e] = j
      BY <2>2, <3>1, <3>2 DEF TypesOK, SocketsOK
    <3> QED
      BY <2>1, <3>1, <3>3, <3>4 DEF NextField
  <2>4. ~ Give(e, 0)
    BY <2>3, Resting DEF Give, TypesOK, SocketsOK
  <2>5. ~ Fail(e)
    BY <1>1, <2>3, SameTypes DEF Fail, Getting
  <2> QED
    BY <1>4, <2>1, <2>4, <2>5
<1>6. NextField(e, rx) => f < LastField(Peer(e), Len(got[e]) + 1)
  BY <1>3, <1>5
<1>7. (\E p \in Nat : Give(e, p)) \/ Fail(e) \/ NextField(e, rx)
  BY <1>4
<1> QED
  <2> HIDE DEF rx
  <2> QED
    BY <1>1, <1>2, <1>6, <1>7, FieldReadTypes DEF f

(* A read begins with the first field of the next packet.                  *)
LEMMA StartGetIs ==
  ASSUME TypesOK, NEW e \in Ends, StartGet(e)
  PROVE  /\ TypesOK'
         /\ \E j \in Jobs : /\ job' = [job EXCEPT ![e] = j] /\ j.op = "get" /\ j.field = 1
                            /\ j.need \in Widths(e, 1, <<>>) /\ j.rx = <<>>
<1> DEFINE n == Len(got[e]) + 1
           d == Peer(e)
<1>1. /\ got[e] \in Seq(Nat) /\ Len(got[e]) < Len(Protocol[d]) /\ e \notin closed
  BY SameTypes DEF StartGet, Ready
<1>2. n \in DOMAIN Protocol[d] /\ LastField(d, n) \in 1 .. 4
  BY <1>1, Peers, PacketEnds, PacketFields
<1>3. 1 \in 1 .. LastField(d, n)
  BY <1>2
<1>4. PICK w \in Widths(e, 1, <<>>) :
        job' = [job EXCEPT ![e] = [op |-> "get", field |-> 1, need |-> w, rx |-> <<>>]]
  BY DEF StartGet
<1>5. NeedOK(w)
  BY <1>1, <1>3, WidthsOK
<1>6. PICK j : j = [op |-> "get", field |-> 1, need |-> w, rx |-> <<>>]
  OBVIOUS
<1>7. /\ j \in Jobs /\ j.op = "get" /\ j.field = 1 /\ j.need = w /\ j.rx = <<>>
  BY <1>5, <1>6, EmptySeq DEF Jobs, NeedOK
<1>8. job' = [job EXCEPT ![e] = j] /\ UNCHANGED <<sent, got, wire, blocking, closed, torn, failed>>
  BY <1>4, <1>6 DEF StartGet
<1>9. job'[e] = j
  BY <1>8 DEF TypesOK, SocketsOK
<1>10. JobOK(e)'
  BY <1>1, <1>3, <1>5, <1>7, <1>8, <1>9, SameTypes DEF JobOK, NeedOK
<1> QED
  BY <1>7, <1>8, <1>10, JobStep

LEMMA PollTypes ==
  ASSUME TypesOK, NEW e \in Ends, StartPoll(e) \/ PollEnds(e)
  PROVE  TypesOK'
<1>1. CASE StartPoll(e)
  <2>1. PICK i \in Jobs : i = job[e]
    BY SameTypes
  <2>2. PICK j : j = [i EXCEPT !.op = "poll"]
    OBVIOUS
  <2>3. j \in Jobs /\ j.op = "poll" /\ j.need = i.need
    BY <2>1, <2>2 DEF Jobs
  <2>4. /\ job' = [job EXCEPT ![e] = j] /\ UNCHANGED <<sent, got, wire, blocking, closed, torn, failed>>
        /\ e \notin closed
    BY <1>1, <2>1, <2>2 DEF StartPoll, Ready
  <2>5. job'[e] = j
    BY <2>4 DEF TypesOK, SocketsOK
  <2>6. JobOK(e)'
    BY <2>1, <2>3, <2>4, <2>5 DEF TypesOK, JobOK
  <2> QED
    BY <2>3, <2>4, <2>6, JobStep
<1>2. CASE PollEnds(e)
  <2>1. job' = [job EXCEPT ![e] = Idle] /\ UNCHANGED <<sent, got, wire, blocking, closed, torn, failed>>
    BY <1>2 DEF PollEnds
  <2>2. JobOK(e)'
    <3>1. sent'[e] \in Nat /\ sent'[e] <= Len(Protocol[e])
      BY <2>1, SameTypes
    <3> QED
      BY <2>1, <3>1, IdleStep
  <2> QED
    BY <2>1, <2>2, Resting, JobStep
<1> QED
  BY <1>1, <1>2

LEMMA TypesInit == NetworkInit => TypesOK
<1> SUFFICES ASSUME NetworkInit PROVE TypesOK
  OBVIOUS
<1>1. /\ <<>> \in Seq(ByteSet) /\ <<>> \in Seq(Nat) /\ Len(<<>>) = 0
      /\ Space \in Nat /\ Window \in Nat
  BY EmptySeq, NetworkAssumption
<1>2. SocketsOK
  <2>1. /\ job \in [Ends -> Jobs] /\ sent \in [Ends -> Nat] /\ got \in [Ends -> Seq(Nat)]
        /\ out \in [Ends -> Seq(ByteSet)] /\ inbox \in [Ends -> Seq(ByteSet)]
    BY <1>1, Resting DEF NetworkInit
  <2>2. \A e \in Ends : out[e] = <<>> /\ inbox[e] = <<>>
    BY DEF NetworkInit
  <2>3. \A e \in Ends : Len(out[e]) <= Space /\ Len(inbox[e]) <= Window
    <3>1. Len(<<>>) <= Space /\ Len(<<>>) <= Window
      BY <1>1
    <3> QED
      BY <2>2, <3>1
  <2>4. /\ blocking \in [Ends -> BOOLEAN] /\ broken \in BOOLEAN
        /\ closed \subseteq Ends /\ torn \subseteq Ends /\ failed \subseteq closed
    BY DEF NetworkInit
  <2> QED
    BY <2>1, <2>3, <2>4 DEF SocketsOK
<1>3. ASSUME NEW e \in Ends
      PROVE  JobOK(e)
  <2>1. 0 <= Len(Protocol[e])
    BY PacketEnds
  <2> QED
    BY <2>1, Resting DEF NetworkInit, JobOK, NeedOK
<1> QED
  BY <1>2, <1>3 DEF TypesOK

LEMMA TypesKept ==
  ASSUME TypesOK, [NetworkNext]_netVars
  PROVE  TypesOK'
<1>1. ASSUME NEW e \in Ends, BlockRead(e) \/ ReadRaw(e)
      PROVE  TypesOK'
  <2>1. /\ Getting(e) /\ Take(e, Available(e)) /\ UNCHANGED <<sent, torn>>
        /\ blocking' \in [Ends -> BOOLEAN]
    BY <1>1 DEF BlockRead, ReadRaw, TypesOK, SocketsOK
  <2> QED
    BY <2>1, TakeTypes
<1>2. CASE UNCHANGED netVars
  <2>1. WireOK' /\ UNCHANGED <<job, sent, got, blocking, closed, torn, failed>>
    BY <1>2, SameTypes DEF netVars, wire, WireOK
  <2> QED
    BY <2>1, WireStep
<1> QED
  BY <1>1, <1>2, DeliverTypes, ResetTypes, SocketCloseTypes, StartSendTypes, WriteTypes, StartGetIs,
     GetNothingTypes, PollTypes DEF NetworkNext, ReadStep

-----------------------------------------------------------------------------
(* The order of the bytes.                                                 *)

HeldBytes(e)  == IF Getting(e) THEN job[e].rx ELSE <<>>
Clean(d) == d \notin torn /\ ~broken

(* All that a closed socket sent has been got.                             *)
Over(e) == LET d == Peer(e) IN
  d \in closed /\ inbox[e] = <<>> /\ out[d] = <<>> /\ Put(d) <= Len(got[e])

(* A script that gets is in a packet the other sent or will send, at the   *)
(* place its field says, or waits at the end of all for what will not come.*)
Reads(e) == LET d == Peer(e) n == Len(got[e]) + 1 IN
  /\ Len(got[e]) <= Put(d)
  /\ Len(job[e].rx) + job[e].need = FieldEnd[d][n][job[e].field]
  /\ job[e].need <= FieldWidth(d, n, job[e].field)

Waits(e) ==
  /\ Over(e) /\ job[e].rx = <<>> /\ job[e].need > 0
  /\ job[e].field = 1 \/ (job[e].field = 2 /\ Expected(e).kind \in {"int", "string"})

Ahead(e) == HeldBytes(e) \o inbox[e] \o out[Peer(e)]
Left(e)  == SubSeq(AllBytes[Peer(e)], PacketEnd[Peer(e)][Len(got[e])] + 1, Written(Peer(e)))

InOrder(e) == LET d == Peer(e) IN
  Clean(d) => /\ Len(got[e]) <= Put(d) => Ahead(e) = Left(e)
              /\ Put(d) < Len(got[e]) => Over(e)
              /\ Getting(e) => Reads(e) \/ Waits(e)

(* What an end that is idle, or gets, has written.                         *)
LEMMA NotSending ==
  ASSUME NEW d \in Ends, job[d].op # "send", job'[d].op # "send", sent'[d] = sent[d]
  PROVE  Written(d)' = Written(d) /\ Put(d)' = Put(d)
BY DEF Written, Put

LEMMA SameJob ==
  ASSUME NEW d \in Ends, job'[d] = job[d], sent'[d] = sent[d]
  PROVE  Written(d)' = Written(d) /\ Put(d)' = Put(d) /\ HeldBytes(d)' = HeldBytes(d)
BY DEF Written, Put, HeldBytes, Getting

(* A step elsewhere.                                                       *)
LEMMA Untouched ==
  ASSUME NEW e \in Ends, InOrder(e),
         got'[e] = got[e], inbox'[e] = inbox[e], out'[Peer(e)] = out[Peer(e)],
         Written(Peer(e))' = Written(Peer(e)), Put(Peer(e))' = Put(Peer(e)),
         Peer(e) \in closed => Peer(e) \in closed', Clean(Peer(e))' => Clean(Peer(e)),
         HeldBytes(e)' = HeldBytes(e), Getting(e)' => Getting(e) /\ job'[e] = job[e]
  PROVE  InOrder(e)'
<1> DEFINE d == Peer(e)
<1>1. SUFFICES ASSUME Clean(d)'
               PROVE  /\ (Len(got[e]) <= Put(d) => Ahead(e) = Left(e))'
                      /\ (Put(d) < Len(got[e]) => Over(e))'
                      /\ (Getting(e) => Reads(e) \/ Waits(e))'
  BY DEF InOrder
<1>2. /\ Len(got[e]) <= Put(d) => Ahead(e) = Left(e)
      /\ Put(d) < Len(got[e]) => Over(e)
      /\ Getting(e) => Reads(e) \/ Waits(e)
  BY <1>1 DEF InOrder
<1>3. Ahead(e)' = Ahead(e) /\ Left(e)' = Left(e) /\ (Over(e) => Over(e)')
  BY DEF Ahead, Left, Over
<1>4. Getting(e)' => (Reads(e) => Reads(e)') /\ (Waits(e) => Waits(e)')
  BY <1>3 DEF Reads, Waits, Expected
<1>5. (Len(got[e]) <= Put(d))' = (Len(got[e]) <= Put(d)) /\ (Put(d) < Len(got[e]))' = (Put(d) < Len(got[e]))
  OBVIOUS
<1> QED
  BY <1>2, <1>3, <1>4, <1>5

LEMMA OrderInit ==
  ASSUME NetworkInit, NEW e \in Ends
  PROVE  InOrder(e)
<1> DEFINE d == Peer(e)
<1>1. /\ d \in Ends /\ job[e].op = "idle" /\ job[d].op = "idle" /\ got[e] = <<>> /\ sent[d] = 0
      /\ inbox[e] = <<>> /\ out[d] = <<>>
  BY Peers, Resting DEF NetworkInit
<1>2. PacketEnd[d][0] = 0 /\ AllBytes[d] \in Seq(ByteSet)
  BY <1>1, PacketEnds, StreamBytes
<1>3. Written(d) = 0 /\ Put(d) = 0
  BY <1>1, <1>2 DEF Written, Put
<1>4. Len(<<>>) = 0 /\ <<>> \in Seq(ByteSet) /\ <<>> \o <<>> = <<>>
  BY EmptySeq, ConcatEmptySeq
<1>5. Ahead(e) = <<>>
  BY <1>1, <1>4 DEF Ahead, HeldBytes, Getting
<1>6. Left(e) = <<>>
  <2>1. PICK a : a = AllBytes[d]
    OBVIOUS
  <2>2. SubSeq(a, 0 + 1, 0) = <<>>
    BY SubSeqEmpty
  <2> QED
    BY <1>1, <1>2, <1>3, <1>4, <2>1, <2>2 DEF Left
<1> QED
  BY <1>1, <1>3, <1>4, <1>5, <1>6 DEF InOrder, Getting

(* A byte that arrives changes its place, not the order.                   *)
LEMMA Moved ==
  ASSUME NEW r \in Seq(ByteSet), NEW i \in Seq(ByteSet), NEW o \in Seq(ByteSet), o # <<>>
  PROVE  r \o Append(i, Head(o)) \o Tail(o) = r \o i \o o
<1>1. PICK h \in ByteSet, t \in Seq(ByteSet) : h = Head(o) /\ t = Tail(o)
  BY HeadTailProperties
<1>2. PICK one \in Seq(ByteSet) : one = <<h>> /\ Len(one) = 1 /\ one[1] = h
  <2>1. <<h>> \in Seq(ByteSet) /\ Len(<<h>>) = 1 /\ <<h>>[1] = h
    OBVIOUS
  <2> QED
    BY <2>1, Zenon
<1>3. one \o t = o
  <2>1. /\ Len(t) = Len(o) - 1 /\ Len(t) \in Nat /\ Len(o) \in Nat
        /\ \A k \in 1 .. Len(t) : t[k] = o[k + 1]
    BY <1>1, HeadTailProperties, LenProperties
  <2>2. /\ one \o t \in Seq(ByteSet) /\ Len(one \o t) = 1 + Len(t)
        /\ \A k \in 1 .. 1 + Len(t) : (one \o t)[k] = IF k <= 1 THEN one[k] ELSE t[k - 1]
    BY <1>2, ConcatProperties
  <2>3. h = o[1]
    BY <1>1
  <2>4. ASSUME NEW k \in 1 .. Len(o)
        PROVE  (one \o t)[k] = o[k]
    <3>1. CASE k = 1
      BY <1>2, <2>1, <2>2, <2>3, <3>1
    <3>2. CASE k # 1
      <4>1. k - 1 \in 1 .. Len(t) /\ (k - 1) + 1 = k /\ k \in 1 .. 1 + Len(t) /\ ~ (k <= 1)
        BY <2>1, <3>2
      <4> QED
        BY <2>1, <2>2, <4>1
    <3> QED
      BY <3>1, <3>2
  <2>5. Len(one \o t) = Len(o)
    BY <2>1, <2>2
  <2> QED
    BY <2>2, <2>4, <2>5, SeqEqual
<1>4. Append(i, h) = i \o one
  BY <1>2, AppendIsConcat
<1>5. r \o (i \o one) = (r \o i) \o one
  BY Regroup, ZenonT(60)
<1>6. r \o i \in Seq(ByteSet)
  BY ConcatProperties
<1>7. ((r \o i) \o one) \o t = (r \o i) \o (one \o t)
  BY <1>6, Regroup, ZenonT(60)
<1> QED
  BY <1>1, <1>3, <1>4, <1>5, <1>7

LEMMA HeldOK ==
  ASSUME TypesOK, NEW e \in Ends
  PROVE  /\ HeldBytes(e) \in Seq(ByteSet) /\ inbox[e] \in Seq(ByteSet) /\ out[e] \in Seq(ByteSet)
         /\ Len(got[e]) \in Nat
<1>1. job[e] \in Jobs /\ <<>> \in Seq(ByteSet) /\ got[e] \in Seq(Nat)
  BY SameTypes, EmptySeq
<1> QED
  BY <1>1, LenProperties DEF HeldBytes, Jobs, TypesOK, SocketsOK

LEMMA LostOrder ==
  ASSUME Lost, NEW e \in Ends
  PROVE  InOrder(e)'
BY DEF Lost, InOrder, Clean

LEMMA DeliverOrder ==
  ASSUME TypesOK, NEW a \in Ends, NEW e \in Ends, InOrder(e), Deliver(a)
  PROVE  InOrder(e)'
<1> DEFINE d == Peer(e)
<1>1. d \in Ends /\ d # e /\ Peer(d) = e /\ (\A x \in Ends : x = e \/ x = d)
  BY Peers, NetworkAssumption
<1>2. UNCHANGED <<job, sent, got, blocking, closed, torn, failed>> /\ out[a] # <<>>
  BY DEF Deliver
<1>3. CASE ~ Lost
  <2>1. /\ inbox' = [inbox EXCEPT ![Peer(a)] = Append(inbox[Peer(a)], Head(out[a]))]
        /\ out' = [out EXCEPT ![a] = Tail(out[a])] /\ broken' = broken
    BY <1>3 DEF Deliver
  <2>2. /\ Written(d)' = Written(d) /\ Put(d)' = Put(d) /\ HeldBytes(e)' = HeldBytes(e)
        /\ Clean(d)' = Clean(d) /\ Getting(e)' = Getting(e)
    BY <1>1, <1>2, <2>1, SameJob DEF Clean, Getting
  <2>3. CASE a = e
    <3>1. inbox'[e] = inbox[e] /\ out'[d] = out[d]
      BY <1>1, <2>1, <2>3 DEF TypesOK, SocketsOK
    <3> QED
      BY <1>1, <1>2, <2>2, <3>1, Untouched
  <2>4. CASE a = d
    <3>1. inbox'[e] = Append(inbox[e], Head(out[d])) /\ out'[d] = Tail(out[d]) /\ out[d] # <<>>
      BY <1>1, <1>2, <2>1, <2>4 DEF TypesOK, SocketsOK
    <3>2. Ahead(e)' = Ahead(e)
      <4>1. PICK r \in Seq(ByteSet), i \in Seq(ByteSet), o \in Seq(ByteSet) :
              r = HeldBytes(e) /\ i = inbox[e] /\ o = out[d]
        BY <1>1, HeldOK
      <4>2. Ahead(e)' = r \o Append(i, Head(o)) \o Tail(o)
        BY <2>2, <3>1, <4>1 DEF Ahead
      <4>3. Ahead(e) = r \o i \o o
        BY <4>1 DEF Ahead
      <4> QED
        BY <3>1, <4>1, <4>2, <4>3, Moved, ZenonT(40)
    <3>3. Left(e)' = Left(e) /\ (Getting(e) => (Reads(e) => Reads(e)'))
      BY <1>2, <2>2 DEF Left, Reads
    <3>4. ~ Over(e) /\ ~ Waits(e)
      BY <3>1 DEF Over, Waits
    <3>5. (Len(got[e]) <= Put(d))' = (Len(got[e]) <= Put(d)) /\ (Put(d) < Len(got[e]))' = (Put(d) < Len(got[e]))
      BY <1>2, <2>2
    <3> QED
      BY <2>2, <3>2, <3>3, <3>4, <3>5 DEF InOrder
  <2> QED
    BY <1>1, <2>3, <2>4
<1> QED
  BY <1>3, LostOrder

LEMMA SocketCloseOrder ==
  ASSUME TypesOK, NEW a \in Ends, NEW e \in Ends, InOrder(e), SocketClose(a)
  PROVE  InOrder(e)'
<1>1. closed' = closed \cup {a} /\ UNCHANGED <<job, sent, got, blocking, torn, failed>>
  BY DEF SocketClose, CloseSocket
<1>2. CASE inbox[a] = <<>>
  <2>1. out' = out /\ broken' = broken /\ inbox' = [inbox EXCEPT ![a] = <<>>]
    BY <1>2 DEF SocketClose, CloseSocket
  <2>2. inbox' = inbox
    BY <1>2, <2>1 DEF TypesOK, SocketsOK
  <2> QED
    BY <1>1, <2>1, <2>2, Peers, SameJob, Untouched DEF Clean, Getting
<1>3. CASE inbox[a] # <<>>
  BY <1>3, LostOrder DEF SocketClose, CloseSocket
<1> QED
  BY <1>2, <1>3

(* Nothing is written yet.                                                 *)
LEMMA StartSendPut ==
  ASSUME TypesOK, NEW e \in Ends, StartSend(e)
  PROVE  Written(e)' = Written(e) /\ Put(e)' = Put(e)
<1> DEFINE n == sent[e] + 1
<1>1. PICK j \in Jobs : /\ job' = [job EXCEPT ![e] = j] /\ j.op = "send" /\ j.field = 1
                        /\ j.need = FieldWidth(e, n, 1)
  BY StartSendTypes
<1>2. /\ job'[e] = j /\ sent' = sent /\ job[e].op # "send" /\ sent[e] \in Nat
      /\ sent[e] < Len(Protocol[e])
  BY <1>1, SameTypes DEF StartSend, Ready, TypesOK, SocketsOK
<1>3. Written(e) = PacketEnd[e][sent[e]] /\ Put(e) = sent[e]
  BY <1>2, WrittenOK
<1>4. n \in 1 .. Len(Protocol[e]) /\ n - 1 = sent[e] /\ n \in DOMAIN Protocol[e]
  BY <1>2, PacketEnds
<1>5. PICK p \in Nat, w \in Nat, z \in Nat : /\ p = PacketEnd[e][sent[e]] /\ w = FieldWidth(e, n, 1)
                                             /\ z = Size[e][n] /\ z > 0
  <2>1. /\ LastField(e, n) \in 1 .. 4 /\ Size[e][n] \in Nat \ {0} /\ PacketEnd[e][sent[e]] \in Nat
    BY <1>2, <1>4, PacketFields, FieldEnds, SameTypes, PacketEnds
  <2>2. FieldWidth(e, n, 1) \in Nat
    BY <1>4, <2>1, PacketFields
  <2>3. Size[e][n] \in Nat /\ Size[e][n] > 0
    BY <2>1
  <2> QED
    BY <2>1, <2>2, <2>3, Zenon
<1>6. FieldEnd[e][n][1] = 0 + w
  <2>1. 1 \in 1 .. LastField(e, n) /\ 1 - 1 = 0
    BY <1>4, PacketFields
  <2>2. FieldEnd[e][n][1] = FieldEnd[e][n][1 - 1] + FieldWidth(e, n, 1) /\ FieldEnd[e][n][0] = 0
    BY <1>4, <2>1, FieldEnds
  <2> QED
    BY <1>5, <2>1, <2>2
<1>7. Written(e)' = p + ((0 + w) - w)
  BY <1>1, <1>2, <1>5, <1>6 DEF Written
<1>8. Written(e)' = p
  BY <1>5, <1>7
<1>9. PacketEnd[e][n] = p + z
  BY <1>4, <1>5, PacketEnds
<1>10. Put(e)' = sent[e]
  <2>1. p # p + z
    BY <1>5
  <2> QED
    BY <1>2, <1>8, <1>9, <2>1 DEF Put
<1> QED
  BY <1>3, <1>5, <1>8, <1>10

(* A step of an end that neither gets nor writes bytes.                    *)
LEMMA JobOrder ==
  ASSUME TypesOK, NEW a \in Ends, NEW j \in Jobs, job' = [job EXCEPT ![a] = j],
         job[a].op # "get", j.op # "get", UNCHANGED <<sent, got, wire, blocking, closed, torn, failed>>,
         Written(a)' = Written(a), Put(a)' = Put(a), NEW e \in Ends, InOrder(e)
  PROVE  InOrder(e)'
<1> DEFINE d == Peer(e)
<1>1. d \in Ends /\ d # e /\ (\A x \in Ends : x = e \/ x = d)
  BY Peers, NetworkAssumption
<1>2. \A x \in Ends : job'[x] = IF x = a THEN j ELSE job[x]
  BY DEF TypesOK, SocketsOK
<1>3. Written(d)' = Written(d) /\ Put(d)' = Put(d)
  BY <1>1, <1>2, SameJob
<1>4. HeldBytes(e)' = HeldBytes(e) /\ (Getting(e)' => Getting(e) /\ job'[e] = job[e])
  BY <1>2 DEF HeldBytes, Getting
<1> QED
  BY <1>1, <1>3, <1>4, Untouched DEF Clean, wire

LEMMA StartSendOrder ==
  ASSUME TypesOK, NEW a \in Ends, NEW e \in Ends, InOrder(e), StartSend(a)
  PROVE  InOrder(e)'
<1>1. \E j \in Jobs : job' = [job EXCEPT ![a] = j] /\ j.op = "send"
  BY StartSendTypes
<1> QED
  BY <1>1, StartSendPut, JobOrder DEF StartSend, Ready

LEMMA PollPut ==
  ASSUME TypesOK, NEW e \in Ends, StartPoll(e) \/ PollEnds(e)
  PROVE  /\ Written(e)' = Written(e) /\ Put(e)' = Put(e) /\ job[e].op # "get"
         /\ \E j \in Jobs : job' = [job EXCEPT ![e] = j] /\ j.op # "get"
         /\ UNCHANGED <<sent, got, wire, blocking, closed, torn, failed>>
<1>1. UNCHANGED <<sent, got, wire, blocking, closed, torn, failed>> /\ job[e].op \in {"idle", "poll"}
  BY DEF StartPoll, PollEnds, Ready
<1>2. PICK j \in Jobs : job' = [job EXCEPT ![e] = j] /\ j.op \in {"idle", "poll"}
  <2>1. PICK i \in Jobs : i = job[e]
    BY SameTypes
  <2>2. PICK j : j = [i EXCEPT !.op = "poll"]
    OBVIOUS
  <2>3. j \in Jobs /\ j.op = "poll"
    BY <2>1, <2>2 DEF Jobs
  <2> QED
    BY <2>1, <2>2, <2>3, Resting DEF StartPoll, PollEnds
<1>3. job'[e] = j
  BY <1>2 DEF TypesOK, SocketsOK
<1> QED
  BY <1>1, <1>2, <1>3, NotSending

LEMMA PollOrder ==
  ASSUME TypesOK, NEW a \in Ends, NEW e \in Ends, InOrder(e), StartPoll(a) \/ PollEnds(a)
  PROVE  InOrder(e)'
BY PollPut, JobOrder

(* What is written comes after what was.                                   *)
LEMMA WriteOrder ==
  ASSUME TypesOK, NEW a \in Ends, NEW e \in Ends, InOrder(e), WriteStep(a)
  PROVE  InOrder(e)'
<1> DEFINE d == Peer(e)
<1>1. d \in Ends /\ d # e /\ (\A x \in Ends : x = e \/ x = d)
  BY Peers, NetworkAssumption
<1>2. /\ job[a].op = "send" /\ a \notin closed /\ job[a].need \in Nat
      /\ UNCHANGED <<got, inbox, broken, blocking, closed, failed>>
  BY WriteIs
<1>3. \E k : Wrote(a, k)
  BY WriteIs
<1>4. job'[a].op # "get" /\ \A x \in Ends : x # a => job'[x] = job[x] /\ sent'[x] = sent[x]
  BY <1>3, Resting DEF Wrote, TypesOK, SocketsOK
<1>5. CASE a = e
  <2>1. out'[d] = out[d]
    BY <1>1, <1>5, WriteIs, ZenonT(40) DEF Taken, TypesOK, SocketsOK
  <2>2. Clean(d)' => Clean(d)
    BY WriteIs DEF Clean
  <2> QED
    BY <1>1, <1>2, <1>4, <1>5, <2>1, <2>2, SameJob, Untouched DEF HeldBytes, Getting
<1>6. CASE a = d
  <2>1. SUFFICES ASSUME Clean(d)'
                 PROVE  InOrder(e)'
    BY DEF InOrder
  <2>2. PICK k \in 0 .. job[d].need : Taken(d, k) /\ Wrote(d, k) /\ Clean(d)
    BY <1>6, <2>1, WriteIs DEF Clean
  <2>3. PICK x \in Seq(ByteSet) :
          /\ out' = [out EXCEPT ![d] = out[d] \o x] /\ Len(x) = k
          /\ x = SubSeq(AllBytes[d], Written(d) + 1, Written(d) + k)
          /\ Written(d) + k <= Len(AllBytes[d])
    BY <1>1, <1>2, <1>6, <2>2, TakenPiece
  <2>4. /\ job'[e] = job[e] /\ sent'[e] = sent[e] /\ out'[d] = out[d] \o x /\ Written(d)' = Written(d) + k
        /\ HeldBytes(e)' = HeldBytes(e) /\ Getting(e)' = Getting(e)
    BY <1>1, <1>4, <1>6, <2>2, <2>3 DEF Wrote, TypesOK, SocketsOK, HeldBytes, Getting
  <2>5. Put(d) \in Nat /\ Put(d)' \in {Put(d), Put(d) + 1} /\ Put(d) \in 0 .. Len(Protocol[d])
    BY <1>1, <1>2, <1>6, <2>2, PutGrows, WrittenOK
  <2>6. /\ ~ Over(e) /\ ~ Waits(e) /\ ~ (Put(d) < Len(got[e]))
        /\ (Len(got[e]) <= Put(d) => Ahead(e) = Left(e)) /\ (Getting(e) => Reads(e))
    BY <1>2, <1>6, <2>2 DEF InOrder, Over, Waits
  <2>7. Len(got[e]) \in Nat /\ Len(got[e]) <= Put(d) /\ Len(got[e]) <= Put(d)' /\ ~ (Put(d)' < Len(got[e]))
    BY <2>5, <2>6, HeldOK
  <2>8. Ahead(e)' = Left(e)'
    <3>1. PICK A \in Seq(ByteSet), p \in Nat, w \in Nat, l \in Nat :
            /\ A = AllBytes[d] /\ p = PacketEnd[d][Len(got[e])] /\ w = Written(d)
            /\ p <= w /\ w + k <= l /\ l = Len(A)
      <4>1. Len(got[e]) \in 0 .. Len(Protocol[d])
        BY <1>1, <2>5, <2>7, PacketEnds
      <4>2. PacketEnd[d][Len(got[e])] \in Nat /\ PacketEnd[d][Len(got[e])] <= Written(d)
        BY <1>1, <2>7, <4>1, PacketEnds, PutCounts
      <4> QED
        BY <1>1, <2>3, <4>2, WrittenOK, StreamBytes
    <3>2. PICK m \in Nat : m = k
      BY <2>2, <1>2
    <3>3. p + 1 \in 1 .. Len(A) + 1 /\ w \in (p + 1) - 1 .. Len(A) /\ w + m \in w .. Len(A)
      <4>1. p <= w /\ w + m <= l /\ l = Len(A)
        BY <3>1, <3>2, Zenon
      <4>2. p + 1 \in 1 .. l + 1 /\ w \in (p + 1) - 1 .. l /\ w + m \in w .. l
        BY <4>1
      <4> QED
        BY <4>1, <4>2, Zenon
    <3>4. SubSeq(A, p + 1, w) \o SubSeq(A, w + 1, w + m) = SubSeq(A, p + 1, w + m)
      BY <3>3, ConcatAdjacentSubSeq
    <3>5. PICK r \in Seq(ByteSet), i \in Seq(ByteSet), o \in Seq(ByteSet) :
            r = HeldBytes(e) /\ i = inbox[e] /\ o = out[d]
      BY <1>1, HeldOK
    <3>6. Ahead(e)' = r \o i \o (o \o x) /\ Ahead(e) = r \o i \o o
      BY <1>2, <2>4, <3>5 DEF Ahead
    <3>7. Ahead(e)' = Ahead(e) \o x
      <4>1. r \o i \in Seq(ByteSet)
        BY ConcatProperties
      <4>2. ((r \o i) \o o) \o x = (r \o i) \o (o \o x)
        BY <4>1, Regroup, ZenonT(40)
      <4> QED
        BY <3>6, <4>2
    <3>8. Left(e) = SubSeq(A, p + 1, w) /\ Left(e)' = SubSeq(A, p + 1, w + k)
      BY <1>2, <2>4, <3>1 DEF Left
    <3>9. x = SubSeq(A, w + 1, w + k)
      BY <2>3, <3>1
    <3> QED
      BY <2>6, <2>7, <3>2, <3>4, <3>7, <3>8, <3>9
  <2>9. Getting(e)' => Reads(e)'
    BY <1>2, <2>4, <2>6, <2>7 DEF Reads
  <2> QED
    BY <1>2, <2>7, <2>8, <2>9 DEF InOrder
<1> QED
  BY <1>1, <1>5, <1>6

LEMMA PlainWidth ==
  ASSUME NEW e \in Ends, NEW f, NEW rx,
         GetFields(e)[f] \notin {"chars", "body"} \/ Expected(e).kind = "raw"
  PROVE  Widths(e, f, rx) = {FieldWidth(Peer(e), Len(got[e]) + 1, f)}
BY DEF Widths, GetFields, FieldWidth, Expected

(* The packet a script gets.                                               *)
LEMMA GettingOK ==
  ASSUME TypesOK, NEW e \in Ends, Len(got[e]) < Len(Protocol[Peer(e)])
  PROVE  LET d == Peer(e) n == Len(got[e]) + 1
         IN  /\ d \in Ends /\ n \in DOMAIN Protocol[d] /\ n \in 1 .. Len(Protocol[d])
             /\ Len(got[e]) \in 0 .. Len(Protocol[d]) /\ n \in 0 .. Len(Protocol[d])
             /\ n - 1 = Len(got[e]) /\ n \in Nat /\ Len(got[e]) \in Nat
             /\ Expected(e) = Protocol[d][n] /\ Expected(e).kind \in Kinds
             /\ Len(GetFields(e)) = LastField(d, n) /\ LastField(d, n) \in 1 .. 4
             /\ PacketEnd[d][n] = PacketEnd[d][Len(got[e])] + Size[d][n]
             /\ PacketEnd[d][Len(got[e])] \in Nat /\ Size[d][n] \in Nat
             /\ \A f \in 1 .. LastField(d, n) :
                  /\ FieldWidth(d, n, f) \in Nat
                  /\ FieldEnd[d][n][f] = FieldEnd[d][n][f - 1] + FieldWidth(d, n, f)
                  /\ FieldEnd[d][n][f - 1] \in Nat
                  /\ FieldEnd[d][n][f] \in Nat /\ FieldEnd[d][n][f] <= Size[d][n]
                  /\ FieldEnd[d][n][f] > 0
             /\ FieldEnd[d][n][0] = 0 /\ FieldWidth(d, n, 1) > 0
<1> DEFINE d == Peer(e)
           n == Len(got[e]) + 1
<1>1. d \in Ends /\ Len(Protocol[d]) \in Nat /\ DOMAIN Protocol[d] = 1 .. Len(Protocol[d])
  BY Peers, PacketEnds
<1>2. Len(got[e]) \in Nat /\ Len(got[e]) < Len(Protocol[d])
  BY SameTypes, LenProperties
<1>3. /\ n \in 1 .. Len(Protocol[d]) /\ n \in DOMAIN Protocol[d] /\ n \in 0 .. Len(Protocol[d])
      /\ Len(got[e]) \in 0 .. Len(Protocol[d]) /\ n - 1 = Len(got[e]) /\ n \in Nat
  BY <1>1, <1>2
<1>4. /\ Expected(e) = Protocol[d][n] /\ Expected(e).kind \in Kinds
      /\ Len(GetFields(e)) = LastField(d, n) /\ LastField(d, n) \in 1 .. 4
  BY <1>1, <1>3, PacketFields DEF Expected, GetFields, LastField
<1>5. /\ PacketEnd[d][n] = PacketEnd[d][Len(got[e])] + Size[d][n]
      /\ PacketEnd[d][Len(got[e])] \in Nat /\ Size[d][n] \in Nat
  BY <1>1, <1>3, PacketEnds, FieldEnds, SMTT(30)
<1>6. ASSUME NEW f \in 1 .. LastField(d, n)
      PROVE  /\ FieldWidth(d, n, f) \in Nat
             /\ FieldEnd[d][n][f] = FieldEnd[d][n][f - 1] + FieldWidth(d, n, f)
             /\ FieldEnd[d][n][f - 1] \in Nat
             /\ FieldEnd[d][n][f] \in Nat /\ FieldEnd[d][n][f] <= Size[d][n]
             /\ FieldEnd[d][n][f] > 0
  <2>1. f \in 0 .. LastField(d, n) /\ f - 1 \in 0 .. LastField(d, n)
    BY <1>4
  <2> QED
    BY <1>1, <1>3, <2>1, PacketFields, FieldEnds
<1>7. FieldEnd[d][n][0] = 0 /\ FieldWidth(d, n, 1) > 0
  BY <1>1, <1>3, PacketFields, FieldEnds
<1> QED
  BY <1>1, <1>2, <1>3, <1>4, <1>5, <1>6, <1>7

(* A step of the end that gets nothing now: it reads, or is done.          *)
LEMMA GetElsewhere ==
  ASSUME TypesOK, NEW a \in Ends, NEW e \in Ends, e # a, InOrder(e),
         NEW j \in Jobs, job' = [job EXCEPT ![a] = j],
         job[a].op # "send", j.op # "send", UNCHANGED <<sent, torn>>, got'[e] = got[e],
         closed \subseteq closed',
         Lost \/ (UNCHANGED <<out, broken>> /\ inbox'[e] = inbox[e])
  PROVE  InOrder(e)'
<1>1. Peer(e) = a
  BY Peers, NetworkAssumption
<1>2. CASE Lost
  BY <1>2, LostOrder
<1>3. CASE UNCHANGED <<out, broken>> /\ inbox'[e] = inbox[e]
  <2>1. job'[a] = j /\ job'[e] = job[e]
    BY DEF TypesOK, SocketsOK
  <2>2. Written(a)' = Written(a) /\ Put(a)' = Put(a)
    BY <2>1, NotSending
  <2> QED
    BY <1>1, <1>3, <2>1, <2>2, Untouched DEF Clean, HeldBytes, Getting
<1> QED
  BY <1>2, <1>3

LEMMA StartGetOrder ==
  ASSUME TypesOK, NEW a \in Ends, NEW e \in Ends, InOrder(e), StartGet(a)
  PROVE  InOrder(e)'
<1>1. /\ UNCHANGED <<sent, got, out, inbox, broken, blocking, closed, torn, failed>>
      /\ job[a].op = "idle" /\ Len(got[a]) < Len(Protocol[Peer(a)])
  BY DEF StartGet, Ready, wire
<1>2. PICK j \in Jobs : /\ job' = [job EXCEPT ![a] = j] /\ j.op = "get" /\ j.field = 1
                        /\ j.need \in Widths(a, 1, <<>>) /\ j.rx = <<>>
  BY StartGetIs
<1>3. CASE a # e
  BY <1>1, <1>2, <1>3, GetElsewhere
<1>4. CASE a = e
  <2> DEFINE d == Peer(e)
             n == Len(got[e]) + 1
  <2>1. d \in Ends /\ d # e
    BY Peers
  <2>2. job'[e] = j /\ job'[d] = job[d] /\ sent' = sent
    BY <1>1, <1>2, <1>4, <2>1 DEF TypesOK, SocketsOK
  <2>3. Written(d)' = Written(d) /\ Put(d)' = Put(d) /\ Clean(d)' = Clean(d)
    BY <1>1, <2>1, <2>2, SameJob DEF Clean
  <2>4. HeldBytes(e) = <<>> /\ HeldBytes(e)' = <<>>
    BY <1>1, <1>2, <1>4, <2>2 DEF HeldBytes, Getting
  <2>5. Ahead(e)' = Ahead(e) /\ Left(e)' = Left(e) /\ Over(e)' = Over(e)
    BY <1>1, <2>3, <2>4 DEF Ahead, Left, Over
  <2>6. j.need = FieldWidth(d, n, 1) /\ j.need \in Nat /\ j.need > 0 /\ FieldEnd[d][n][1] = 0 + j.need
    <3>1. Expected(e).kind \in Kinds
      BY <1>1, <1>4, GettingOK
    <3>2. GetFields(e)[1] \notin {"chars", "body"} \/ Expected(e).kind = "raw"
      BY <3>1 DEF GetFields, Fields, Kinds
    <3>3. j.need = FieldWidth(d, n, 1)
      BY <1>2, <1>4, <3>2, PlainWidth
    <3>4. 1 \in 1 .. LastField(d, n) /\ 1 - 1 = 0
      BY <1>1, <1>4, GettingOK
    <3>5. FieldEnd[d][n][1] = FieldEnd[d][n][1 - 1] + FieldWidth(d, n, 1) /\ FieldEnd[d][n][0] = 0
          /\ FieldWidth(d, n, 1) \in Nat /\ FieldWidth(d, n, 1) > 0
      BY <1>1, <1>4, <3>4, GettingOK
    <3> QED
      BY <3>3, <3>4, <3>5
  <2>7. ASSUME Clean(d), Len(got[e]) <= Put(d)
        PROVE  Reads(e)'
    <3>1. /\ job'[e].rx = <<>> /\ job'[e].need = FieldWidth(d, n, 1) /\ job'[e].field = 1
          /\ Len(<<>>) = 0 /\ got' = got
      BY <1>1, <1>2, <2>2, <2>6, EmptySeq
    <3>2. Len(<<>>) + j.need = FieldEnd[d][n][1] /\ j.need <= FieldWidth(d, n, 1)
      BY <2>6, <3>1
    <3> QED
      BY <1>2, <2>2, <2>3, <2>7, <3>1, <3>2 DEF Reads
  <2>8. ASSUME Over(e)
        PROVE  Waits(e)'
    BY <1>2, <2>2, <2>5, <2>6, <2>8 DEF Waits
  <2>9. Put(d) \in Nat /\ Len(got[e]) \in Nat
    BY <2>1, WrittenOK, HeldOK
  <2>10. Len(got[e]) <= Put(d) \/ Put(d) < Len(got[e])
    BY <2>9
  <2> QED
    BY <1>1, <2>3, <2>5, <2>7, <2>8, <2>10 DEF InOrder
<1> QED
  BY <1>3, <1>4

(* When all is got, a script waits at the start of a packet.               *)
LEMMA NothingLeft ==
  ASSUME TypesOK, NEW e \in Ends, InOrder(e), Clean(Peer(e)), Getting(e), Ended(e), job[e].need > 0
  PROVE  Waits(e)
<1> DEFINE d == Peer(e)
           n == Len(got[e]) + 1
           f == job[e].field
<1>1. /\ d \in closed /\ d \in Ends /\ inbox[e] = <<>> /\ out[d] = <<>> /\ ~broken
  BY Peers DEF Ended
<1>2. job[d].op # "send"
  BY <1>1, SameTypes
<1>3. Put(d) = sent[d] /\ Written(d) = PacketEnd[d][sent[d]] /\ sent[d] \in 0 .. Len(Protocol[d])
  BY <1>1, <1>2, WrittenOK, SameTypes, PacketEnds
<1>4. /\ job[e] \in Jobs /\ f \in 1 .. LastField(d, n) /\ Len(got[e]) < Len(Protocol[d])
  BY SameTypes DEF TypesOK, JobOK, Getting
<1>5. SUFFICES ASSUME Reads(e)
               PROVE  Waits(e)
  BY DEF InOrder
<1>6. HeldBytes(e) = job[e].rx /\ job[e].rx \in Seq(ByteSet)
  BY <1>4 DEF HeldBytes, Getting, Jobs
<1>7. job[e].rx = Left(e)
  <2>1. Ahead(e) = Left(e)
    BY <1>5 DEF InOrder, Reads
  <2>2. PICK r \in Seq(ByteSet) : r = job[e].rx
    BY <1>6
  <2>3. r \o <<>> = r
    BY ConcatEmptySeq
  <2> QED
    BY <1>1, <1>6, <2>1, <2>2, <2>3 DEF Ahead
<1>8. PICK g \in Nat, s \in Nat, l \in Nat, need \in Nat, z \in Nat, h \in Nat :
        /\ g = Len(got[e]) /\ s = sent[d] /\ l = Len(job[e].rx) /\ need = job[e].need
        /\ z = Size[d][n] /\ h = FieldEnd[d][n][f]
        /\ g <= s /\ l + need = h /\ h <= z /\ need > 0 /\ s <= Len(Protocol[d]) /\ n = g + 1
  <2>1. /\ Len(got[e]) \in Nat /\ sent[d] \in Nat /\ Len(job[e].rx) \in Nat /\ job[e].need \in Nat
        /\ Size[d][n] \in Nat /\ FieldEnd[d][n][f] \in Nat /\ FieldEnd[d][n][f] <= Size[d][n]
        /\ sent[d] <= Len(Protocol[d])
    BY <1>1, <1>4, <1>6, GettingOK, SameTypes, LenProperties DEF Jobs
  <2>2. Len(got[e]) <= sent[d] /\ Len(job[e].rx) + job[e].need = FieldEnd[d][n][f]
    BY <1>3, <1>5 DEF Reads
  <2> QED
    BY <2>1, <2>2, Zenon
<1>9. PICK p \in Nat, q \in Nat : /\ p = PacketEnd[d][g] /\ q = PacketEnd[d][s] /\ q <= Len(AllBytes[d])
                                  /\ PacketEnd[d][g + 1] = p + z /\ p <= q
  <2>1. /\ PacketEnd[d][g] \in Nat /\ PacketEnd[d][s] \in Nat /\ PacketEnd[d][g + 1] = PacketEnd[d][g] + z
        /\ g \in 0 .. s /\ s \in 0 .. Len(Protocol[d])
    BY <1>1, <1>3, <1>4, <1>8, GettingOK, PacketEnds
  <2>2. PacketEnd[d][g] <= PacketEnd[d][s]
    BY <1>1, <2>1, PacketEnds
  <2>3. PacketEnd[d][s] <= Len(AllBytes[d])
    BY <1>1, <1>3, <1>8, WrittenOK
  <2> QED
    BY <2>1, <2>2, <2>3
<1>10. l = q - p
  <2>1. p \in 0 .. Len(AllBytes[d]) /\ q \in p .. Len(AllBytes[d]) /\ AllBytes[d] \in Seq(ByteSet)
    BY <1>1, <1>9, StreamBytes, LenProperties
  <2>2. Len(SubSeq(AllBytes[d], p + 1, q)) = q - p
    BY <2>1, Part
  <2> QED
    BY <1>3, <1>7, <1>8, <1>9, <2>2 DEF Left
<1>11. s = g
  <2>1. SUFFICES ASSUME g + 1 <= s PROVE FALSE
    BY <1>8
  <2>2. s \in 0 .. Len(Protocol[d]) /\ g + 1 \in 0 .. s
    BY <1>3, <1>8, <2>1
  <2>3. PacketEnd[d][g + 1] <= q
    BY <1>1, <1>9, <2>2, PacketEnds
  <2>4. p + z <= q
    BY <1>9, <2>3
  <2>5. l >= z
    BY <1>9, <1>10, <2>4
  <2>6. l + need <= z /\ need > 0
    BY <1>8
  <2> QED
    BY <2>5, <2>6
<1>12. l = 0
  BY <1>9, <1>10, <1>11
<1>13. job[e].rx = <<>>
  BY <1>6, <1>8, <1>12, EmptySeq
<1>14. f = 1
  <2>1. SUFFICES ASSUME f # 1 PROVE FALSE
    OBVIOUS
  <2>2. f - 1 \in 1 .. LastField(d, n)
    BY <1>4, <2>1, GettingOK
  <2>3. FieldEnd[d][n][f - 1] > 0
    BY <1>4, <2>2, GettingOK
  <2>4. PICK hi \in Nat, w \in Nat : hi = FieldEnd[d][n][f - 1] /\ w = FieldWidth(d, n, f) /\ h = hi + w
    <3>1. /\ FieldEnd[d][n][f - 1] \in Nat /\ FieldWidth(d, n, f) \in Nat
          /\ FieldEnd[d][n][f] = FieldEnd[d][n][f - 1] + FieldWidth(d, n, f)
      BY <1>4, GettingOK
    <3> QED
      BY <1>8, <3>1, Zenon
  <2>5. need <= w
    BY <1>5, <1>8, <2>4 DEF Reads
  <2>6. hi = 0
    <3>1. l + need = h /\ h = hi + w
      BY <1>8, <2>4, Zenon
    <3> QED
      BY <1>12, <2>5, <3>1
  <2> QED
    BY <2>3, <2>4, <2>6
<1>15. Over(e)
  BY <1>1, <1>3, <1>8, <1>11 DEF Over
<1> QED
  BY <1>13, <1>14, <1>15 DEF Waits

LEMMA GetNothingOrder ==
  ASSUME TypesOK, NEW a \in Ends, NEW e \in Ends, InOrder(e), GetNothing(a)
  PROVE  InOrder(e)'
<1>1. /\ Getting(a) /\ UNCHANGED <<sent, out, inbox, broken, blocking, torn>>
      /\ job[a].need > 0 /\ Ended(a)
  BY DEF GetNothing, wire
<1>2. GetMove(a)
  BY GetNothingTypes
<1>3. CASE a # e
  BY <1>1, <1>2, <1>3, GetElsewhere DEF GetMove, Getting
<1>4. CASE a = e
  <2> DEFINE d == Peer(e)
             f == job[e].field
  <2>1. SUFFICES ASSUME Clean(d)'
                 PROVE  InOrder(e)'
    BY DEF InOrder
  <2>2. Waits(e)
    BY <1>1, <1>4, <2>1, NothingLeft DEF Clean
  <2>3. d \in Ends /\ d # e /\ closed \subseteq closed' /\ job'[d] = job[d] /\ sent'[d] = sent[d]
    BY <1>1, <1>2, <1>4, Peers DEF GetMove, TypesOK, SocketsOK
  <2>4. Written(d)' = Written(d) /\ Put(d)' = Put(d)
    BY <2>3, SameJob
  <2>5. HeldBytes(e) = <<>> /\ Over(e)
    BY <1>1, <1>4, <2>2 DEF Waits, HeldBytes
  <2>6. got[e] \in Seq(Nat) /\ Len(got[e]) \in Nat /\ Put(d) \in Nat /\ Put(d) <= Len(got[e])
    BY <2>3, <2>5, SameTypes, HeldOK, WrittenOK DEF Over
  <2>7. Len(got[e]) < Len(Protocol[d]) /\ f \in 1 .. LastField(d, Len(got[e]) + 1)
    BY <1>1, <1>4 DEF TypesOK, JobOK, Getting
  <2>8. CASE Give(e, 0)
    <3>1. job'[e] = Idle /\ got'[e] = Append(got[e], 0)
      BY <2>8 DEF Give, TypesOK, SocketsOK
    <3>2. Len(got'[e]) = Len(got[e]) + 1
      BY <2>6, <3>1, AppendProperties
    <3>3. ~ (Len(got'[e]) <= Put(d)) /\ Put(d) <= Len(got'[e])
      BY <2>6, <3>2
    <3>4. Over(e)'
      BY <1>1, <2>3, <2>4, <2>5, <3>3 DEF Over
    <3> QED
      BY <2>4, <3>1, <3>3, <3>4, Resting DEF InOrder, Getting
  <2>9. CASE got' = got /\ HeldBytes(e)' = <<>> /\ (Getting(e)' => Waits(e)')
    <3>1. Ahead(e)' = Ahead(e) /\ Left(e)' = Left(e) /\ Over(e)'
      BY <1>1, <2>3, <2>4, <2>5, <2>9 DEF Ahead, Left, Over
    <3>2. Len(got[e]) <= Put(d) => Ahead(e) = Left(e)
      BY <1>1, <2>1 DEF InOrder, Clean
    <3> QED
      BY <2>4, <2>9, <3>1, <3>2 DEF InOrder
  <2>10. CASE Fail(e)
    <3>1. job'[e] = Idle /\ got' = got
      BY <2>10 DEF Fail, TypesOK, SocketsOK
    <3>2. HeldBytes(e)' = <<>> /\ ~ Getting(e)'
      BY <3>1, Resting DEF HeldBytes, Getting
    <3> QED
      BY <2>9, <3>1, <3>2
  <2>11. CASE f < Len(GetFields(e)) /\ GetFields(e)[f] # "len" /\ NextField(e, job[e].rx)
    <3>1. Expected(e).kind \in Kinds /\ Len(GetFields(e)) = LastField(d, Len(got[e]) + 1)
      BY <2>7, GettingOK
    <3>2. (f = 1 \/ (f = 2 /\ Expected(e).kind \in {"int", "string"})) /\ job[e].rx = <<>>
      BY <2>2 DEF Waits
    <3>3. f = 1 /\ Expected(e).kind \in {"int", "string"} /\ GetFields(e)[2] \notin {"chars", "body"}
          /\ GetFields(e)[2] \in {"val", "len"}
      BY <2>11, <3>1, <3>2 DEF GetFields, Fields, Kinds
    <3>4. job[e].rx \in Seq(ByteSet)
      BY SameTypes DEF Jobs
    <3>5. PICK j \in Jobs : /\ job' = [job EXCEPT ![e] = j] /\ j.op = "get" /\ j.field = f + 1
                            /\ j.rx = job[e].rx /\ j.need \in Widths(e, f + 1, job[e].rx)
                            /\ UNCHANGED <<got, closed, failed>>
      BY <1>1, <1>4, <2>11, <3>1, <3>4, NextFieldJob DEF TypesOK
    <3>6. j.field = 2 /\ j.need \in Widths(e, 2, <<>>) /\ j.rx = <<>> /\ job'[e] = j
      BY <3>2, <3>3, <3>5 DEF TypesOK, SocketsOK
    <3>7. j.need = Width(Expected(e), GetFields(e)[2])
      BY <3>3, <3>6 DEF Widths
    <3>8. j.need > 0
      <4>1. Width(Expected(e), GetFields(e)[2]) \in {IntWidth, LenWidth}
        BY <3>3 DEF Width
      <4>2. IntWidth > 0 /\ LenWidth > 0
        BY NetworkAssumption
      <4> QED
        BY <3>7, <4>1, <4>2
    <3>9. Over(e)'
      BY <1>1, <2>3, <2>4, <2>5, <3>5 DEF Over
    <3>10. Waits(e)'
      BY <3>3, <3>5, <3>6, <3>8, <3>9 DEF Waits, Expected
    <3>11. HeldBytes(e)' = <<>>
      BY <3>6, SMTT(30) DEF HeldBytes
    <3> QED
      BY <2>9, <3>5, <3>10, <3>11
  <2> QED
    BY <1>4, <2>8, <2>10, <2>11 DEF GetNothing
<1> QED
  BY <1>3, <1>4

(* What is read of a field that is complete.                               *)
LEMMA PieceRead ==
  ASSUME TypesOK, NEW e \in Ends, InOrder(e), Clean(Peer(e)), Getting(e), Reads(e),
         Available(e) = job[e].need
  PROVE  LET d  == Peer(e)
             n  == Len(got[e]) + 1
             h  == FieldEnd[d][n][job[e].field]
             p  == PacketEnd[d][Len(got[e])]
             rx == Read(e, job[e].need)
         IN  /\ Len(rx) = h /\ rx = SubSeq(Bytes[d][n], 1, h)
             /\ Rest(e, job[e].need) \o out[d] = SubSeq(AllBytes[d], p + h + 1, Written(d))
             /\ p + h <= Written(d)
<1> DEFINE d == Peer(e)
           n == Len(got[e]) + 1
           f == job[e].field
<1>1. d \in Ends /\ f \in 1 .. LastField(d, n) /\ Len(got[e]) < Len(Protocol[d])
  BY Peers DEF TypesOK, JobOK, Getting
<1>2. PICK x \in Seq(ByteSet), y \in Seq(ByteSet), o \in Seq(ByteSet) :
        /\ x = Read(e, job[e].need) /\ y = Rest(e, job[e].need) /\ o = out[d]
        /\ x \o y = job[e].rx \o inbox[e] /\ Len(x) = Len(job[e].rx) + job[e].need
  <2>1. /\ Read(e, job[e].need) \in Seq(ByteSet) /\ Rest(e, job[e].need) \in Seq(ByteSet)
        /\ Len(Read(e, job[e].need)) = Len(job[e].rx) + job[e].need
        /\ Read(e, job[e].need) \o Rest(e, job[e].need) = job[e].rx \o inbox[e]
    BY ReadBytes DEF TypesOK
  <2>2. out[d] \in Seq(ByteSet)
    BY <1>1, HeldOK
  <2> QED
    BY <2>1, <2>2, Zenon
<1>0. (x \o y) \o o = x \o (y \o o) /\ y \o o \in Seq(ByteSet)
  <2>1. (x \o y) \o o = x \o (y \o o)
    BY Regroup, Zenon
  <2>2. y \o o \in Seq(ByteSet)
    BY ConcatProperties
  <2> QED
    BY <2>1, <2>2
<1>3. PICK h \in Nat, p \in Nat, w \in Nat, z \in Nat :
        /\ h = FieldEnd[d][n][f] /\ p = PacketEnd[d][Len(got[e])] /\ w = Written(d) /\ z = Size[d][n]
        /\ h <= z /\ p <= w /\ w <= Len(AllBytes[d])
  <2>1. /\ FieldEnd[d][n][f] \in Nat /\ PacketEnd[d][Len(got[e])] \in Nat /\ Size[d][n] \in Nat
        /\ FieldEnd[d][n][f] <= Size[d][n]
    BY <1>1, GettingOK
  <2>2. Written(d) \in Nat /\ Written(d) <= Len(AllBytes[d])
    BY <1>1, WrittenOK
  <2>3. PacketEnd[d][Len(got[e])] <= Written(d)
    BY <1>1, GettingOK, PutCounts DEF Reads
  <2> QED
    BY <2>1, <2>2, <2>3, Zenon
<1>4. Len(x) = h
  BY <1>2, <1>3 DEF Reads
<1>5. PICK A \in Seq(ByteSet) : A = AllBytes[d]
  BY <1>1, StreamBytes, SMTT(30)
<1>6. (x \o y) \o o = SubSeq(A, p + 1, w)
  <2>1. Ahead(e) = Left(e) /\ HeldBytes(e) = job[e].rx
    BY DEF InOrder, Reads, HeldBytes
  <2> QED
    BY <1>2, <1>3, <1>5, <2>1 DEF Ahead, Left
<1>7. x \o (y \o o) = SubSeq(A, p + 1, w)
  BY <1>0, <1>6
<1>8. p <= w /\ w <= Len(A)
  BY <1>3, <1>5
<1>9. p + h <= w /\ x = SubSeq(A, p + 1, p + h) /\ y \o o = SubSeq(A, p + h + 1, w)
  <2>1. /\ p + Len(x) <= w /\ x = SubSeq(A, p + 1, p + Len(x))
        /\ y \o o = SubSeq(A, p + Len(x) + 1, w)
    <3>1. MakeUp(x, y \o o, A, p, w)
      <4>1. p \in 0 .. Len(A) /\ w \in p .. Len(A)
        BY <1>5, <1>8, LenProperties
      <4> QED
        BY <1>0, <1>7, <4>1, Zenon DEF MakeUp
    <3>2. CutAt(x, y \o o, A, p, w)
      BY <3>1, BytesCut
    <3> QED
      BY <3>2 DEF CutAt
  <2> QED
    BY <1>4, <2>1
<1>10. SubSeq(A, p + 0 + 1, p + h) = SubSeq(Bytes[d][n], 0 + 1, h)
  <2>1. 0 \in 0 .. Size[d][n] /\ h \in 0 .. Size[d][n]
    BY <1>3
  <2>2. n \in DOMAIN Protocol[d] /\ p = PacketEnd[d][n - 1]
    BY <1>1, <1>3, GettingOK
  <2> QED
    BY <1>1, <1>5, <2>1, <2>2, PacketPart
<1>11. p + 0 + 1 = p + 1 /\ 0 + 1 = 1
  OBVIOUS
<1>12. x = SubSeq(Bytes[d][n], 1, h)
  BY <1>9, <1>10, <1>11
<1> QED
  BY <1>2, <1>3, <1>4, <1>5, <1>9, <1>12

(* The first bytes of different packets differ.                            *)
LEMMA Numbered ==
  \A m, n : <<m, 1>> = <<n, 1>> => m = n
BY SMTT(30)

(* What those bytes say: the packet they are of.                           *)
LEMMA PieceSays ==
  ASSUME TypesOK, NEW e \in Ends, NEW f \in 1 .. LastField(Peer(e), Len(got[e]) + 1), NEW rx,
         Len(got[e]) < Len(Protocol[Peer(e)]),
         rx = SubSeq(Bytes[Peer(e)][Len(got[e]) + 1], 1, FieldEnd[Peer(e)][Len(got[e]) + 1][f])
  PROVE  LET d == Peer(e) n == Len(got[e]) + 1
         IN  /\ rx[1] = <<n, 1>>
             /\ \A m \in DOMAIN Protocol[d] : rx = Bytes[d][m] => m = n
             /\ Looks(e, f + 1, rx) = {n}
<1> DEFINE d == Peer(e)
           n == Len(got[e]) + 1
<1>1. d \in Ends /\ n \in DOMAIN Protocol[d] /\ Expected(e) = Protocol[d][n]
  BY GettingOK
<1>2. ASSUME NEW m \in DOMAIN Protocol[d], NEW x \in 1 .. Size[d][m]
      PROVE  /\ SubSeq(Bytes[d][m], 1, x) # <<>> /\ SubSeq(Bytes[d][m], 1, x)[1] = <<m, 1>>
             /\ Bytes[d][m][1] = <<m, 1>>
  <2>1. PICK hi \in Seq(ByteSet) : hi = Bytes[d][m] /\ Len(hi) = Size[d][m] /\ hi[1] = <<m, 1>>
    <3>1. /\ Bytes[d][m] \in Seq(ByteSet) /\ Len(Bytes[d][m]) = Size[d][m]
          /\ \A k \in 1 .. Size[d][m] : Bytes[d][m][k] = <<m, k>>
      BY <1>1, PacketBytes
    <3>2. 1 \in 1 .. Size[d][m]
      BY <1>1, <1>2, FieldEnds
    <3> QED
      BY <3>1, <3>2
  <2>2. 0 \in 0 .. Len(hi) /\ x \in 0 .. Len(hi) /\ x - 0 = x /\ 1 \in 1 .. x /\ x # 0
    BY <1>1, <1>2, <2>1, FieldEnds
  <2>3. /\ Len(SubSeq(hi, 0 + 1, x)) = x - 0
        /\ \A k \in 1 .. x - 0 : SubSeq(hi, 0 + 1, x)[k] = hi[0 + k]
    BY <2>2, Part
  <2>4. Len(SubSeq(hi, 1, x)) # 0 /\ SubSeq(hi, 1, x)[1] = hi[1]
    BY <2>2, <2>3
  <2> QED
    BY <2>1, <2>4, EmptySeq
<1>3. ASSUME NEW m \in DOMAIN Protocol[d], Protocol[d][m].kind = Expected(e).kind
      PROVE  FieldEnd[d][m][f] \in 1 .. Size[d][m]
  <2>1. f \in 1 .. LastField(d, m)
    BY <1>1, <1>3 DEF LastField
  <2>2. LastField(d, m) \in 1 .. 4
    BY <1>1, <1>3, PacketFields
  <2>3. f \in 0 .. LastField(d, m)
    BY <2>1, <2>2
  <2>4. /\ FieldEnd[d][m][f] \in Nat /\ FieldEnd[d][m][f] > 0 /\ FieldEnd[d][m][f] <= Size[d][m]
        /\ Size[d][m] \in Nat
    BY <1>1, <1>3, <2>1, <2>3, FieldEnds
  <2> QED
    BY <2>4
<1>4. rx # <<>> /\ rx[1] = <<n, 1>>
  BY <1>1, <1>2, <1>3
<1>5. ASSUME NEW m \in DOMAIN Protocol[d], rx = Bytes[d][m]
      PROVE  m = n
  <2>1. 1 \in 1 .. Size[d][m]
    BY <1>1, <1>5, FieldEnds
  <2>2. rx[1] = <<m, 1>>
    BY <1>2, <1>5, <2>1
  <2> QED
    BY <1>4, <2>2, Numbered
<1>6. (f + 1) - 1 = f
  BY <1>1, PacketFields
<1>7. n \in Looks(e, f + 1, rx)
  BY <1>1, <1>4, <1>6 DEF Looks
<1>8. ASSUME NEW m \in Looks(e, f + 1, rx)
      PROVE  m = n
  <2>1. /\ m \in DOMAIN Protocol[d] /\ Protocol[d][m].kind = Expected(e).kind
        /\ rx = SubSeq(Bytes[d][m], 1, FieldEnd[d][m][f])
    BY <1>6 DEF Looks
  <2>2. FieldEnd[d][m][f] \in 1 .. Size[d][m]
    BY <1>3, <2>1
  <2>3. rx[1] = <<m, 1>>
    BY <1>2, <2>1, <2>2
  <2> QED
    BY <1>4, <2>3, Numbered
<1> QED
  BY <1>4, <1>5, <1>7, <1>8

(* A script that can take bytes is not waiting for what will not come.     *)
LEMMA CleanReads ==
  ASSUME TypesOK, NEW e \in Ends, InOrder(e), Clean(Peer(e)), Getting(e),
         job[e].need = 0 \/ inbox[e] # <<>> \/ ~Ended(e)
  PROVE  Reads(e)
<1>1. Waits(e) => inbox[e] = <<>> /\ Ended(e) /\ job[e].need # 0
  BY DEF Waits, Over, Ended, Clean
<1> QED
  BY <1>1 DEF InOrder

(* A reader that has read the last field has read the packet it waits      *)
(* for, and this was written.                                              *)
LEMMA RightPacket ==
  ASSUME TypesOK, NEW e \in Ends, InOrder(e), Clean(Peer(e)), Getting(e), Reads(e),
         Available(e) = job[e].need, job[e].field = Len(GetFields(e))
  PROVE  /\ PacketOf(e, Read(e, job[e].need)) = Len(got[e]) + 1
         /\ Len(got[e]) + 1 <= Put(Peer(e))
<1> DEFINE d == Peer(e)
           n == Len(got[e]) + 1
           f == job[e].field
           rx == Read(e, job[e].need)
<1>1. /\ d \in Ends /\ Len(got[e]) < Len(Protocol[d]) /\ f \in 1 .. LastField(d, n)
      /\ f = LastField(d, n) /\ n \in DOMAIN Protocol[d] /\ n \in 0 .. Len(Protocol[d])
  BY GettingOK DEF TypesOK, JobOK, Getting
<1>2. FieldEnd[d][n][f] = Size[d][n]
  BY <1>1, FieldEnds
<1>3. rx = SubSeq(Bytes[d][n], 1, FieldEnd[d][n][f])
      /\ PacketEnd[d][Len(got[e])] + FieldEnd[d][n][f] <= Written(d)
  BY PieceRead, Zenon
<1>4. rx = Bytes[d][n]
  <2>1. PICK hi \in Seq(ByteSet) : hi = Bytes[d][n] /\ Len(hi) = Size[d][n]
    BY <1>1, PacketBytes
  <2>2. SubSeq(hi, 1, Len(hi)) = hi
    BY SubSeqFull
  <2> QED
    BY <1>2, <1>3, <2>1, <2>2
<1>5. \A m \in DOMAIN Protocol[d] : rx = Bytes[d][m] => m = n
  BY <1>1, <1>3, PieceSays
<1> HIDE DEF rx
<1>6. PacketOf(e, rx) = n
  BY <1>1, <1>4, <1>5 DEF PacketOf
<1>7. PacketEnd[d][n] <= Written(d)
  BY <1>1, <1>2, <1>3, GettingOK
<1> QED
  BY <1>1, <1>6, <1>7, PutCounts DEF rx

(* The tag it reads is the one SocketGetInt and SocketGetString expect.    *)
LEMMA RightTag ==
  ASSUME TypesOK, NEW e \in Ends, InOrder(e), Clean(Peer(e)), Getting(e), Reads(e),
         Available(e) = job[e].need, GetFields(e)[job[e].field] = "tag"
  PROVE  TagKinds(e, Read(e, job[e].need)[1]) = {Expected(e).kind}
<1> DEFINE d == Peer(e)
           n == Len(got[e]) + 1
           rx == Read(e, job[e].need)
<1>1. /\ Len(got[e]) < Len(Protocol[d]) /\ job[e].field \in 1 .. LastField(d, n)
      /\ Expected(e) = Protocol[d][n] /\ Expected(e).kind \in Kinds /\ Len(GetFields(e)) = LastField(d, n)
  BY GettingOK DEF TypesOK, JobOK, Getting
<1>2. Expected(e).kind \in {"int", "string"}
  BY <1>1, Tagged
<1>3. rx = SubSeq(Bytes[d][n], 1, FieldEnd[d][n][job[e].field])
  BY PieceRead, Zenon
<1>4. rx[1] = <<n, 1>>
  BY <1>1, <1>3, PieceSays
<1> HIDE DEF rx
<1>5. PICK hi : hi = rx[1] /\ hi[1] = n /\ hi[2] = 1
  <2>1. \A m : <<m, 1>>[1] = m /\ <<m, 1>>[2] = 1
    OBVIOUS
  <2>2. <<n, 1>>[1] = n /\ <<n, 1>>[2] = 1
    BY <2>1, Zenon
  <2> QED
    BY <1>4, <2>2, Zenon
<1>6. TagKinds(e, hi) = {Expected(e).kind}
  BY <1>1, <1>2, <1>5 DEF TagKinds
<1> QED
  BY <1>5, <1>6 DEF rx

(* The length it reads is the one that was sent.                           *)
LEMMA RightWidth ==
  ASSUME TypesOK, NEW e \in Ends, InOrder(e), Clean(Peer(e)), Getting(e), Reads(e),
         Available(e) = job[e].need
  PROVE  Widths(e, job[e].field + 1, Read(e, job[e].need))
           = {FieldWidth(Peer(e), Len(got[e]) + 1, job[e].field + 1)}
<1> DEFINE d == Peer(e)
           n == Len(got[e]) + 1
           f == job[e].field
           rx == Read(e, job[e].need)
<1>1. /\ Len(got[e]) < Len(Protocol[d]) /\ f \in 1 .. LastField(d, n)
      /\ Expected(e) = Protocol[d][n]
  BY GettingOK DEF TypesOK, JobOK, Getting
<1>2. rx = SubSeq(Bytes[d][n], 1, FieldEnd[d][n][f])
  BY PieceRead, Zenon
<1>3. Looks(e, f + 1, rx) = {n}
  BY <1>1, <1>2, PieceSays
<1> HIDE DEF rx
<1>4. {Width(Protocol[d][m], GetFields(e)[f + 1]) : m \in Looks(e, f + 1, rx)}
        = {Width(Protocol[d][n], GetFields(e)[f + 1])}
  BY <1>3
<1>5. Looks(e, f + 1, rx) # {} /\ Width(Expected(e), GetFields(e)[f + 1]) = FieldWidth(d, n, f + 1)
  BY <1>1, <1>3 DEF FieldWidth, GetFields
<1>6. Widths(e, f + 1, rx) = {FieldWidth(d, n, f + 1)}
  BY <1>1, <1>4, <1>5 DEF Widths
<1> QED
  BY <1>6 DEF rx

(* Reading a field, and giving the packet to the script, keeps the order.  *)
LEMMA TakeOrder ==
  ASSUME TypesOK, NEW a \in Ends, NEW e \in Ends, InOrder(e),
         Getting(a), job[a].need = 0 \/ inbox[a] # <<>> \/ ~Ended(a),
         Take(a, Available(a)), UNCHANGED <<sent, torn>>, GetMove(a)
  PROVE  InOrder(e)'
<1>1. Consume(a, Rest(a, Available(a)))
  BY DEF Take
<1>2. CASE a # e
  <2>1. Lost \/ (UNCHANGED <<out, broken>> /\ inbox'[e] = inbox[e])
    BY <1>1, <1>2 DEF Consume, TypesOK, SocketsOK
  <2> QED
    BY <1>2, <2>1, GetElsewhere DEF GetMove, Getting
<1>3. CASE a = e
  <2> DEFINE d == Peer(e)
             n == Len(got[e]) + 1
             f == job[e].field
             k == Available(e)
             rx == Read(e, k)
             rest == Rest(e, k)
  <2>1. SUFFICES ASSUME Clean(d)'
                 PROVE  InOrder(e)'
    BY DEF InOrder
  <2>2. /\ UNCHANGED <<out, broken>> /\ inbox' = [inbox EXCEPT ![e] = rest] /\ Clean(d)
    BY <1>1, <1>3, <2>1 DEF Consume, Lost, Clean
  <2>3. /\ inbox'[e] = rest /\ out' = out /\ d \in Ends /\ d # e /\ job'[d] = job[d] /\ sent'[d] = sent[d]
    BY <1>3, <2>2, Peers DEF TypesOK, SocketsOK, GetMove
  <2>4. Written(d)' = Written(d) /\ Put(d)' = Put(d)
    BY <2>3, SameJob
  <2>5. Reads(e)
    BY <1>3, <2>2, CleanReads
  <2>6. /\ rx \in Seq(ByteSet) /\ rest \in Seq(ByteSet) /\ Len(rx) = Len(job[e].rx) + k
        /\ rx \o rest = job[e].rx \o inbox[e] /\ k \in Nat /\ k <= job[e].need /\ job[e].need \in Nat
    BY ReadBytes DEF TypesOK
  <2>7. rx \o rest \o out[d] = Left(e)
    <3>1. Ahead(e) = Left(e) /\ HeldBytes(e) = job[e].rx
      BY <1>3, <2>2, <2>5 DEF InOrder, Reads, HeldBytes
    <3> HIDE DEF rx, rest
    <3> QED
      BY <2>6, <3>1 DEF Ahead
  <2>8. /\ Len(got[e]) \in Nat /\ Put(d) \in Nat /\ Len(got[e]) <= Put(d)
        /\ Len(got[e]) < Len(Protocol[d]) /\ f \in 1 .. LastField(d, n)
        /\ Len(GetFields(e)) = LastField(d, n)
    BY <1>3, <2>3, <2>5, HeldOK, WrittenOK, GettingOK DEF Reads, TypesOK, JobOK, Getting
  <2>9. Len(job[e].rx) + job[e].need = FieldEnd[d][n][f] /\ Len(job[e].rx) \in Nat
        /\ job[e].need <= FieldWidth(d, n, f)
    BY <2>5, SameTypes, LenProperties DEF Reads, Jobs
  <2>10. CASE got' = got /\ job'[e].op = "get" /\ job'[e].rx = rx /\ Reads(e)'
    <3>1. Ahead(e)' = rx \o rest \o out[d] /\ Left(e)' = Left(e)
      BY <2>3, <2>4, <2>10 DEF Ahead, Left, HeldBytes, Getting
    <3>2. ~ (Put(d) < Len(got[e]))
      BY <2>8
    <3> QED
      BY <2>4, <2>7, <2>10, <3>1, <3>2 DEF InOrder
  <2>11. CASE k # job[e].need
    <3>1. /\ job' = [job EXCEPT ![e].need = job[e].need - k, ![e].rx = rx] /\ got' = got
      BY <1>3, <2>11 DEF Take
    <3>2. /\ job'[e].op = "get" /\ job'[e].rx = rx /\ job'[e].field = f /\ job'[e].need = job[e].need - k
      <4>1. PICK i \in Jobs : i = job[e] /\ i.op = "get"
        BY <1>3, SameTypes DEF Getting
      <4>2. PICK m : m = job[e].need - k
        OBVIOUS
      <4> HIDE DEF rx, k
      <4>3. PICK j : j = [i EXCEPT !.need = m, !.rx = rx]
        OBVIOUS
      <4>4. j.op = "get" /\ j.rx = rx /\ j.field = i.field /\ j.need = m
        BY <4>1, <4>3 DEF Jobs
      <4>5. job'[e] = j
        BY <3>1, <4>1, <4>2, <4>3 DEF TypesOK, SocketsOK
      <4> QED
        BY <4>1, <4>2, <4>4, <4>5
    <3>3. Len(rx) + (job[e].need - k) = FieldEnd[d][n][f] /\ job[e].need - k <= FieldWidth(d, n, f)
      <4>1. PICK l \in Nat, w \in Nat, m \in Nat : l = Len(job[e].rx) /\ w = job[e].need /\ m = k /\ m <= w
        BY <2>6, <2>9
      <4>2. (l + m) + (w - m) = l + w /\ w - m <= w
        BY <4>1
      <4>3. FieldWidth(d, n, f) \in Nat
        BY <2>8, GettingOK
      <4>4. w - m <= FieldWidth(d, n, f)
        BY <2>9, <4>1, <4>2, <4>3
      <4> HIDE DEF rx, k, n, f, d
      <4> QED
        BY <2>6, <2>9, <4>1, <4>2, <4>4
    <3>4. Reads(e)'
      BY <2>4, <2>5, <3>1, <3>2, <3>3 DEF Reads
    <3> QED
      BY <2>10, <3>1, <3>2, <3>4
  <2>12. CASE k = job[e].need
    <3>1. FieldRead(e, rx)
      BY <1>3, <2>12 DEF Take
    <3>2. rx = Read(e, job[e].need) /\ rest = Rest(e, job[e].need) /\ Available(e) = job[e].need
      BY <2>12
    <3>3. CASE f = Len(GetFields(e)) /\ Give(e, PacketOf(e, rx))
      <4>1. PacketOf(e, rx) = n /\ n <= Put(d)
        BY <1>3, <2>2, <2>5, <3>2, <3>3, RightPacket
      <4>2. got'[e] = Append(got[e], PacketOf(e, rx)) /\ job'[e] = Idle
        BY <3>3 DEF Give, TypesOK, SocketsOK
      <4>3. PacketOf(e, rx) \in Nat /\ got[e] \in Seq(Nat)
        BY PacketOfOK, SameTypes
      <4>4. Len(got'[e]) = n
        BY <4>2, <4>3, AppendProperties
      <4>5. Ahead(e)' = rest \o out[d]
        <5>1. HeldBytes(e)' = <<>>
          BY <4>2, Resting DEF HeldBytes, Getting
        <5>2. <<>> \o rest = rest
          BY <2>6, ConcatEmptySeq
        <5> HIDE DEF rest
        <5> QED
          BY <2>3, <5>1, <5>2 DEF Ahead
      <4>6. rest \o out[d] = SubSeq(AllBytes[d], PacketEnd[d][Len(got[e])] + FieldEnd[d][n][f] + 1, Written(d))
        BY <1>3, <2>2, <2>5, <3>2, PieceRead, Zenon
      <4>7. PacketEnd[d][Len(got[e])] + FieldEnd[d][n][f] = PacketEnd[d][n]
        <5>1. FieldEnd[d][n][f] = Size[d][n]
          <6>1. n \in DOMAIN Protocol[d] /\ f = LastField(d, n)
            BY <2>8, <3>3, GettingOK
          <6> HIDE DEF n, f, d
          <6> QED
            BY <2>3, <6>1, FieldEnds
        <5> QED
          BY <2>8, <5>1, GettingOK
      <4>8. Left(e)' = SubSeq(AllBytes[d], PacketEnd[d][n] + 1, Written(d))
        BY <2>4, <4>4, SMTT(30) DEF Left
      <4>9. Ahead(e)' = Left(e)'
        BY <4>5, <4>6, <4>7, <4>8
      <4>10. n \in Nat /\ ~ (Put(d) < n)
        BY <2>8, <4>1
      <4> QED
        BY <2>4, <4>2, <4>4, <4>9, <4>10, Resting DEF InOrder, Getting
    <3>4. CASE f < Len(GetFields(e)) /\ NextField(e, rx)
      <4>1. PICK j \in Jobs : /\ job' = [job EXCEPT ![e] = j] /\ j.op = "get" /\ j.field = f + 1
                              /\ j.rx = rx /\ j.need \in Widths(e, f + 1, rx)
                              /\ UNCHANGED <<got, closed, failed>>
        <5>1. SocketsOK /\ JobOK(e) /\ Getting(e)
          BY <1>3 DEF TypesOK
        <5>2. f < LastField(d, n)
          BY <2>8, <3>4
        <5>3. PICK x \in Seq(ByteSet) : x = rx
          BY <2>6
        <5>4. NextField(e, x)
          BY <3>4, <5>3
        <5> HIDE DEF rx
        <5>5. \E j \in Jobs : /\ job' = [job EXCEPT ![e] = j]
                              /\ j.op = "get" /\ j.field = job[e].field + 1 /\ j.rx = x
                              /\ j.need \in Widths(e, job[e].field + 1, x)
                              /\ UNCHANGED <<got, closed, failed>>
          BY <5>1, <5>2, <5>4, NextFieldJob
        <5> QED
          BY <5>3, <5>5
      <4>2. j.need = FieldWidth(d, n, f + 1)
        BY <1>3, <2>2, <2>5, <3>2, <4>1, RightWidth
      <4>3. job'[e] = j
        BY <4>1 DEF TypesOK, SocketsOK
      <4>4. LastField(d, n) \in 1 .. 4
        BY <2>8, GettingOK
      <4>5. f + 1 \in 1 .. LastField(d, n) /\ (f + 1) - 1 = f
        BY <2>8, <3>4, <4>4
      <4>6. FieldEnd[d][n][f + 1] = FieldEnd[d][n][f] + FieldWidth(d, n, f + 1)
            /\ FieldWidth(d, n, f + 1) \in Nat
        BY <2>8, <4>5, GettingOK, ZenonT(40)
      <4>7. Len(rx) = FieldEnd[d][n][f]
        BY <2>6, <2>9, <2>12
      <4>8. Reads(e)'
        <5>1. /\ Len(job'[e].rx) + job'[e].need = FieldEnd[d][n][job'[e].field]
              /\ job'[e].need <= FieldWidth(d, n, job'[e].field)
          <6> HIDE DEF rx, n, f
          <6> QED
            BY <4>1, <4>2, <4>3, <4>6, <4>7
        <5> QED
          BY <2>4, <2>8, <4>1, <5>1 DEF Reads
      <4> QED
        BY <2>10, <4>1, <4>3, <4>8
    <3>5. CASE GetFields(e)[f] = "tag" /\ TagKinds(e, rx[1]) # {Expected(e).kind}
      BY <1>3, <2>2, <2>5, <3>2, <3>5, RightTag
    <3> QED
      BY <3>1, <3>3, <3>4, <3>5 DEF FieldRead
  <2> QED
    BY <2>11, <2>12
<1> QED
  BY <1>2, <1>3

(* Every step of the two ends keeps the order at each.                     *)
LEMMA OrderKept ==
  ASSUME TypesOK, NEW e \in Ends, InOrder(e), [NetworkNext]_netVars
  PROVE  InOrder(e)'
<1>1. ASSUME NEW a \in Ends, BlockRead(a) \/ ReadRaw(a)
      PROVE  InOrder(e)'
  <2>1. /\ Getting(a) /\ Take(a, Available(a)) /\ UNCHANGED <<sent, torn>>
        /\ job[a].need = 0 \/ inbox[a] # <<>> \/ ~Ended(a)
    BY <1>1 DEF BlockRead, ReadRaw
  <2>2. blocking' \in [Ends -> BOOLEAN]
    BY <1>1 DEF BlockRead, ReadRaw, TypesOK, SocketsOK
  <2>3. GetMove(a)
    BY <2>1, <2>2, TakeTypes
  <2> QED
    BY <2>1, <2>3, TakeOrder
<1>2. CASE UNCHANGED netVars
  <2>1. UNCHANGED <<job, sent, got, out, inbox, broken, closed, torn>> /\ Peer(e) \in Ends
    BY <1>2, Peers DEF netVars, wire
  <2>2. Written(Peer(e))' = Written(Peer(e)) /\ Put(Peer(e))' = Put(Peer(e)) /\ HeldBytes(e)' = HeldBytes(e)
    BY <2>1, SameJob
  <2> QED
    BY <2>1, <2>2, Untouched DEF Clean, Getting
<1>3. CASE Reset
  BY <1>3, LostOrder DEF Reset
<1> QED
  BY <1>1, <1>2, <1>3, DeliverOrder, SocketCloseOrder, StartSendOrder, WriteOrder, StartGetOrder,
     GetNothingOrder, PollOrder DEF NetworkNext, ReadStep

(* What a script that reads is given; it fails if that is not what was     *)
(* sent, and a program that goes on leaves the connection as it was.       *)
LEMMA TakeIs ==
  ASSUME TypesOK, NEW e \in Ends, InOrder(e),
         Getting(e), job[e].need = 0 \/ inbox[e] # <<>> \/ ~Ended(e), Take(e, Available(e))
  PROVE  /\ broken => broken'
         /\ \/ \E p \in 0 .. Len(Protocol[Peer(e)]) :
                 /\ Give(e, p) /\ broken' = broken
                 /\ Clean(Peer(e)) => p = Len(got[e]) + 1 /\ p <= Put(Peer(e))
            \/ Fail(e) /\ ~ Clean(Peer(e)) /\ broken' \in {broken, TRUE}
            \/ UNCHANGED <<got, closed, failed, broken>>
<1> DEFINE k  == Available(e)
           rx == Read(e, k)
<1>1. e \notin failed
  BY SameTypes DEF Getting, TypesOK, SocketsOK
<1>2. Consume(e, Rest(e, k))
  BY DEF Take
<1>3. broken' \in {broken, TRUE} /\ (broken => broken') /\ (failed' = failed => broken' = broken)
  BY <1>1, <1>2 DEF Consume, Lost
<1>4. CASE k # job[e].need
  BY <1>3, <1>4 DEF Take
<1>5. CASE k = job[e].need
  <2>1. FieldRead(e, rx) /\ rx = Read(e, job[e].need) /\ Available(e) = job[e].need
    BY <1>5 DEF Take
  <2> HIDE DEF rx, k
  <2>2. CASE job[e].field = Len(GetFields(e)) /\ Give(e, PacketOf(e, rx))
    <3>1. Clean(Peer(e)) => PacketOf(e, rx) = Len(got[e]) + 1 /\ Len(got[e]) + 1 <= Put(Peer(e))
      BY <2>1, <2>2, CleanReads, RightPacket
    <3>2. failed' = failed
      BY <2>2 DEF Give
    <3> QED
      BY <1>3, <2>2, <3>1, <3>2, PacketOfOK
  <2>3. CASE NextField(e, rx)
    BY <1>3, <2>3 DEF NextField
  <2>4. CASE GetFields(e)[job[e].field] = "tag" /\ TagKinds(e, rx[1]) # {Expected(e).kind} /\ Fail(e)
    <3>1. ~ Clean(Peer(e))
      BY <2>1, <2>4, CleanReads, RightTag
    <3> QED
      BY <1>3, <2>4, <3>1
  <2> QED
    BY <2>1, <2>2, <2>3, <2>4 DEF FieldRead
<1> QED
  BY <1>4, <1>5

(* And a script that gets from an end that has closed.                     *)
LEMMA GetNothingIs ==
  ASSUME TypesOK, NEW e \in Ends, InOrder(e), GetNothing(e)
  PROVE  /\ Peer(e) \in closed /\ UNCHANGED <<broken, torn>>
         /\ \/ Give(e, 0) /\ (Clean(Peer(e)) => Put(Peer(e)) <= Len(got[e]))
            \/ Fail(e)
            \/ UNCHANGED <<got, closed, failed>>
<1>1. Clean(Peer(e)) => Put(Peer(e)) <= Len(got[e])
  BY NothingLeft DEF GetNothing, Waits, Over
<1> QED
  BY <1>1 DEF GetNothing, wire, Ended, NextField

(* All of it at once, kept by every step.                                  *)
NetIInv == TypesOK /\ (\A e \in Ends : InOrder(e)) /\ NoErrUntilCut

(* Only a reader that met something else than it expected ends by err.     *)
LEMMA ErrsKept ==
  ASSUME NetIInv, [NetworkNext]_netVars
  PROVE  NoErrUntilCut'
<1> DEFINE Same == torn \subseteq torn' /\ closed \subseteq closed' /\ (broken => broken')
<1>1. SUFFICES Same /\ \A e \in failed' \ failed : ~ Clean(Peer(e)) \/ Peer(e) \in closed
  BY DEF NetIInv, NoErrUntilCut, Clean
<1>2. \A a \in Ends : Fail(a) => closed \subseteq closed' /\ failed' \ failed \subseteq {a}
  BY DEF Fail
<1>3. ASSUME NEW a \in Ends, BlockRead(a) \/ ReadRaw(a)
      PROVE  Same /\ \A e \in failed' \ failed : ~ Clean(Peer(e)) \/ Peer(e) \in closed
  <2>1. /\ Getting(a) /\ Take(a, Available(a)) /\ torn' = torn
        /\ job[a].need = 0 \/ inbox[a] # <<>> \/ ~Ended(a)
    BY <1>3 DEF BlockRead, ReadRaw
  <2> QED
    BY <1>2, <2>1, TakeIs DEF NetIInv, Give
<1>4. ASSUME NEW a \in Ends, GetNothing(a)
      PROVE  Same /\ \A e \in failed' \ failed : ~ Clean(Peer(e)) \/ Peer(e) \in closed
  BY <1>2, <1>4, GetNothingIs DEF NetIInv, Give
<1>5. ASSUME NEW a \in Ends, WriteStep(a)
      PROVE  Same /\ failed' = failed
  BY <1>5, WriteIs DEF NetIInv
<1>6. ASSUME NEW a \in Ends, Deliver(a) \/ SocketClose(a) \/ StartSend(a) \/ StartGet(a)
                             \/ StartPoll(a) \/ PollEnds(a) \/ Reset
      PROVE  Same /\ failed' = failed
  BY <1>6 DEF Deliver, SocketClose, CloseSocket, StartSend, StartGet, StartPoll, PollEnds, Reset, Lost, wire
<1>7. CASE UNCHANGED netVars
  BY <1>7 DEF netVars, wire
<1>8. CASE Reset
  BY <1>8 DEF Reset, Lost
<1> QED
  BY <1>3, <1>4, <1>5, <1>6, <1>7, <1>8 DEF NetworkNext, ReadStep

LEMMA NetInit == NetworkInit => NetIInv
BY TypesInit, OrderInit DEF NetIInv, NoErrUntilCut, NetworkInit

LEMMA NetKept ==
  ASSUME NetIInv, [NetworkNext]_netVars
  PROVE  NetIInv'
BY TypesKept, OrderKept, ErrsKept DEF NetIInv

LEMMA NetImplies == NetIInv => NetworkInv
<1> SUFFICES ASSUME NetIInv PROVE NetworkInv
  OBVIOUS
<1>1. NetworkTypeOK
  <2>1. TypesOK
    BY DEF NetIInv
  <2>2. ASSUME NEW e \in Ends
        PROVE  /\ job[e].op \in {"idle", "send", "get", "poll"} /\ job[e].field \in 0 .. 4
               /\ \E l \in Lengths : job[e].need \in 0 .. l
               /\ sent[e] \in 0 .. Len(Protocol[e])
    <3>1. job[e] \in Jobs /\ sent[e] \in Nat /\ sent[e] <= Len(Protocol[e]) /\ NeedOK(job[e].need)
      BY <2>1, SameTypes DEF TypesOK, JobOK
    <3>2. \A l \in Lengths : l \in Nat
      <4>1. \A d \in Ends : \A n \in DOMAIN Protocol[d] : Size[d][n] \in Nat
        BY FieldEnds
      <4> QED
        BY <4>1, NetworkAssumption DEF Lengths
    <3>3. \E l \in Lengths : job[e].need \in 0 .. l
      BY <3>1, <3>2 DEF NeedOK
    <3>4. Len(Protocol[e]) \in Nat
      BY PacketEnds
    <3> QED
      BY <3>1, <3>3, <3>4 DEF Jobs
  <2> QED
    BY <2>1, <2>2 DEF NetworkTypeOK, TypesOK, SocketsOK
<1>2. StreamInOrder
  BY DEF NetIInv, InOrder, StreamInOrder, Clean, Ahead, HeldBytes, Left
<1> QED
  BY <1>1, <1>2 DEF NetIInv, NetworkInv

(* While no write was cut and the connection holds, what an end has read of *)
(* a packet, what waits for it and what is on its way are the bytes the     *)
(* other end wrote from there on, whatever pieces SocketSend... and         *)
(* blockread cut them into; and no script is ended by an err of             *)
(* SocketGetInt or SocketGetString before.                                  *)
THEOREM BytesInOrder == NetworkSpec => []NetworkInv
<1>1. NetworkInit => NetIInv
  BY NetInit
<1>2. NetIInv /\ [NetworkNext]_netVars => NetIInv'
  BY NetKept
<1>3. NetIInv => NetworkInv
  BY NetImplies
<1> QED
  BY <1>1, <1>2, <1>3, PTL DEF NetworkSpec

-----------------------------------------------------------------------------
(* The packets, to the scripts.                                            *)

StreamStep ==
  [Stream!StreamNext]_<<[e \in Ends |-> Put(e)], got, closed,
                        torn \cup (IF broken THEN Ends ELSE {})>>

PutSame == \A e \in Ends : Put(e)' = Put(e)

(* What changes neither packets nor the connection is not seen.            *)
LEMMA Unseen ==
  ASSUME PutSame, UNCHANGED <<got, closed, torn, broken>>
  PROVE  StreamStep
BY DEF PutSame, StreamStep

(* A reset, with or without the end of a program.                          *)
LEMMA LostSeen ==
  ASSUME TypesOK, PutSame, broken', torn' = torn, got' = got,
         NEW a \in Ends, closed' \in {closed, closed \cup {a}}
  PROVE  StreamStep
<1>1. torn' \cup (IF broken' THEN Ends ELSE {}) = Ends
  BY DEF TypesOK, SocketsOK
<1>2. [e \in Ends |-> Put(e)]' = [e \in Ends |-> Put(e)]
  BY DEF PutSame
<1>3. CASE closed' = closed \cup {a}
  BY <1>1, <1>2, <1>3 DEF StreamStep, Stream!StreamNext, Stream!Close
<1>4. CASE closed' = closed
  <2>1. Stream!Cut(Ends) /\ UNCHANGED [e \in Ends |-> Put(e)]
    BY <1>1, <1>2, <1>4 DEF Stream!Cut, TypesOK, SocketsOK
  <2> QED
    BY <2>1 DEF StreamStep, Stream!StreamNext
<1> QED
  BY <1>3, <1>4

LEMMA CloseSeen ==
  ASSUME PutSame, UNCHANGED <<got, torn, broken>>, NEW a \in Ends, closed' = closed \cup {a}
  PROVE  StreamStep
<1>1. Stream!Close(a)
  BY DEF PutSame, Stream!Close
<1> QED
  BY <1>1 DEF StreamStep, Stream!StreamNext

(* A packet that is written, one that is cut, or a part of one.            *)
LEMMA WriteSeen ==
  ASSUME TypesOK, NEW a \in Ends, WriteStep(a)
  PROVE  StreamStep
<1> DEFINE puts == [e \in Ends |-> Put(e)]
<1>1. /\ job[a].op = "send" /\ a \notin closed /\ UNCHANGED <<got, broken, closed>>
      /\ torn' \in {torn, torn \cup {a}}
      /\ \E k \in 0 .. job[a].need : Wrote(a, k)
  BY WriteIs
<1>2. Put(a) \in Nat /\ Put(a)' \in {Put(a), Put(a) + 1} /\ Put(a)' <= Len(Protocol[a])
      /\ Len(Protocol[a]) \in Nat
  BY <1>1, PutGrows, PacketEnds
<1>3. \A e \in Ends : e # a => Put(e)' = Put(e)
  <2>1. \A e \in Ends : e # a => job'[e] = job[e] /\ sent'[e] = sent[e]
    BY <1>1 DEF Wrote, TypesOK, SocketsOK
  <2> QED
    BY <2>1, SameJob
<1>4. CASE Put(a)' = Put(a)
  <2>1. puts' = puts
    BY <1>3, <1>4
  <2>2. CASE torn' = torn
    BY <1>1, <2>1, <2>2 DEF StreamStep
  <2>3. CASE torn' = torn \cup {a}
    <3>1. Stream!Cut({a}) /\ puts' = puts
      BY <1>1, <2>1, <2>3 DEF Stream!Cut
    <3> QED
      BY <3>1 DEF StreamStep, Stream!StreamNext
  <2> QED
    BY <1>1, <2>2, <2>3
<1>5. CASE Put(a)' = Put(a) + 1
  <2>1. puts' = [puts EXCEPT ![a] = puts[a] + 1]
    BY <1>3, <1>5
  <2>2. CASE torn' = torn
    <3>1. Stream!Send(a)
      BY <1>1, <1>2, <1>5, <2>1, <2>2 DEF Stream!Send
    <3> QED
      BY <3>1 DEF StreamStep, Stream!StreamNext
  <2>3. CASE torn' = torn \cup {a}
    <3>1. Stream!Cut({a}) /\ puts' = [puts EXCEPT ![a] = puts[a] + 1]
      BY <1>1, <2>1, <2>3 DEF Stream!Cut
    <3> QED
      BY <3>1 DEF StreamStep, Stream!StreamNext
  <2> QED
    BY <1>1, <2>2, <2>3
<1> QED
  BY <1>2, <1>4, <1>5

(* A packet that is given.                                                 *)
LEMMA GiveSeen ==
  ASSUME TypesOK, PutSame, NEW a \in Ends, NEW p \in 0 .. Len(Protocol[Peer(a)]), Give(a, p),
         UNCHANGED <<torn, broken>>,
         Clean(Peer(a)) => \/ p = Len(got[a]) + 1 /\ p <= Put(Peer(a))
                           \/ p = 0 /\ Peer(a) \in closed /\ Put(Peer(a)) <= Len(got[a])
  PROVE  StreamStep
<1>1. Peer(a) \in Ends /\ Stream!Peer(a) = Peer(a)
  BY Peers DEF Peer, Stream!Peer
<1>2. ~ Clean(Peer(a)) => Peer(a) \in torn \cup (IF broken THEN Ends ELSE {})
  BY <1>1 DEF Clean
<1>3. Put(Peer(a)) <= Len(got[a]) => Len(got[a]) >= Put(Peer(a))
  BY <1>1, HeldOK, WrittenOK
<1>4. Stream!Get(a, p)
  BY <1>1, <1>2, <1>3 DEF Stream!Get, PutSame, Give
<1> QED
  BY <1>1, <1>4 DEF StreamStep, Stream!StreamNext

(* A script that gets has nothing it writes.                               *)
LEMMA GetPut ==
  ASSUME TypesOK, NEW a \in Ends, GetMove(a), Getting(a), sent' = sent
  PROVE  PutSame
<1>1. ASSUME NEW e \in Ends
      PROVE  Put(e)' = Put(e)
  <2>1. CASE e = a
    <3>1. job[a].op # "send" /\ job'[a].op # "send"
      BY DEF GetMove, Getting, TypesOK, SocketsOK
    <3> QED
      BY <2>1, <3>1, NotSending
  <2>2. CASE e # a
    <3>1. job'[e] = job[e]
      BY <2>2 DEF GetMove, TypesOK, SocketsOK
    <3> QED
      BY <3>1, SameJob
  <2> QED
    BY <2>1, <2>2
<1> QED
  BY <1>1 DEF PutSame

LEMMA ReadSeen ==
  ASSUME NetIInv, NEW a \in Ends, ReadStep(a)
  PROVE  StreamStep
<1>1. TypesOK /\ InOrder(a) /\ Getting(a) /\ UNCHANGED <<sent, torn>>
  BY DEF NetIInv, ReadStep, BlockRead, ReadRaw, GetNothing
<1>2. CASE BlockRead(a) \/ ReadRaw(a)
  <2>1. /\ Take(a, Available(a))
        /\ job[a].need = 0 \/ inbox[a] # <<>> \/ ~Ended(a)
    BY <1>2 DEF BlockRead, ReadRaw
  <2>2. blocking' \in [Ends -> BOOLEAN]
    BY <1>1, <1>2 DEF BlockRead, ReadRaw, TypesOK, SocketsOK
  <2>3. PutSame
    BY <1>1, <2>1, <2>2, TakeTypes, GetPut
  <2>4. /\ broken => broken'
        /\ \/ \E p \in 0 .. Len(Protocol[Peer(a)]) :
                /\ Give(a, p) /\ broken' = broken
                /\ Clean(Peer(a)) => p = Len(got[a]) + 1 /\ p <= Put(Peer(a))
           \/ Fail(a) /\ broken' \in {broken, TRUE}
           \/ UNCHANGED <<got, closed, failed, broken>>
    BY <1>1, <2>1, TakeIs
  <2>5. CASE \E p \in 0 .. Len(Protocol[Peer(a)]) :
                /\ Give(a, p) /\ broken' = broken
                /\ Clean(Peer(a)) => p = Len(got[a]) + 1 /\ p <= Put(Peer(a))
    BY <1>1, <2>3, <2>5, GiveSeen
  <2>6. CASE Fail(a) /\ broken' = broken
    BY <1>1, <2>3, <2>6, CloseSeen DEF Fail
  <2>7. CASE Fail(a) /\ broken'
    BY <1>1, <2>3, <2>7, LostSeen DEF Fail
  <2>8. CASE UNCHANGED <<got, closed, failed, broken>>
    BY <1>1, <2>3, <2>8, Unseen
  <2> QED
    BY <2>4, <2>5, <2>6, <2>7, <2>8
<1>3. CASE GetNothing(a)
  <2>1. PutSame
    BY <1>1, <1>3, GetNothingTypes, GetPut
  <2>2. /\ Peer(a) \in closed /\ UNCHANGED <<broken, torn>>
        /\ \/ Give(a, 0) /\ (Clean(Peer(a)) => Put(Peer(a)) <= Len(got[a]))
           \/ Fail(a)
           \/ UNCHANGED <<got, closed, failed>>
    BY <1>1, <1>3, GetNothingIs
  <2>3. CASE Give(a, 0) /\ (Clean(Peer(a)) => Put(Peer(a)) <= Len(got[a]))
    <3>1. 0 \in 0 .. Len(Protocol[Peer(a)])
      BY Peers, PacketEnds
    <3> QED
      BY <1>1, <2>1, <2>2, <2>3, <3>1, GiveSeen
  <2>4. CASE Fail(a)
    BY <2>1, <2>2, <2>4, CloseSeen DEF Fail
  <2>5. CASE UNCHANGED <<got, closed, failed>>
    BY <2>1, <2>2, <2>5, Unseen
  <2> QED
    BY <2>2, <2>3, <2>4, <2>5
<1> QED
  BY <1>2, <1>3 DEF ReadStep

LEMMA StreamStarts == NetworkInit => Stream!StreamInit
<1> SUFFICES ASSUME NetworkInit PROVE Stream!StreamInit
  OBVIOUS
<1>1. \A e \in Ends : job[e].op = "idle" /\ sent[e] = 0
  BY Resting DEF NetworkInit
<1>2. \A e \in Ends : Put(e) = 0
  BY <1>1 DEF Put
<1> QED
  BY <1>2 DEF NetworkInit, Stream!StreamInit

LEMMA StreamSteps ==
  ASSUME NetIInv, [NetworkNext]_netVars
  PROVE  StreamStep
<1>1. TypesOK
  BY DEF NetIInv
<1>2. ASSUME UNCHANGED <<job, sent>>
      PROVE  PutSame
  BY <1>2, SameJob DEF PutSame
<1>3. ASSUME NEW a \in Ends, Deliver(a) \/ SocketClose(a)
      PROVE  StreamStep
  <2>1. UNCHANGED <<job, sent, got, torn>> /\ (broken' = broken \/ broken')
        /\ closed' \in {closed, closed \cup {a}}
    BY <1>3 DEF Deliver, SocketClose, CloseSocket, Lost
  <2>2. CASE broken'
    BY <1>1, <1>2, <2>1, <2>2, LostSeen
  <2>3. CASE broken' = broken
    BY <1>2, <2>1, <2>3, Unseen, CloseSeen
  <2> QED
    BY <2>1, <2>2, <2>3
<1>4. CASE Reset
  <2>1. UNCHANGED <<job, sent, got, torn, closed>> /\ broken' /\ \E a \in Ends : TRUE
    BY <1>4, NetworkAssumption DEF Reset, Lost
  <2> QED
    BY <1>1, <1>2, <2>1, LostSeen
<1>5. ASSUME NEW a \in Ends, StartSend(a) \/ StartPoll(a) \/ PollEnds(a)
      PROVE  StreamStep
  <2>1. /\ UNCHANGED <<sent, got, closed, torn, broken>> /\ Put(a)' = Put(a)
        /\ \E j \in Jobs : job' = [job EXCEPT ![a] = j]
    BY <1>1, <1>5, StartSendPut, StartSendTypes, PollPut DEF wire, StartSend, StartPoll, PollEnds
  <2>2. \A e \in Ends : e # a => job'[e] = job[e]
    BY <1>1, <2>1 DEF TypesOK, SocketsOK
  <2>3. PutSame
    BY <2>1, <2>2, SameJob DEF PutSame
  <2> QED
    BY <2>1, <2>3, Unseen
<1>6. ASSUME NEW a \in Ends, StartGet(a)
      PROVE  StreamStep
  <2>1. UNCHANGED <<sent, got, closed, torn, broken>> /\ job[a].op # "send"
    BY <1>6 DEF StartGet, Ready, wire
  <2>2. /\ \A e \in Ends : e # a => job'[e] = job[e]
        /\ job'[a].op # "send"
    BY <1>1, <1>6, StartGetIs DEF TypesOK, SocketsOK
  <2>3. PutSame
    BY <2>1, <2>2, SameJob, NotSending DEF PutSame
  <2> QED
    BY <2>1, <2>3, Unseen
<1>7. CASE UNCHANGED netVars
  <2>1. UNCHANGED <<job, sent, got, closed, torn, broken>>
    BY <1>7 DEF netVars, wire
  <2> QED
    BY <1>2, <2>1, Unseen
<1> QED
  BY <1>1, <1>3, <1>4, <1>5, <1>6, <1>7, WriteSeen, ReadSeen DEF NetworkNext

(* What the scripts at the two ends see of a connection is a stream of      *)
(* whole packets, each given once and in the order they were sent, until a  *)
(* write is cut or the connection is reset: each step of the sockets is a   *)
(* step of PacketStream, or one its reader does not see.                    *)
THEOREM PacketsInOrder == NetworkSpec => StreamKept
<1>1. NetworkInit => NetIInv /\ Stream!StreamInit
  BY NetInit, StreamStarts
<1>2. NetIInv /\ [NetworkNext]_netVars => NetIInv' /\ StreamStep
  BY NetKept, StreamSteps
<1> QED
  BY <1>1, <1>2, PTL DEF NetworkSpec, StreamKept, Stream!StreamSpec, StreamStep
=============================================================================
