-------------------------- MODULE Obstruction_proofs --------------------------
(***************************************************************************)
(* Where entities step, for any map, any number of entities and any sizes: *)
(* they do not walk into each other, the player not into walls, wanderers  *)
(* not out of their zone or box, and nobody off the map.                   *)
(*                                                                         *)
(* All three hang on what an entity has ahead of it: a straight way to its *)
(* waypoint.  Others face along it, so that move_tick looks where they go; *)
(* the player's was searched and is free of walls; a wanderer's leads from *)
(* one tile to the next, and never back.                                   *)
(* And nobody leaves the map: a place is on it by its corners, and what is *)
(* searched or looked at before a decision ends at the map's edge.         *)
(*                                                                         *)
(* Scripts change the map under those who are on their way: what was a way *)
(* free of walls, or within a zone, when it was chosen is one still but for*)
(* the tiles changed since, and the history variables name those.          *)
(***************************************************************************)
EXTENDS Obstruction, WellFoundedInduction, TLAPS

Places == Int \X Int

Base ==
  /\ pos \in [Entities -> Places] /\ way \in [Entities -> Places]
  /\ face \in [Entities -> Faces] /\ movecode \in [Entities -> 0 .. 3]
  /\ walls \subseteq Tiles /\ zones \in [Tiles -> Nat]
  /\ raised \subseteq Tiles /\ rezoned \in [Entities -> SUBSET Tiles]

(* w is n steps from p in direction d.                                     *)
Along(p, w, d, n) == w = Plus(p, Times(n, d))

-----------------------------------------------------------------------------
(* Places, directions and ways.                                            *)

LEMMA EachFace ==
  /\ Faces \subseteq Directions /\ Directions \subseteq Places
  /\ \A d \in Faces : Times(-1, d) \in Faces
  /\ \A d \in Directions : Facing(d) \in Faces
BY DEF Faces, Directions, Keys, Places, Times, Facing, sgn

LEMMA EachDirection ==
  ASSUME NEW d \in Directions
  PROVE  /\ d[1] \in {-1, 0, 1} /\ d[2] \in {-1, 0, 1}
         /\ d = <<d[1], d[2]>> /\ (d[1] # 0 \/ d[2] # 0)
BY DEF Directions, Keys

LEMMA PlusPlace ==
  ASSUME NEW p \in Places, NEW q \in Places, NEW n \in Int
  PROVE  Plus(p, q) \in Places /\ Times(n, q) \in Places
BY DEF Places, Plus, Times

(* A place is on its own way.                                              *)
LEMMA NoWay ==
  ASSUME NEW p \in Places, NEW d \in Directions
  PROVE  Along(p, p, d, 0)
BY EachDirection DEF Along, Plus, Times, Places

(* The step towards the waypoint is a step of the way.                     *)
LEMMA OneStep ==
  ASSUME NEW p \in Places, NEW w \in Places, NEW d \in Directions, NEW n \in Nat,
         Along(p, w, d, n), w # p
  PROVE  /\ n - 1 \in Nat
         /\ <<sgn(w[1] - p[1]), sgn(w[2] - p[2])>> = d
         /\ Along(Plus(p, d), w, d, n - 1)
<1>1. /\ d[1] \in {-1, 0, 1} /\ d[2] \in {-1, 0, 1}
      /\ d = <<d[1], d[2]>> /\ (d[1] # 0 \/ d[2] # 0)
  BY EachDirection
<1>2. PICK a \in Int, b \in Int : p = <<a, b>>
  BY DEF Places
<1>3. w = <<a + n * d[1], b + n * d[2]>>
  BY <1>2 DEF Along, Plus, Times
<1>4. n # 0
  BY <1>1, <1>2, <1>3
<1>5. n \in Int /\ n >= 1
  BY <1>4
<1>6. /\ w[1] - p[1] = n * d[1] /\ w[2] - p[2] = n * d[2]
  BY <1>1, <1>2, <1>3
<1>7. \A x \in {-1, 0, 1} : sgn(n * x) = x
  BY <1>5 DEF sgn
<1>8. <<sgn(w[1] - p[1]), sgn(w[2] - p[2])>> = d
  BY <1>1, <1>6, <1>7
<1>9. Along(Plus(p, d), w, d, n - 1)
  <2>1. \A x \in {-1, 0, 1}, y \in Int : y + n * x = (y + x) + (n - 1) * x
    BY <1>5
  <2>2. Plus(Plus(p, d), Times(n - 1, d)) = <<(a + d[1]) + (n - 1) * d[1], (b + d[2]) + (n - 1) * d[2]>>
    BY <1>1, <1>2 DEF Plus, Times
  <2> QED
    BY <1>1, <1>2, <1>3, <2>1, <2>2 DEF Along
<1> QED
  BY <1>5, <1>8, <1>9

(* What move_tick does to the places.                                      *)
LEMMA Moved ==
  ASSUME Base, NEW e \in Entities, NEW w \in Places, NEW f, MoveTick(e, w, f)
  PROVE  /\ pos' \in [Entities -> Places]
         /\ \A q \in Entities : q # e => pos'[q] = pos[q]
         /\ \/ pos'[e] = pos[e]
            \/ /\ w # pos[e] /\ (e = myself \/ ~ ObstructDirTick(e, f))
               /\ pos'[e] = Plus(pos[e], <<sgn(w[1] - pos[e][1]), sgn(w[2] - pos[e][2])>>)
<1> DEFINE s == <<sgn(w[1] - pos[e][1]), sgn(w[2] - pos[e][2])>>
<1>1. pos \in [Entities -> Places] /\ pos[e] \in Places
  BY DEF Base
<1>2. s \in Places
  BY <1>1 DEF Places, sgn
<1>3. Plus(pos[e], s) \in Places
  BY <1>1, <1>2, PlusPlace
<1>4. CASE w = pos[e] \/ (e # myself /\ ObstructDirTick(e, f))
  BY <1>1, <1>4 DEF MoveTick
<1>5. CASE ~ (w = pos[e] \/ (e # myself /\ ObstructDirTick(e, f)))
  <2>1. pos' = [pos EXCEPT ![e] = Plus(pos[e], s)]
    BY <1>5 DEF MoveTick
  <2> HIDE DEF s
  <2>2. pos' \in [Entities -> Places] /\ pos'[e] = Plus(pos[e], s)
        /\ \A q \in Entities : q # e => pos'[q] = pos[q]
    BY <1>1, <1>3, <2>1
  <2>3. w # pos[e] /\ (e = myself \/ ~ ObstructDirTick(e, f))
    BY <1>5
  <2> USE DEF s
  <2> QED
    BY <2>2, <2>3
<1> QED
  BY <1>4, <1>5

-----------------------------------------------------------------------------
(* Decisions.                                                              *)

LEMMA SmallestIn ==
  ASSUME NEW S, S \subseteq Nat, S # {}
  PROVE  Min(S) \in S /\ \A y \in S : Min(S) <= y
<1> DEFINE R == OpToRel(<, Nat)
<1>1. IsWellFoundedOn(R, Nat)
  BY NatLessThanWellFounded
<1>2. \A x, y \in Nat : <<y, x>> \in R <=> y < x
  BY DEF OpToRel
<1> HIDE DEF R
<1>3. PICK x \in S : \A y \in S : ~ (<<y, x>> \in R)
  BY <1>1, WFMin
<1>4. ASSUME NEW y \in S
      PROVE  x <= y
  <2>1. x \in Nat /\ y \in Nat
    OBVIOUS
  <2>2. ~ (y < x)
    BY <1>2, <1>3, <2>1
  <2> QED
    BY <2>1, <2>2
<1> QED
  BY <1>4 DEF Min

(* Nothing obstructs up to the distance found, and something right behind  *)
(* it unless it is all that was asked for.                                 *)
LEMMA DistanceIsFree ==
  ASSUME NEW d, NEW max \in Nat
  PROVE  /\ MaxPlayerMove(d, max) \in 0 .. max
         /\ myself \in Obstructable =>
              \A m \in 1 .. MaxPlayerMove(d, max) :
                \A p \in Ahead(pos[myself], d, m) : ~ ObstructAt(p)
         /\ myself \in Obstructable /\ MaxPlayerMove(d, max) < max =>
              \E p \in Ahead(pos[myself], d, MaxPlayerMove(d, max) + 1) : ObstructAt(p)
<1> DEFINE blocked == {n \in 1 .. max + 1 : \E p \in Ahead(pos[myself], d, n) : ObstructAt(p)}
<1>1. blocked \subseteq Nat /\ \A n \in blocked : n \in 1 .. max + 1
  OBVIOUS
<1>2. CASE myself \notin Obstructable
  BY <1>2 DEF MaxPlayerMove
<1>3. CASE myself \in Obstructable /\ blocked = {}
  <2>1. MaxPlayerMove(d, max) = max
    BY <1>3 DEF MaxPlayerMove
  <2>2. \A m \in 1 .. max : m \in 1 .. max + 1
    OBVIOUS
  <2> QED
    BY <1>3, <2>1, <2>2
<1>4. CASE myself \in Obstructable /\ blocked # {}
  <2>1. MaxPlayerMove(d, max) = Min(blocked) - 1
    BY <1>4 DEF MaxPlayerMove
  <2>2. /\ Min(blocked) \in 1 .. max + 1 /\ \A n \in blocked : Min(blocked) <= n
        /\ Min(blocked) \in blocked
    BY <1>1, <1>4, SmallestIn
  <2>3. ASSUME NEW m \in 1 .. Min(blocked) - 1
        PROVE  m \notin blocked /\ m \in 1 .. max + 1
    <3>1. m \in Int /\ Min(blocked) \in Int /\ m < Min(blocked)
      BY <2>2
    <3>2. m \notin blocked
      BY <2>2, <3>1
    <3>3. m \in 1 .. max + 1
      BY <2>2
    <3> QED
      BY <3>2, <3>3
  <2>4. Min(blocked) - 1 \in 0 .. max /\ (Min(blocked) - 1) + 1 = Min(blocked)
    BY <2>2
  <2>5. \E p \in Ahead(pos[myself], d, Min(blocked)) : ObstructAt(p)
    BY <2>2
  <2> QED
    BY <2>1, <2>3, <2>4, <2>5
<1> QED
  BY <1>2, <1>3, <1>4

(* ProcessControls tries directions, and only those.                       *)
LEMMA AttemptsAreDirections ==
  ASSUME NEW k \in Keys
  PROVE  /\ Attempts(k) \in Seq(Directions)
         /\ Attempts(k) # <<>> => k \in Directions
<1> DEFINE h == k[1]
           v == k[2]
           both == IF h # 0 /\ v # 0 THEN <<k>> ELSE <<>>
           vert == IF v = 0 THEN <<>> ELSE <<<<0, v>>, <<-1, v>>, <<1, v>>>>
           hori == IF h = 0 THEN <<>> ELSE <<<<h, 0>>, <<h, -1>>, <<h, 1>>>>
<1>1. h \in {-1, 0, 1} /\ v \in {-1, 0, 1} /\ k = <<h, v>>
  BY DEF Keys
<1>2. \A x, y \in {-1, 0, 1} : x # 0 \/ y # 0 => <<x, y>> \in Directions
  BY DEF Directions, Keys
<1>3. h # 0 \/ v # 0 => k \in Directions
  BY <1>1, <1>2
<1>4. <<>> \in Seq(Directions)
  OBVIOUS
<1>5. \A a \in Directions : <<a>> \in Seq(Directions)
  OBVIOUS
<1>6. \A a, b, c \in Directions : <<a, b, c>> \in Seq(Directions)
  OBVIOUS
<1>7. both \in Seq(Directions)
  BY <1>3, <1>4, <1>5
<1>8. vert \in Seq(Directions)
  <2>1. v # 0 => <<0, v>> \in Directions /\ <<-1, v>> \in Directions /\ <<1, v>> \in Directions
    BY <1>1, <1>2
  <2> QED
    BY <1>4, <1>6, <2>1
<1>9. hori \in Seq(Directions)
  <2>1. h # 0 => <<h, 0>> \in Directions /\ <<h, -1>> \in Directions /\ <<h, 1>> \in Directions
    BY <1>1, <1>2
  <2> QED
    BY <1>4, <1>6, <2>1
<1>10. h = 0 /\ v = 0 => both = <<>> /\ vert = <<>> /\ hori = <<>>
  OBVIOUS
<1>11. Attempts(k) = IF playerdiagonals THEN both \o vert \o hori
                     ELSE IF (h = 0) = (v = 0) THEN <<>> ELSE <<k>>
  BY DEF Attempts
<1> HIDE DEF both, vert, hori
<1>12. both \o vert \o hori \in Seq(Directions)
  BY <1>7, <1>8, <1>9
<1>13. <<>> \o <<>> \o <<>> = <<>>
  OBVIOUS
<1>14. h = 0 /\ v = 0 => Attempts(k) = <<>>
  BY <1>10, <1>11, <1>13
<1>15. (h = 0) # (v = 0) => <<k>> \in Seq(Directions)
  BY <1>3, <1>5
<1>16. Attempts(k) \in Seq(Directions)
  BY <1>4, <1>11, <1>12, <1>15
<1> QED
  BY <1>3, <1>14, <1>16

(* What the keys decide: to stay, or to go as far as is free.              *)
LEMMA ControlsCases ==
  ASSUME Base, NEW k \in Keys, NEW d \in Controls(k)
  PROVE  /\ d.code = Cleaned(movecode[myself]) /\ d.face \in Faces
         /\ \/ d.way = way[myself]
            \/ \E a \in Directions :
                 d.way = Plus(way[myself], Times(MaxPlayerMove(a, playerstep), a))
<1> DEFINE ended == [Staying(myself) EXCEPT !.code = Cleaned(@)]
           tries == Attempts(k)
           free  == {i \in DOMAIN tries : MaxPlayerMove(tries[i], playerstep) > 0}
<1>1. /\ ended = [way |-> way[myself], face |-> face[myself], code |-> Cleaned(movecode[myself])]
      /\ face[myself] \in Faces
  BY ObstructionAssumption DEF Base, Staying
<1>2. tries \in Seq(Directions) /\ (tries # <<>> => k \in Directions)
  BY AttemptsAreDirections
<1>3. CASE FirstFree(k) = {}
  <2>1. d = [ended EXCEPT !.face = FaceHeld(k)]
    BY <1>3 DEF Controls
  <2>2. FaceHeld(k) \in Faces
    BY <1>1, <1>2, EachFace DEF FaceHeld
  <2> QED
    BY <1>1, <2>1, <2>2
<1>4. CASE FirstFree(k) # {}
  <2>1. free # {} /\ FirstFree(k) = {tries[Min(free)]}
    BY <1>4 DEF FirstFree
  <2>2. free \subseteq DOMAIN tries /\ free \subseteq Nat
    BY <1>2
  <2>3. Min(free) \in free
    BY <2>1, <2>2, SmallestIn
  <2>4. tries[Min(free)] \in Directions /\ tries # <<>>
    BY <1>2, <2>2, <2>3
  <2>5. PICK a \in Directions :
          d = [ended EXCEPT !.way = Plus(@, Times(MaxPlayerMove(a, playerstep), a)),
                            !.face = Facing(a)]
    <3> DEFINE C(a) == [ended EXCEPT !.way = Plus(@, Times(MaxPlayerMove(a, playerstep), a)),
                                     !.face = Facing(a)]
    <3>1. Controls(k) = {C(a) : a \in FirstFree(k)}
      BY <1>4 DEF Controls
    <3> HIDE DEF C
    <3>2. d = C(tries[Min(free)])
      BY <2>1, <3>1
    <3>3. d = [ended EXCEPT !.way = Plus(@, Times(MaxPlayerMove(tries[Min(free)], playerstep), tries[Min(free)])),
                            !.face = Facing(tries[Min(free)])]
      BY <3>2 DEF C
    <3> QED
      BY <2>4, <3>3
  <2>6. Facing(a) \in Faces
    BY EachFace
  <2> QED
    BY <1>1, <2>5, <2>6
<1> QED
  BY <1>3, <1>4

(* What a wanderer decides.                                                *)
LEMMA WanderCases ==
  ASSUME NEW e \in Entities, NEW tiles, NEW d \in Wander(e, tiles)
  PROVE  \/ d = Staying(e)
         \/ \E f \in Faces : /\ Plus(TileOf(pos[e]), f) \in tiles
                             /\ d = Going(e, Times(Tile, f), f)
BY DEF Wander

LEMMA GoingParts ==
  ASSUME NEW e \in Entities, NEW by, NEW f
  PROVE  /\ Going(e, by, f).way = Plus(way[e], by)
         /\ Going(e, by, f).face = f /\ Going(e, by, f).code = movecode[e]
         /\ Staying(e).way = way[e] /\ Staying(e).face = face[e] /\ Staying(e).code = movecode[e]
BY DEF Going, Staying

LEMMA DecisionCases ==
  ASSUME Base, NEW e \in Entities, NEW d \in Decisions(e)
  PROVE  \/ d = Staying(e)
         \/ Ready(e) /\ movecode[e] = 0 /\ e = myself /\ \E k \in Keys : d \in Controls(k)
         \/ Ready(e) /\ movecode[e] = 1 /\ d \in do_wanderzone(e)
         \/ Ready(e) /\ movecode[e] = 2 /\ d \in do_wanderbox(e)
         \/ Ready(e) /\ movecode[e] = 3 /\ d \in do_movescript(e)
<1>1. movecode[e] \in 0 .. 3
  BY DEF Base
<1>2. movecode[e] = 0 \/ movecode[e] = 1 \/ movecode[e] = 2 \/ movecode[e] = 3
  BY <1>1
<1>3. CASE ~ Ready(e)
  <2>1. Decisions(e) = {Staying(e)}
    BY <1>3 DEF Decisions
  <2> QED
    BY <2>1
<1>4. CASE Ready(e) /\ movecode[e] = 0
  <2>1. Decisions(e) = {Staying(e)} \cup (IF e = myself THEN UNION {Controls(k) : k \in Keys} ELSE {})
    BY <1>4 DEF Decisions
  <2> QED
    BY <1>4, <2>1
<1>5. CASE Ready(e) /\ movecode[e] = 1
  <2>1. Decisions(e) = do_wanderzone(e)
    BY <1>5 DEF Decisions
  <2> QED
    BY <1>5, <2>1
<1>6. CASE Ready(e) /\ movecode[e] = 2
  <2>1. Decisions(e) = do_wanderbox(e)
    BY <1>6 DEF Decisions
  <2> QED
    BY <1>6, <2>1
<1>7. CASE Ready(e) /\ movecode[e] = 3
  <2>1. Decisions(e) = do_movescript(e)
    BY <1>7 DEF Decisions
  <2> QED
    BY <1>7, <2>1
<1> QED
  BY <1>2, <1>3, <1>4, <1>5, <1>6, <1>7

(* A move script goes on, turns or ends.                                   *)
LEMMA ScriptCases ==
  ASSUME Base, NEW e \in Entities, NEW d \in do_movescript(e)
  PROVE  \/ \E s \in ScriptSteps : d = Going(e, s.by, s.face)
         \/ \E f \in Faces : d.way = way[e] /\ d.face = f /\ d.code = movecode[e]
         \/ d.way = way[e] /\ d.face = face[e] /\ d.code = 0
BY DEF do_movescript, Staying

LEMMA DecisionTypes ==
  ASSUME Base, NEW e \in Entities, NEW d \in Decisions(e)
  PROVE  d.way \in Places /\ d.face \in Faces /\ d.code \in 0 .. 3
<1>1. way[e] \in Places /\ face[e] \in Faces /\ movecode[e] \in 0 .. 3
  BY DEF Base
<1>2. CASE d = Staying(e)
  BY <1>1, <1>2, GoingParts
<1>3. ASSUME NEW by \in Places, NEW f \in Faces, d = Going(e, by, f)
      PROVE  d.way \in Places /\ d.face \in Faces /\ d.code \in 0 .. 3
  BY <1>1, <1>3, GoingParts, PlusPlace
<1>4. \A f \in Faces : Times(Tile, f) \in Places
  <2>1. Tile \in Int
    BY ObstructionAssumption
  <2> QED
    BY EachFace, PlusPlace, <2>1
<1>5. CASE d \in do_wanderzone(e) \/ d \in do_wanderbox(e)
  <2>1. d = Staying(e) \/ \E f \in Faces : d = Going(e, Times(Tile, f), f)
    BY <1>5, WanderCases DEF do_wanderzone, do_wanderbox
  <2> QED
    BY <1>2, <1>3, <1>4, <2>1
<1>6. CASE d \in do_movescript(e)
  <2>1. \A s \in ScriptSteps : s.by \in Places /\ s.face \in Faces
    BY ObstructionAssumption DEF Places
  <2> QED
    BY <1>1, <1>3, <1>6, <2>1, ScriptCases
<1>7. CASE e = myself /\ \E k \in Keys : d \in Controls(k)
  <2>1. PICK k \in Keys : d \in Controls(k)
    BY <1>7
  <2>2. Cleaned(movecode[myself]) \in 0 .. 3
    BY <1>1, <1>7 DEF Cleaned
  <2>3. playerstep \in Nat
    BY ObstructionAssumption
  <2>4. \A a \in Directions :
          Plus(way[myself], Times(MaxPlayerMove(a, playerstep), a)) \in Places
    <3> SUFFICES ASSUME NEW a \in Directions
                 PROVE  Plus(way[myself], Times(MaxPlayerMove(a, playerstep), a)) \in Places
      OBVIOUS
    <3>1. MaxPlayerMove(a, playerstep) \in 0 .. playerstep
      BY <2>3, DistanceIsFree
    <3>2. MaxPlayerMove(a, playerstep) \in Int
      BY <2>3, <3>1
    <3> QED
      BY <1>1, <1>7, <3>2, EachFace, PlusPlace
  <2> QED
    BY <1>1, <1>7, <2>1, <2>2, <2>4, ControlsCases
<1> QED
  BY <1>2, <1>5, <1>6, <1>7, DecisionCases

-----------------------------------------------------------------------------
(* What each step does to one entity.                                      *)

(* Everything a step can do to entity q, and what it knows of it before.   *)
Stands(q) == UNCHANGED <<pos[q], way[q], face[q], movecode[q]>>

Thinks(q) ==
  \E d \in Decisions(q) :
    /\ way'[q] = d.way /\ face'[q] = d.face /\ movecode'[q] = d.code
    /\ \/ pos'[q] = pos[q]
       \/ /\ d.way # pos[q] /\ (q = myself \/ ~ ObstructDirTick(q, d.face))
          /\ pos'[q] = Plus(pos[q], <<sgn(d.way[1] - pos[q][1]), sgn(d.way[2] - pos[q][2])>>)

Steered(q) ==
  /\ q = myself /\ Ready(q) /\ pos'[q] = pos[q]
  /\ \E k \in Keys : \E d \in Controls(k) :
       way'[q] = d.way /\ face'[q] = d.face /\ movecode'[q] = d.code

TurnedTo(q) ==
  /\ pos'[q] = pos[q] /\ way'[q] = way[q] /\ face'[q] \in Faces
  /\ movecode'[q] = movecode[q] \/ (q = myself /\ movecode'[q] = Cleaned(movecode[q]) /\ Ready(q))
  /\ TurnsWalking \/ Ready(q) \/ face'[q] = face[q]

Stopped(q) ==
  /\ pos'[q] = pos[q] /\ way'[q] = pos[q] /\ face'[q] = face[q] /\ movecode'[q] \in Codes[q]

(* A step that decides for q has the map before it, and forgets older      *)
(* changes of it if it chooses anew.                                       *)
Seen(q) ==
  /\ UNCHANGED mapVars
  /\ rezoned'[q] = IF Ready(q) THEN {} ELSE rezoned[q]
  /\ q = myself => raised' = IF Ready(q) THEN {} ELSE raised

(* What may be on a way searched since.                                    *)
Clear == Ground \cup raised

(* Any other step keeps in mind the tiles it changes.                      *)
Remembered(q) ==
  /\ q = myself => Clear \subseteq Clear'
  /\ \A t : zone(t)' = zone(t) \/ t \in rezoned'[q]
  /\ rezoned[q] \subseteq rezoned'[q]

(* The variables of the map, with those of the entities apart.             *)
MapTyped ==
  /\ walls \subseteq Tiles /\ zones \in [Tiles -> Nat]
  /\ raised \subseteq Tiles /\ rezoned \in [Entities -> SUBSET Tiles]

LEMMA MapLooked ==
  ASSUME Base, NEW e \in Entities, Looks(e)
  PROVE  /\ MapTyped' /\ Seen(e)
         /\ \A q \in Entities \ {e} : Remembered(q)
<1>1. /\ walls' = walls /\ zones' = zones
      /\ raised' = (IF e = myself /\ Ready(e) THEN {} ELSE raised)
      /\ rezoned' = (IF Ready(e) THEN [rezoned EXCEPT ![e] = {}] ELSE rezoned)
  BY DEF Looks, mapVars
<1>2. /\ rezoned \in [Entities -> SUBSET Tiles] /\ walls \subseteq Tiles
      /\ zones \in [Tiles -> Nat] /\ raised \subseteq Tiles
  BY DEF Base
<1>3. /\ rezoned' \in [Entities -> SUBSET Tiles]
      /\ rezoned'[e] = (IF Ready(e) THEN {} ELSE rezoned[e])
      /\ \A q \in Entities \ {e} : rezoned'[q] = rezoned[q]
  BY <1>1, <1>2
<1>4. MapTyped' /\ Seen(e)
  BY <1>1, <1>2, <1>3 DEF MapTyped, Seen, mapVars
<1>5. ASSUME NEW q \in Entities \ {e} PROVE Remembered(q)
  <2>1. q = myself => Clear' = Clear
    BY <1>1 DEF Clear, Ground
  <2>2. \A t : zone(t)' = zone(t)
    BY <1>1 DEF zone
  <2> QED
    BY <1>3, <2>1, <2>2 DEF Remembered
<1> QED
  BY <1>4, <1>5

LEMMA MapKept ==
  ASSUME Base, UNCHANGED <<mapVars, mapHist>>
  PROVE  MapTyped' /\ \A q \in Entities : Remembered(q)
<1>1. walls' = walls /\ zones' = zones /\ raised' = raised /\ rezoned' = rezoned
  BY DEF mapVars, mapHist
<1>2. Clear' = Clear /\ \A t : zone(t)' = zone(t)
  BY <1>1 DEF Clear, Ground, zone
<1> QED
  BY <1>1, <1>2 DEF MapTyped, Base, Remembered

LEMMA WallsChanged ==
  ASSUME Base, NEW t \in ObsTiles, NEW c \in BOOLEAN, SetObs(t, c)
  PROVE  MapTyped' /\ \A q \in Entities : Remembered(q)
<1>1. /\ walls' = (IF c THEN walls \cup {t} ELSE walls \ {t})
      /\ raised' = (IF c THEN raised \cup {t} ELSE raised)
      /\ zones' = zones /\ rezoned' = rezoned /\ t \in Tiles
  BY ObstructionAssumption DEF SetObs
<1>2. Clear \subseteq Clear'
  BY <1>1 DEF Clear, Ground
<1>3. \A u : zone(u)' = zone(u)
  BY <1>1 DEF zone
<1> QED
  BY <1>1, <1>2, <1>3 DEF MapTyped, Base, Remembered

LEMMA ZonesChanged ==
  ASSUME Base, NEW t \in Tiles, NEW z \in Nat, SetZone(t, z)
  PROVE  MapTyped' /\ \A q \in Entities : Remembered(q)
<1>1. /\ zones' = [zones EXCEPT ![t] = z]
      /\ rezoned' = [e \in Entities |-> rezoned[e] \cup {t}]
      /\ walls' = walls /\ raised' = raised
  BY DEF SetZone
<1>2. zones \in [Tiles -> Nat] /\ rezoned \in [Entities -> SUBSET Tiles]
  BY DEF Base
<1>3. zones' \in [Tiles -> Nat] /\ \A u \in Tiles \ {t} : zones'[u] = zones[u]
  BY <1>1, <1>2
<1>4. \A u : u # t => zone(u)' = zone(u)
  BY <1>3 DEF zone, ZoneIn
<1>5. Clear' = Clear
  BY <1>1 DEF Clear, Ground
<1>6. \A q \in Entities : rezoned'[q] = rezoned[q] \cup {t}
  BY <1>1
<1>7. rezoned' \in [Entities -> SUBSET Tiles]
  BY <1>1, <1>2
<1>8. MapTyped'
  BY <1>1, <1>3, <1>7 DEF MapTyped, Base
<1> QED
  BY <1>4, <1>5, <1>6, <1>8 DEF Remembered

LEMMA DecideParts ==
  ASSUME Base, NEW e \in Entities, NEW d, Decide(e, d),
         d.way \in Places, d.face \in Faces, d.code \in 0 .. 3
  PROVE  /\ way' \in [Entities -> Places] /\ face' \in [Entities -> Faces]
         /\ movecode' \in [Entities -> 0 .. 3]
         /\ way'[e] = d.way /\ face'[e] = d.face /\ movecode'[e] = d.code
         /\ \A q \in Entities \ {e} : UNCHANGED <<way[q], face[q], movecode[q]>>
BY DEF Base, Decide

LEMMA ControlsTypes ==
  ASSUME Base, NEW k \in Keys, NEW d \in Controls(k)
  PROVE  d.way \in Places /\ d.face \in Faces /\ d.code \in 0 .. 3
<1>1. myself \in Entities /\ playerstep \in Nat
  BY ObstructionAssumption
<1>2. way[myself] \in Places /\ movecode[myself] \in 0 .. 3
  BY <1>1 DEF Base
<1>3. Cleaned(movecode[myself]) \in 0 .. 3
  BY <1>2 DEF Cleaned
<1>4. ASSUME NEW a \in Directions
      PROVE  Plus(way[myself], Times(MaxPlayerMove(a, playerstep), a)) \in Places
  <2>1. MaxPlayerMove(a, playerstep) \in 0 .. playerstep
    BY <1>1, DistanceIsFree
  <2>2. MaxPlayerMove(a, playerstep) \in Int
    BY <1>1, <2>1
  <2> QED
    BY <1>2, <2>2, EachFace, PlusPlace
<1> QED
  BY <1>2, <1>3, <1>4, ControlsCases

(* The actions, seen by one entity.                                        *)
LEMMA StepCases ==
  ASSUME Base, ObsNext
  PROVE  /\ Base'
         /\ \A q \in Entities :
              \/ Seen(q) /\ (Thinks(q) \/ Steered(q))
              \/ Remembered(q) /\ (Stands(q) \/ TurnedTo(q) \/ Stopped(q))
<1>1. CASE \E e \in Entities : Think(e)
  <2>0. PICK e \in Entities : Think(e)
    BY <1>1
  <2>1. PICK d \in Decisions(e) : Decide(e, d) /\ MoveTick(e, d.way, d.face)
    BY <2>0 DEF Think
  <2>2. d.way \in Places /\ d.face \in Faces /\ d.code \in 0 .. 3
    BY DecisionTypes
  <2>3. /\ way' \in [Entities -> Places] /\ face' \in [Entities -> Faces]
        /\ movecode' \in [Entities -> 0 .. 3]
        /\ way'[e] = d.way /\ face'[e] = d.face /\ movecode'[e] = d.code
        /\ \A q \in Entities \ {e} : UNCHANGED <<way[q], face[q], movecode[q]>>
    BY <2>1, <2>2, DecideParts
  <2>4. /\ pos' \in [Entities -> Places]
        /\ \A q \in Entities : q # e => pos'[q] = pos[q]
        /\ \/ pos'[e] = pos[e]
           \/ /\ d.way # pos[e] /\ (e = myself \/ ~ ObstructDirTick(e, d.face))
              /\ pos'[e] = Plus(pos[e], <<sgn(d.way[1] - pos[e][1]), sgn(d.way[2] - pos[e][2])>>)
    BY <2>1, <2>2, Moved
  <2>5. Thinks(e)
    BY <2>3, <2>4 DEF Thinks
  <2>6. \A q \in Entities \ {e} : Stands(q)
    BY <2>3, <2>4 DEF Stands
  <2>7. MapTyped' /\ Seen(e) /\ \A q \in Entities \ {e} : Remembered(q)
    BY <2>0, MapLooked DEF Think
  <2> QED
    BY <2>3, <2>4, <2>5, <2>6, <2>7 DEF Base, MapTyped
<1>2. CASE ProcessControls
  <2>0. PICK k \in Keys : \E d \in Controls(k) : Decide(myself, d)
    BY <1>2 DEF ProcessControls
  <2>1. PICK d \in Controls(k) : Decide(myself, d)
    BY <2>0
  <2>2. d.way \in Places /\ d.face \in Faces /\ d.code \in 0 .. 3 /\ myself \in Entities
    BY ControlsTypes, ObstructionAssumption
  <2>3. /\ way' \in [Entities -> Places] /\ face' \in [Entities -> Faces]
        /\ movecode' \in [Entities -> 0 .. 3]
        /\ way'[myself] = d.way /\ face'[myself] = d.face /\ movecode'[myself] = d.code
        /\ \A q \in Entities \ {myself} : UNCHANGED <<way[q], face[q], movecode[q]>>
    BY <2>1, <2>2, DecideParts
  <2>4. Ready(myself) /\ pos' = pos
    BY <1>2 DEF ProcessControls
  <2>5. Steered(myself) /\ \A q \in Entities \ {myself} : Stands(q)
    BY <2>3, <2>4 DEF Steered, Stands
  <2>6. MapTyped' /\ Seen(myself) /\ \A q \in Entities \ {myself} : Remembered(q)
    BY <1>2, <2>2, MapLooked DEF ProcessControls
  <2> QED
    BY <2>3, <2>4, <2>5, <2>6 DEF Base, MapTyped
<1>3. CASE Activate
  <2>1. PICK k \in Keys, e \in Talking :
          Ready(e) /\ face' = [face EXCEPT ![myself] = FaceHeld(k), ![e] = Times(-1, FaceHeld(k))]
    BY <1>3 DEF Activate
  <2> DEFINE f == FaceHeld(k)
  <2>2. /\ Ready(myself) /\ pos' = pos /\ way' = way
        /\ movecode' = [movecode EXCEPT ![myself] = Cleaned(movecode[myself])]
    BY <1>3 DEF Activate
  <2>3. myself \in Entities /\ e \in Entities /\ Ready(e)
    BY <2>1, ObstructionAssumption
  <2>4. f \in Faces /\ Times(-1, f) \in Faces
    <3>1. face[myself] \in Faces
      BY <2>3 DEF Base
    <3>2. Attempts(k) # <<>> => k \in Directions
      BY AttemptsAreDirections
    <3> QED
      BY <3>1, <3>2, EachFace DEF FaceHeld
  <2>5. face' = [face EXCEPT ![myself] = f, ![e] = Times(-1, f)]
    BY <2>1
  <2> HIDE DEF f
  <2>6. /\ face' \in [Entities -> Faces]
        /\ \A q \in Entities : q \notin {myself, e} => face'[q] = face[q]
    BY <2>3, <2>4, <2>5 DEF Base
  <2>7. /\ movecode' \in [Entities -> 0 .. 3]
        /\ movecode'[myself] = Cleaned(movecode[myself])
        /\ \A q \in Entities : q # myself => movecode'[q] = movecode[q]
    <3>1. Cleaned(movecode[myself]) \in 0 .. 3
      BY <2>3 DEF Base, Cleaned
    <3> QED
      BY <2>2, <2>3, <3>1 DEF Base
  <2>8. ASSUME NEW q \in Entities PROVE TurnedTo(q)
    BY <2>2, <2>3, <2>6, <2>7 DEF TurnedTo
  <2>9. MapTyped' /\ \A q \in Entities : Remembered(q)
    BY <1>3, MapKept DEF Activate
  <2> QED
    BY <2>2, <2>6, <2>7, <2>8, <2>9 DEF Base, MapTyped
<1>4. CASE \E e \in Entities : \E code \in Codes[e] : SetMovement(e, code)
  <2>0. PICK e \in Entities : \E code \in Codes[e] : SetMovement(e, code)
    BY <1>4
  <2>1. PICK code \in Codes[e] : SetMovement(e, code)
    BY <2>0
  <2>2. code \in 0 .. 3
    BY ObstructionAssumption
  <2>3. pos' = pos /\ face' = face
    BY <2>1 DEF SetMovement
  <2>4. /\ way' \in [Entities -> Places] /\ way'[e] = pos[e]
        /\ movecode' \in [Entities -> 0 .. 3] /\ movecode'[e] = code
        /\ \A q \in Entities \ {e} : way'[q] = way[q] /\ movecode'[q] = movecode[q]
    BY <2>1, <2>2 DEF Base, SetMovement
  <2>5. Stopped(e) /\ \A q \in Entities \ {e} : Stands(q)
    BY <2>3, <2>4 DEF Stopped, Stands
  <2>6. MapTyped' /\ \A q \in Entities : Remembered(q)
    BY <2>1, MapKept DEF SetMovement
  <2> QED
    BY <2>3, <2>4, <2>5, <2>6 DEF Base, MapTyped
<1>5. CASE \E e \in Turned, f \in Faces : SetFace(e, f)
  <2>1. PICK e \in Turned, f \in Faces : SetFace(e, f)
    BY <1>5
  <2>2. e \in Entities
    BY ObstructionAssumption
  <2>3. UNCHANGED <<pos, way, movecode>> /\ (TurnsWalking \/ Ready(e))
    BY <2>1 DEF SetFace
  <2>4. /\ face' \in [Entities -> Faces] /\ face'[e] = f
        /\ \A q \in Entities \ {e} : face'[q] = face[q]
    BY <2>1, <2>2 DEF Base, SetFace
  <2>5. TurnedTo(e) /\ \A q \in Entities \ {e} : Stands(q)
    BY <2>3, <2>4 DEF TurnedTo, Stands
  <2>6. MapTyped' /\ \A q \in Entities : Remembered(q)
    BY <2>1, MapKept DEF SetFace
  <2> QED
    BY <2>2, <2>3, <2>4, <2>5, <2>6 DEF Base, MapTyped
<1>6. CASE \E t \in ObsTiles, c \in BOOLEAN : SetObs(t, c)
  <2>1. PICK t \in ObsTiles, c \in BOOLEAN : SetObs(t, c)
    BY <1>6
  <2>2. MapTyped' /\ \A q \in Entities : Remembered(q)
    BY <2>1, WallsChanged
  <2>3. UNCHANGED entVars
    BY <2>1 DEF SetObs
  <2> QED
    BY <2>2, <2>3 DEF Base, MapTyped, Stands, entVars
<1>7. CASE \E z \in ZoneTiles : SetZone(z[1], z[2])
  <2>1. PICK z \in ZoneTiles : SetZone(z[1], z[2])
    BY <1>7
  <2>2. z[1] \in Tiles /\ z[2] \in Nat
    BY ObstructionAssumption
  <2>3. MapTyped' /\ \A q \in Entities : Remembered(q)
    BY <2>1, <2>2, ZonesChanged
  <2>4. UNCHANGED entVars
    BY <2>1 DEF SetZone
  <2> QED
    BY <2>3, <2>4 DEF Base, MapTyped, Stands, entVars
<1> QED
  BY <1>1, <1>2, <1>3, <1>4, <1>5, <1>6, <1>7 DEF ObsNext

LEMMA BaseInit == ObsInit => Base
BY ObstructionAssumption DEF ObsInit, Base, Faces, Places

LEMMA BaseKept == Base /\ [ObsNext]_obsVars => Base'
<1>1. CASE UNCHANGED obsVars
  BY <1>1 DEF obsVars, entVars, mapVars, mapHist, Base
<1> QED
  BY <1>1, StepCases

-----------------------------------------------------------------------------
(* Nobody walks sideways.                                                  *)

OnWay(q) == \E n \in Nat : Along(pos[q], way[q], face[q], n)

FacesWay == Straight /\ ~ TurnsWalking => \A q \in Entities \ {myself} : OnWay(q)

(* A straight move is some steps the way it faces.                         *)
LEMMA StraightMove ==
  ASSUME NEW by \in Places, by # <<0, 0>>, 0 \in {by[1], by[2]}
  PROVE  \E n \in Nat : by = Times(n, Facing(by))
<1>1. PICK a \in Int, b \in Int : by = <<a, b>>
  BY DEF Places
<1>2. CASE a > 0
  <2>1. by = Times(a, Facing(by)) /\ a \in Nat
    BY <1>1, <1>2 DEF Times, Facing, sgn
  <2> QED
    BY <2>1
<1>3. CASE a < 0
  <2>1. by = Times(-a, Facing(by)) /\ -a \in Nat
    BY <1>1, <1>3 DEF Times, Facing, sgn
  <2> QED
    BY <2>1
<1>4. CASE a = 0 /\ b > 0
  <2>1. by = Times(b, Facing(by)) /\ b \in Nat
    BY <1>1, <1>4 DEF Times, Facing, sgn
  <2> QED
    BY <2>1
<1>5. CASE a = 0 /\ b < 0
  <2>1. by = Times(-b, Facing(by)) /\ -b \in Nat
    BY <1>1, <1>5 DEF Times, Facing, sgn
  <2> QED
    BY <2>1
<1> QED
  BY <1>1, <1>2, <1>3, <1>4, <1>5

(* Whatever one who is not the player decides, it faces its way.           *)
LEMMA DecidesAhead ==
  ASSUME Base, Straight, NEW q \in Entities \ {myself}, OnWay(q), NEW d \in Decisions(q)
  PROVE  \E n \in Nat : Along(pos[q], d.way, d.face, n)
<1>1. pos[q] \in Places /\ way[q] \in Places /\ face[q] \in Faces
  BY DEF Base
<1>2. CASE d = Staying(q)
  BY <1>2, GoingParts DEF OnWay
<1>3. CASE Ready(q) /\ (d \in do_wanderzone(q) \/ d \in do_wanderbox(q)) /\ d # Staying(q)
  <2>1. PICK f \in Faces : d = Going(q, Times(Tile, f), f)
    BY <1>3, WanderCases DEF do_wanderzone, do_wanderbox
  <2>2. d.way = Plus(pos[q], Times(Tile, f)) /\ d.face = f
    BY <1>3, <2>1, GoingParts DEF Ready
  <2>3. Tile \in Nat
    BY ObstructionAssumption
  <2> QED
    BY <2>2, <2>3 DEF Along
<1>4. CASE Ready(q) /\ d \in do_movescript(q)
  <2>1. CASE d.way = way[q] /\ d.face \in Faces
    BY <1>1, <1>4, <2>1, EachFace, NoWay DEF Ready
  <2>2. CASE \E s \in ScriptSteps : d = Going(q, s.by, s.face)
    <3>1. PICK s \in ScriptSteps : d = Going(q, s.by, s.face)
      BY <2>2
    <3>2. s.by \in Places /\ s.face \in Faces
      BY ObstructionAssumption DEF Places
    <3>3. d.way = Plus(pos[q], s.by) /\ d.face = s.face
      BY <1>4, <3>1, GoingParts DEF Ready
    <3>4. CASE s.by = <<0, 0>>
      <4>1. Plus(pos[q], s.by) = pos[q]
        BY <1>1, <3>4 DEF Plus, Places
      <4> QED
        BY <1>1, <3>2, <3>3, <4>1, EachFace, NoWay
    <3>5. CASE s.by # <<0, 0>>
      <4>1. s.face = Facing(s.by) /\ 0 \in {s.by[1], s.by[2]}
        BY <3>5 DEF Straight
      <4>2. PICK n \in Nat : s.by = Times(n, Facing(s.by))
        BY <3>2, <3>5, <4>1, StraightMove
      <4> QED
        BY <3>3, <4>1, <4>2 DEF Along
    <3> QED
      BY <3>4, <3>5
  <2>3. \/ \E s \in ScriptSteps : d = Going(q, s.by, s.face)
        \/ d.way = way[q] /\ d.face \in Faces
    BY <1>1, <1>4, ScriptCases
  <2> QED
    BY <2>1, <2>2, <2>3
<1> QED
  BY <1>2, <1>3, <1>4, DecisionCases

LEMMA FacesWayKept ==
  ASSUME Base, FacesWay, Straight, ~ TurnsWalking, ObsNext, NEW q \in Entities \ {myself}
  PROVE  /\ OnWay(q)'
         /\ pos'[q] # pos[q] => \E f \in Faces : pos'[q] = Plus(pos[q], f) /\ ~ ObstructDirTick(q, f)
<1>1. OnWay(q) /\ q \in Entities /\ q # myself
  BY DEF FacesWay
<1>2. pos[q] \in Places /\ way[q] \in Places /\ face[q] \in Faces
  BY <1>1 DEF Base
<1>3. CASE Stands(q)
  BY <1>1, <1>3 DEF Stands, OnWay
<1>4. CASE Thinks(q)
  <2>1. PICK d \in Decisions(q) :
          /\ way'[q] = d.way /\ face'[q] = d.face
          /\ \/ pos'[q] = pos[q]
             \/ /\ d.way # pos[q] /\ ~ ObstructDirTick(q, d.face)
                /\ pos'[q] = Plus(pos[q], <<sgn(d.way[1] - pos[q][1]), sgn(d.way[2] - pos[q][2])>>)
    BY <1>1, <1>4 DEF Thinks
  <2>2. PICK n \in Nat : Along(pos[q], d.way, d.face, n)
    BY <1>1, DecidesAhead
  <2>3. CASE pos'[q] = pos[q]
    BY <2>1, <2>2, <2>3 DEF OnWay
  <2>4. CASE pos'[q] # pos[q]
    <3>1. d.way \in Places /\ d.face \in Faces /\ d.face \in Directions
      BY <1>1, DecisionTypes, EachFace
    <3>2. /\ n - 1 \in Nat
          /\ <<sgn(d.way[1] - pos[q][1]), sgn(d.way[2] - pos[q][2])>> = d.face
          /\ Along(Plus(pos[q], d.face), d.way, d.face, n - 1)
      BY <1>2, <2>1, <2>2, <2>4, <3>1, OneStep
    <3>3. pos'[q] = Plus(pos[q], d.face) /\ ~ ObstructDirTick(q, d.face)
      BY <2>1, <2>4, <3>2
    <3>4. Along(pos'[q], way'[q], face'[q], n - 1)
      BY <2>1, <3>2, <3>3
    <3> QED
      BY <3>1, <3>2, <3>3, <3>4 DEF OnWay
  <2> QED
    BY <2>3, <2>4
<1>5. CASE Steered(q)
  BY <1>1, <1>5 DEF Steered
<1>6. CASE TurnedTo(q)
  <2>1. pos'[q] = pos[q] /\ way'[q] = way[q] /\ face'[q] \in Faces /\ (Ready(q) \/ face'[q] = face[q])
    BY <1>6 DEF TurnedTo
  <2>2. CASE Ready(q)
    <3>1. Along(pos'[q], way'[q], face'[q], 0)
      BY <1>2, <2>1, <2>2, EachFace, NoWay DEF Ready
    <3> QED
      BY <2>1, <3>1 DEF OnWay
  <2>3. CASE face'[q] = face[q]
    BY <1>1, <2>1, <2>3 DEF OnWay
  <2> QED
    BY <2>1, <2>2, <2>3
<1>7. CASE Stopped(q)
  <2>1. Along(pos'[q], way'[q], face'[q], 0)
    BY <1>2, <1>7, EachFace, NoWay DEF Stopped
  <2> QED
    BY <1>7, <2>1 DEF OnWay, Stopped
<1> QED
  BY <1>1, <1>3, <1>4, <1>5, <1>6, <1>7, StepCases

LEMMA FacesWayInit == ObsInit => FacesWay
<1> SUFFICES ASSUME ObsInit, NEW q \in Entities PROVE OnWay(q)
  BY DEF FacesWay
<1>1. pos[q] \in Places /\ way[q] = pos[q] /\ face[q] \in Directions
  BY BaseInit, EachFace DEF Base, ObsInit
<1>2. Along(pos[q], way[q], face[q], 0)
  BY <1>1, NoWay
<1> QED
  BY <1>2 DEF OnWay

LEMMA FacesWayStep == Base /\ FacesWay /\ [ObsNext]_obsVars => FacesWay'
<1> SUFFICES ASSUME Base, FacesWay, [ObsNext]_obsVars, (Straight /\ ~ TurnsWalking)', NEW q \in Entities \ {myself}
             PROVE  OnWay(q)'
  BY DEF FacesWay
<1>1. Straight /\ ~ TurnsWalking
  BY DEF Straight
<1>2. CASE UNCHANGED obsVars
  BY <1>1, <1>2 DEF FacesWay, OnWay, obsVars, entVars
<1>3. CASE ObsNext
  BY <1>1, <1>3, FacesWayKept
<1> QED
  BY <1>2, <1>3

(* An entity that is not the player never steps onto a wall or an          *)
(* obstructing entity, for any map, sizes, entities and scripts, as long as*)
(* move scripts move the way they face and scripts turn no walker.         *)
THEOREM WalkersDoNotCollide == ObsSpec => StepsAreFree
<1>1. Base /\ FacesWay /\ [ObsNext]_obsVars
        => [ Straight /\ ~ TurnsWalking =>
               \A e \in Obstructable \ {myself} : \A p \in Entered(e) : ~ ObstructAt(p) ]_obsVars
  <2> SUFFICES ASSUME Base, FacesWay, ObsNext, Straight, ~ TurnsWalking,
                      NEW e \in Obstructable \ {myself}, NEW p \in Entered(e)
               PROVE  ~ ObstructAt(p)
    BY DEF obsVars, entVars
  <2>1. e \in Entities \ {myself}
    BY ObstructionAssumption
  <2>2. pos'[e] # pos[e]
    BY DEF Entered
  <2>3. PICK f \in Faces : pos'[e] = Plus(pos[e], f) /\ ~ ObstructDirTick(e, f)
    BY <2>1, <2>2, FacesWayKept
  <2> QED
    BY <2>3 DEF Entered, ObstructDirTick
<1> QED
  BY <1>1, BaseInit, BaseKept, FacesWayInit, FacesWayStep, PTL DEF ObsSpec, StepsAreFree

-----------------------------------------------------------------------------
(* The player's way stays clear of walls.                                  *)

ClearFor(G, p, d, n) == \A m \in 1 .. n : \A x \in Ahead(p, d, m) : TileOf(x) \in G

ClearTo(G, p, w) == \E d \in Directions : \E n \in Nat : Along(p, w, d, n) /\ ClearFor(G, p, d, n)

ClearWay ==
  /\ movecode[myself] \in {0, 3}
  /\ movecode[myself] # 3 /\ myself \in Obstructable => ClearTo(Clear, pos[myself], way[myself])

(* One pixel on, the pixels ahead are those that were one further ahead.   *)
LEMMA AheadShifts ==
  ASSUME NEW p \in Places, NEW d \in Directions, NEW m \in Nat
  PROVE  Ahead(Plus(p, d), d, m) = Ahead(p, d, m + 1)
<1>1. d[1] \in {-1, 0, 1} /\ d[2] \in {-1, 0, 1}
  BY EachDirection
<1>2. p[1] \in Int /\ p[2] \in Int
  BY DEF Places
<1>3. \A y \in Int, x \in {-1, 0, 1} : (y + x) + m * x = y + (m + 1) * x
  OBVIOUS
<1>4. Plus(p, d)[1] = p[1] + d[1] /\ Plus(p, d)[2] = p[2] + d[2]
  BY DEF Plus
<1>5. /\ Plus(p, d)[1] + m * d[1] = p[1] + (m + 1) * d[1]
      /\ Plus(p, d)[2] + m * d[2] = p[2] + (m + 1) * d[2]
  BY <1>1, <1>2, <1>3, <1>4
<1> QED
  BY <1>5 DEF Ahead

(* The pixels ahead hold those a step enters.  The row to the south-east   *)
(* is long enough because the player is not wider than high.               *)
LEMMA AheadIsEntered ==
  ASSUME HotW <= HotH, NEW p \in Places, NEW d \in Directions
  PROVE  Covered(Plus(p, d)) \ Covered(p) \subseteq Ahead(p, d, 1)
<1>1. d[1] \in {-1, 0, 1} /\ d[2] \in {-1, 0, 1} /\ d = <<d[1], d[2]>> /\ (d[1] # 0 \/ d[2] # 0)
  BY EachDirection
<1>2. p[1] \in Int /\ p[2] \in Int /\ HotW \in Nat \ {0} /\ HotH \in Nat \ {0}
  BY ObstructionAssumption DEF Places
<1> SUFFICES ASSUME NEW x \in Int, NEW y \in Int,
                    <<x, y>> \in Covered(Plus(p, d)), <<x, y>> \notin Covered(p)
             PROVE  <<x, y>> \in Ahead(p, d, 1)
  BY <1>1, <1>2 DEF Covered, Pixels, Plus
<1>3. /\ p[1] + d[1] <= x /\ x <= p[1] + d[1] + HotW - 1
      /\ p[2] + d[2] <= y /\ y <= p[2] + d[2] + HotH - 1
  BY <1>1, <1>2 DEF Covered, Pixels, Plus
<1>4. x < p[1] \/ x > p[1] + HotW - 1 \/ y < p[2] \/ y > p[2] + HotH - 1
  BY <1>2 DEF Covered, Pixels
<1> DEFINE row == IF d[2] < 0 THEN p[2] + d[2] ELSE p[2] + d[2] + HotH - 1
           col == IF d[1] < 0 THEN p[1] + d[1] ELSE p[1] + d[1] + HotW - 1
           length == IF d = SE THEN HotH ELSE HotW
<1>5. \/ d[2] # 0 /\ y = row
      \/ d[1] # 0 /\ x = col
  BY <1>1, <1>2, <1>3, <1>4
<1>6. HotW <= length /\ length \in Nat
  BY <1>2
<1>7. 1 * d[1] = d[1] /\ 1 * d[2] = d[2]
  BY <1>1
<1>8. Ahead(p, d, 1) =
        (IF d[2] = 0 THEN {} ELSE Pixels(p[1] + d[1], p[1] + d[1] + length - 1, row, row))
        \cup (IF d[1] = 0 THEN {} ELSE Pixels(col, col, p[2] + d[2], p[2] + d[2] + HotH - 1))
  BY <1>7 DEF Ahead
<1>9. CASE d[2] # 0 /\ y = row
  <2>1. <<x, y>> \in Pixels(p[1] + d[1], p[1] + d[1] + length - 1, row, row)
    BY <1>1, <1>2, <1>3, <1>6, <1>9 DEF Pixels
  <2> QED
    BY <1>8, <1>9, <2>1
<1>10. CASE d[1] # 0 /\ x = col
  <2>1. <<x, y>> \in Pixels(col, col, p[2] + d[2], p[2] + d[2] + HotH - 1)
    BY <1>1, <1>2, <1>3, <1>10 DEF Pixels
  <2> QED
    BY <1>8, <1>10, <2>1
<1> QED
  BY <1>5, <1>9, <1>10

LEMMA ClearHere ==
  ASSUME NEW p \in Places, NEW G
  PROVE  ClearTo(G, p, p)
<1>1. <<1, 0>> \in Directions
  BY EachFace DEF Faces
<1>2. Along(p, p, <<1, 0>>, 0) /\ ClearFor(G, p, <<1, 0>>, 0)
  BY <1>1, NoWay DEF ClearFor
<1> QED
  BY <1>1, <1>2 DEF ClearTo

LEMMA ClearMore ==
  ASSUME NEW G, NEW H, G \subseteq H, NEW p, NEW w, ClearTo(G, p, w)
  PROVE  ClearTo(H, p, w)
BY DEF ClearTo, ClearFor

(* A step along a clear way enters clear tiles and leaves a clear way.     *)
LEMMA ClearStep ==
  ASSUME HotW <= HotH, NEW G, NEW p \in Places, NEW w \in Places, ClearTo(G, p, w), w # p,
         NEW r, r = Plus(p, <<sgn(w[1] - p[1]), sgn(w[2] - p[2])>>)
  PROVE  ClearTo(G, r, w) /\ \A x \in Covered(r) \ Covered(p) : TileOf(x) \in G
<1>0. PICK d \in Directions : \E n \in Nat : Along(p, w, d, n) /\ ClearFor(G, p, d, n)
  BY DEF ClearTo
<1>1. PICK n \in Nat : Along(p, w, d, n) /\ ClearFor(G, p, d, n)
  BY <1>0
<1>2. n - 1 \in Nat /\ r = Plus(p, d) /\ Along(r, w, d, n - 1)
  BY <1>1, OneStep
<1>3. ASSUME NEW m \in 1 .. n - 1
      PROVE  Ahead(r, d, m) = Ahead(p, d, m + 1) /\ m + 1 \in 1 .. n
  BY <1>2, AheadShifts
<1>4. ClearFor(G, r, d, n - 1)
  BY <1>1, <1>3 DEF ClearFor
<1>5. 1 \in 1 .. n
  BY <1>2
<1>6. \A x \in Ahead(p, d, 1) : TileOf(x) \in G
  BY <1>1, <1>5 DEF ClearFor
<1> QED
  BY <1>2, <1>4, <1>6, AheadIsEntered DEF ClearTo

(* What the keys decide is clear.                                          *)
LEMMA ControlsClear ==
  ASSUME Base, Ready(myself), myself \in Obstructable, NEW k \in Keys, NEW d \in Controls(k)
  PROVE  ClearTo(Ground, pos[myself], d.way)
<1>1. pos[myself] \in Places /\ way[myself] = pos[myself] /\ playerstep \in Nat
  BY ObstructionAssumption DEF Base, Ready
<1>2. CASE d.way = way[myself]
  BY <1>1, <1>2, ClearHere
<1>3. ASSUME NEW a \in Directions,
             d.way = Plus(way[myself], Times(MaxPlayerMove(a, playerstep), a))
      PROVE  ClearTo(Ground, pos[myself], d.way)
  <2>1. /\ MaxPlayerMove(a, playerstep) \in 0 .. playerstep
        /\ \A m \in 1 .. MaxPlayerMove(a, playerstep) :
             \A p \in Ahead(pos[myself], a, m) : ~ ObstructAt(p)
    BY <1>1, DistanceIsFree
  <2>2. ClearFor(Ground, pos[myself], a, MaxPlayerMove(a, playerstep))
    BY <2>1 DEF ClearFor, ObstructAt, obstructpixel
  <2>3. MaxPlayerMove(a, playerstep) \in Nat
    BY <1>1, <2>1
  <2> QED
    BY <1>1, <1>3, <2>2, <2>3 DEF ClearTo, Along
<1> QED
  BY <1>2, <1>3, ControlsCases

LEMMA ClearWayKept ==
  ASSUME Codes[myself] \subseteq {0, 3}, HotW <= HotH, Base, ClearWay, ObsNext
  PROVE  /\ ClearWay'
         /\ movecode[myself] # 3 /\ movecode'[myself] # 3 /\ myself \in Obstructable
              => \A p \in Entered(myself) : TileOf(p) \in Ground \cup raised'
<1> DEFINE q == myself
<1>1. /\ q \in Entities /\ pos[q] \in Places /\ way[q] \in Places
      /\ movecode[q] \in {0, 3}
      /\ movecode[q] # 3 /\ q \in Obstructable => ClearTo(Clear, pos[q], way[q])
  BY ObstructionAssumption DEF Base, ClearWay
<1>2. pos'[q] = pos[q] => Entered(q) = {}
  BY DEF Entered
<1>3. ASSUME movecode'[q] \in {0, 3},
             movecode'[q] # 3 /\ q \in Obstructable => ClearTo(Clear', pos'[q], way'[q])
      PROVE  ClearWay'
  BY <1>3 DEF ClearWay
<1>4. CASE Seen(q) /\ Thinks(q)
  <2>0. /\ Ready(q) => Ground \subseteq Clear'
        /\ ~ Ready(q) => Clear' = Clear
        /\ Clear' = Ground \cup raised'
    BY <1>4 DEF Seen, Clear, Ground, mapVars
  <2>1. PICK d \in Decisions(q) :
          /\ way'[q] = d.way /\ movecode'[q] = d.code
          /\ \/ pos'[q] = pos[q]
             \/ /\ d.way # pos[q]
                /\ pos'[q] = Plus(pos[q], <<sgn(d.way[1] - pos[q][1]), sgn(d.way[2] - pos[q][2])>>)
    BY <1>4 DEF Thinks
  <2>2. d.way \in Places
    BY <1>1, DecisionTypes
  <2>3. /\ d.code \in {0, 3}
        /\ d.code # 3 /\ q \in Obstructable => ClearTo(Clear', pos[q], d.way)
    <3>1. CASE d = Staying(q)
      <4>1. d.way = way[q] /\ d.code = movecode[q]
        BY <1>1, <3>1, GoingParts
      <4>2. CASE Ready(q)
        <5>1. d.way = pos[q] /\ pos[q] \in Places
          BY <1>1, <4>1, <4>2 DEF Ready
        <5>2. ClearTo(Clear', pos[q], pos[q])
          BY <5>1, ClearHere
        <5> QED
          BY <1>1, <4>1, <5>1, <5>2
      <4>3. CASE ~ Ready(q)
        BY <1>1, <2>0, <4>1, <4>3
      <4> QED
        BY <4>2, <4>3
    <3>2. CASE Ready(q) /\ \E k \in Keys : d \in Controls(k)
      <4>1. d.code \in {0, 3}
        BY <1>1, <3>2, ControlsCases DEF Cleaned
      <4>2. q \in Obstructable => ClearTo(Ground, pos[q], d.way)
        BY <3>2, ControlsClear
      <4> QED
        BY <2>0, <3>2, <4>1, <4>2, ClearMore
    <3>3. CASE Ready(q) /\ movecode[q] = 3 /\ d \in do_movescript(q)
      <4>1. \/ d.code = 3
            \/ d.code = 0 /\ d.way = pos[q]
        BY <1>1, <3>3, ScriptCases, GoingParts DEF Ready
      <4> QED
        BY <1>1, <4>1, ClearHere
    <3> QED
      BY <1>1, <3>1, <3>2, <3>3, DecisionCases
  <2>4. CASE pos'[q] = pos[q]
    BY <1>2, <1>3, <2>1, <2>3, <2>4
  <2>5. CASE pos'[q] # pos[q]
    <3>1. d.way # pos[q]
          /\ pos'[q] = Plus(pos[q], <<sgn(d.way[1] - pos[q][1]), sgn(d.way[2] - pos[q][2])>>)
      BY <2>1, <2>5
    <3>2. CASE d.code # 3 /\ q \in Obstructable
      <4>1. /\ ClearTo(Clear', pos'[q], d.way)
            /\ \A x \in Covered(pos'[q]) \ Covered(pos[q]) : TileOf(x) \in Clear'
        BY <1>1, <2>2, <2>3, <3>1, <3>2, ClearStep
      <4> QED
        BY <1>3, <2>0, <2>1, <2>3, <4>1 DEF Entered
    <3>3. CASE ~ (d.code # 3 /\ q \in Obstructable)
      BY <1>3, <2>1, <2>3, <3>3
    <3> QED
      BY <3>2, <3>3
  <2> QED
    BY <2>4, <2>5
<1>5. CASE Seen(q) /\ Steered(q)
  <2>1. PICK k \in Keys : \E d \in Controls(k) : way'[q] = d.way /\ movecode'[q] = d.code
    BY <1>5 DEF Steered
  <2>2. PICK d \in Controls(k) : way'[q] = d.way /\ movecode'[q] = d.code
    BY <2>1
  <2>3. pos'[q] = pos[q] /\ Ready(q)
    BY <1>5 DEF Steered
  <2>4. d.code \in {0, 3}
    BY <1>1, ControlsCases DEF Cleaned
  <2>5. q \in Obstructable => ClearTo(Ground, pos[q], d.way)
    BY <2>3, ControlsClear
  <2>6. Ground \subseteq Clear'
    BY <1>5 DEF Seen, Clear, Ground, mapVars
  <2> QED
    BY <1>2, <1>3, <2>2, <2>3, <2>4, <2>5, <2>6, ClearMore
<1>6. CASE Remembered(q) /\ (Stands(q) \/ TurnedTo(q))
  <2>1. pos'[q] = pos[q] /\ way'[q] = way[q]
    BY <1>6 DEF TurnedTo, Stands
  <2>2. movecode'[q] = movecode[q] \/ (movecode'[q] = Cleaned(movecode[q]) /\ Ready(q))
    BY <1>6 DEF TurnedTo, Stands
  <2>3. Ready(q) => ClearTo(Clear', pos[q], way[q])
    BY <1>1, ClearHere DEF Ready
  <2>4. movecode[q] # 3 /\ q \in Obstructable => ClearTo(Clear', pos[q], way[q])
    BY <1>1, <1>6, ClearMore DEF Remembered
  <2> QED
    BY <1>1, <1>2, <1>3, <2>1, <2>2, <2>3, <2>4 DEF Cleaned
<1>7. CASE Stopped(q)
  <2>1. ClearTo(Clear', pos[q], pos[q])
    BY <1>1, ClearHere
  <2> QED
    BY <1>2, <1>3, <1>7, <2>1 DEF Stopped
<1> HIDE DEF q
<1>8. \/ Seen(q) /\ (Thinks(q) \/ Steered(q))
      \/ Remembered(q) /\ (Stands(q) \/ TurnedTo(q) \/ Stopped(q))
  BY <1>1, StepCases
<1> QED
  BY <1>4, <1>5, <1>6, <1>7, <1>8 DEF q

LEMMA ClearWayInit == ObsInit => ClearWay
<1> SUFFICES ASSUME ObsInit PROVE ClearWay
  OBVIOUS
<1>1. /\ pos[myself] \in Places /\ way[myself] = pos[myself] /\ movecode[myself] = 0
  BY BaseInit, ObstructionAssumption DEF Base, ObsInit
<1> QED
  BY <1>1, ClearHere DEF ClearWay

(* The keys never carry an obstructable player onto a tile that was a wall *)
(* when its way was searched, for any map, entities and scripts, which may *)
(* change the walls at any time: every tile it enters is ground, or a      *)
(* script made it a wall after the search.  The player must not be let     *)
(* wander, for its way may then be one nobody searched, nor be wider than  *)
(* high, for the search to the south-east looks along a row as long as it  *)
(* is high.                                                                *)
THEOREM KeysAvoidWalls ==
  (Codes[myself] \subseteq {0, 3} /\ HotW <= HotH) /\ ObsSpec => KeysKeepOffWalls
<1> SUFFICES ASSUME Codes[myself] \subseteq {0, 3}, HotW <= HotH
             PROVE  ObsSpec => KeysKeepOffWalls
  OBVIOUS
<1>1. Base /\ ClearWay /\ [ObsNext]_obsVars => ClearWay'
  <2>1. UNCHANGED obsVars /\ ClearWay => ClearWay'
    BY DEF obsVars, entVars, mapVars, mapHist, ClearWay, Clear, Ground
  <2> QED
    BY <2>1, ClearWayKept
<1>2. Base /\ ClearWay /\ [ObsNext]_obsVars
        => [ movecode[myself] # 3 /\ movecode'[myself] # 3 /\ myself \in Obstructable
               => \A p \in Entered(myself) : TileOf(p) \in Ground \cup raised' ]_obsVars
  BY ClearWayKept
<1> QED
  BY <1>1, <1>2, BaseInit, BaseKept, ClearWayInit, PTL DEF ObsSpec, KeysKeepOffWalls

-----------------------------------------------------------------------------
(* A wanderer's way leads from tile to tile and never back.                *)

(* z are the zones of the tiles, R the tiles that need not keep theirs.    *)
Keeps(z, R, code, t, u) ==
  /\ code = 1 => ZoneIn(z, t) = ZoneIn(z, u) \/ {t, u} \cap R # {}
  /\ code = 2 /\ Inside(t) => Inside(u)

At(p, d, k) == Plus(p, Times(k, d))

HomeFor(z, R, code, p, d, n) ==
  \A k, l \in 0 .. n : k <= l => Keeps(z, R, code, TileOf(At(p, d, k)), TileOf(At(p, d, l)))

HomeTo(z, R, code, p, w) ==
  \E d \in Directions : \E n \in Nat : Along(p, w, d, n) /\ HomeFor(z, R, code, p, d, n)

HomeWay ==
  /\ movecode[myself] \in {0, 3}
  /\ \A q \in Entities : movecode[q] \in {1, 2} =>
       HomeTo(zones, rezoned[q], movecode[q], pos[q], way[q])

LEMMA Scaled ==
  ASSUME NEW T \in Nat \ {0}, NEW a \in Int, NEW b \in Int, T * a < T * (b + 1)
  PROVE  a <= b
<1> SUFFICES ASSUME a >= b + 1 PROVE FALSE
  OBVIOUS
<1>1. PICK c \in Nat : a = (b + 1) + c
  <2>1. a - (b + 1) \in Nat /\ a = (b + 1) + (a - (b + 1))
    OBVIOUS
  <2> QED
    BY <2>1
<1>2. T * a = T * (b + 1) + T * c
  BY <1>1
<1>3. T * c >= 0
  OBVIOUS
<1> QED
  BY <1>2, <1>3

LEMMA Quotient ==
  ASSUME NEW T \in Nat \ {0}, NEW x \in Int
  PROVE  x \div T \in Int /\ T * (x \div T) <= x /\ x < T * ((x \div T) + 1)
OBVIOUS

(* Within a tile's length there is one tile more, and it comes last.       *)
LEMMA TilesInARow ==
  ASSUME NEW T \in Nat \ {0}, NEW x \in Int, NEW y \in Int, x <= y, y <= x + T
  PROVE  y \div T \in {x \div T, (x \div T) + 1}
<1> DEFINE a == x \div T
           b == y \div T
<1>1. a \in Int /\ b \in Int /\ T * a <= x /\ x < T * (a + 1) /\ T * b <= y /\ y < T * (b + 1)
  BY Quotient
<1> HIDE DEF a, b
<1>2. T * a < T * (b + 1)
  BY <1>1
<1>3. T * ((a + 1) + 1) = T * (a + 1) + T
  BY <1>1
<1>4. T * b < T * ((a + 1) + 1)
  BY <1>1, <1>3
<1>5. a <= b /\ b <= a + 1
  BY <1>1, <1>2, <1>4, Scaled
<1>6. b \in {a, a + 1}
  BY <1>1, <1>5
<1> QED
  BY <1>6 DEF a, b

LEMMA RowOfTiles ==
  ASSUME NEW T \in Nat \ {0}, NEW x \in Int, NEW y \in Int, NEW z \in Int, NEW s,
         \/ s = 0 /\ y = x /\ z = x
         \/ s = 1 /\ x <= y /\ y <= z /\ z <= x + T
         \/ s = -1 /\ z <= y /\ y <= x /\ x <= z + T
  PROVE  LET a == x \div T
             b == y \div T
             c == z \div T
         IN  <<b, c>> \in {<<a, a>>, <<a, a + s>>, <<a + s, a + s>>}
<1> DEFINE a == x \div T
           b == y \div T
           c == z \div T
<1>1. a \in Int /\ b \in Int /\ c \in Int
  BY Quotient
<1>2. CASE s = 0 /\ y = x /\ z = x
  BY <1>2
<1>3. CASE s = 1 /\ x <= y /\ y <= z /\ z <= x + T
  <2>1. y <= x + T /\ z <= y + T /\ x <= z
    BY <1>3
  <2>2. b \in {a, a + 1} /\ c \in {a, a + 1} /\ c \in {b, b + 1}
    BY <1>3, <2>1, TilesInARow
  <2> HIDE DEF a, b, c
  <2> QED
    BY <1>1, <1>3, <2>2 DEF a, b, c
<1>4. CASE s = -1 /\ z <= y /\ y <= x /\ x <= z + T
  <2>1. x <= y + T /\ y <= z + T /\ z <= x
    BY <1>4
  <2>2. a \in {b, b + 1} /\ a \in {c, c + 1} /\ b \in {c, c + 1}
    BY <1>4, <2>1, TilesInARow
  <2> HIDE DEF a, b, c
  <2>3. <<b, c>> \in {<<a, a>>, <<a, a + s>>, <<a + s, a + s>>}
    BY <1>1, <1>4, <2>2
  <2> QED
    BY <2>3 DEF a, b, c
<1> QED
  BY <1>2, <1>3, <1>4

LEMMA TilesOnTheWay ==
  ASSUME NEW p \in Places, NEW d \in Faces,
         NEW k \in 0 .. Tile, NEW l \in 0 .. Tile, k <= l
  PROVE  LET t == TileOf(p)
             u == Plus(t, d)
         IN  \/ TileOf(At(p, d, k)) = t /\ TileOf(At(p, d, l)) = t
             \/ TileOf(At(p, d, k)) = t /\ TileOf(At(p, d, l)) = u
             \/ TileOf(At(p, d, k)) = u /\ TileOf(At(p, d, l)) = u
<1>1. p[1] \in Int /\ p[2] \in Int /\ Tile \in Nat \ {0}
  BY ObstructionAssumption DEF Places
<1>2. /\ d[1] \in {-1, 0, 1} /\ d[2] \in {-1, 0, 1}
      /\ d[1] = 0 \/ d[2] = 0
  BY DEF Faces
<1> DEFINE Q(i, m) == (p[i] + m * d[i]) \div Tile
           q(i) == p[i] \div Tile
<1>3. \A m \in {k, l} : TileOf(At(p, d, m)) = <<Q(1, m), Q(2, m)>>
  BY DEF TileOf, At, Plus, Times
<1>4. TileOf(p) = <<q(1), q(2)>> /\ Plus(TileOf(p), d) = <<q(1) + d[1], q(2) + d[2]>>
  BY DEF TileOf, Plus
<1>5. \A i \in {1, 2} : <<Q(i, k), Q(i, l)>>
        \in {<<q(i), q(i)>>, <<q(i), q(i) + d[i]>>, <<q(i) + d[i], q(i) + d[i]>>}
  <2>1. ASSUME NEW x \in Int, NEW s \in {-1, 0, 1}
        PROVE  \/ s = 0 /\ x + k * s = x /\ x + l * s = x
               \/ s = 1 /\ x <= x + k * s /\ x + k * s <= x + l * s /\ x + l * s <= x + Tile
               \/ s = -1 /\ x + l * s <= x + k * s /\ x + k * s <= x /\ x <= x + l * s + Tile
    BY <1>1
  <2>2. ASSUME NEW x \in Int, NEW s \in {-1, 0, 1}
        PROVE  x + k * s \in Int /\ x + l * s \in Int
    BY <1>1
  <2>3. ASSUME NEW x \in Int, NEW s \in {-1, 0, 1}
        PROVE  LET a == x \div Tile
                   b == (x + k * s) \div Tile
                   c == (x + l * s) \div Tile
               IN  <<b, c>> \in {<<a, a>>, <<a, a + s>>, <<a + s, a + s>>}
    <3> DEFINE y == x + k * s
               z == x + l * s
    <3>1. y \in Int /\ z \in Int
      BY <2>2
    <3>2. \/ s = 0 /\ y = x /\ z = x
          \/ s = 1 /\ x <= y /\ y <= z /\ z <= x + Tile
          \/ s = -1 /\ z <= y /\ y <= x /\ x <= z + Tile
      BY <2>1
    <3> HIDE DEF y, z
    <3>3. <<y \div Tile, z \div Tile>>
             \in {<<x \div Tile, x \div Tile>>, <<x \div Tile, (x \div Tile) + s>>,
                  <<(x \div Tile) + s, (x \div Tile) + s>>}
      BY <1>1, <3>1, <3>2, RowOfTiles
    <3> QED
      BY <3>3 DEF y, z
  <2> QED
    BY <1>1, <1>2, <2>3
<1>6. q(1) \in Int /\ q(2) \in Int
  BY <1>1, Quotient
<1> HIDE DEF Q, q
<1>7. q(1) + 0 = q(1) /\ q(2) + 0 = q(2)
  BY <1>6
<1> QED
  BY <1>2, <1>3, <1>4, <1>5, <1>7

(* A way to a tile that keeps to the zone or the box keeps to it.          *)
LEMMA NextTileIsHome ==
  ASSUME NEW z, NEW R, NEW code, NEW p \in Places, NEW d \in Faces,
         Keeps(z, R, code, TileOf(p), Plus(TileOf(p), d))
  PROVE  HomeTo(z, R, code, p, Plus(p, Times(Tile, d)))
<1>1. Tile \in Nat /\ d \in Directions
  BY ObstructionAssumption, EachFace
<1>2. \A t : Keeps(z, R, code, t, t)
  BY DEF Keeps
<1>3. HomeFor(z, R, code, p, d, Tile)
  <2> SUFFICES ASSUME NEW k \in 0 .. Tile, NEW l \in 0 .. Tile, k <= l
               PROVE  Keeps(z, R, code, TileOf(At(p, d, k)), TileOf(At(p, d, l)))
    BY DEF HomeFor
  <2> QED
    BY <1>2, TilesOnTheWay
<1> QED
  BY <1>1, <1>3 DEF HomeTo, Along

LEMMA HomeHere ==
  ASSUME NEW z, NEW R, NEW p \in Places, NEW code
  PROVE  HomeTo(z, R, code, p, p)
<1>1. <<1, 0>> \in Directions
  BY EachFace DEF Faces
<1>2. Along(p, p, <<1, 0>>, 0)
  BY <1>1, NoWay
<1>3. HomeFor(z, R, code, p, <<1, 0>>, 0)
  BY DEF HomeFor, Keeps
<1> QED
  BY <1>1, <1>2, <1>3 DEF HomeTo

(* A step along such a way stays at home, and so does what is left of it.  *)
LEMMA HomeStep ==
  ASSUME NEW z, NEW R, NEW code, NEW p \in Places, NEW w \in Places, HomeTo(z, R, code, p, w), w # p,
         NEW r, r = Plus(p, <<sgn(w[1] - p[1]), sgn(w[2] - p[2])>>)
  PROVE  HomeTo(z, R, code, r, w) /\ Keeps(z, R, code, TileOf(p), TileOf(r))
<1>0. PICK d \in Directions : \E n \in Nat : Along(p, w, d, n) /\ HomeFor(z, R, code, p, d, n)
  BY DEF HomeTo
<1>1. PICK n \in Nat : Along(p, w, d, n) /\ HomeFor(z, R, code, p, d, n)
  BY <1>0
<1>2. n - 1 \in Nat /\ r = Plus(p, d) /\ Along(r, w, d, n - 1)
  BY <1>1, OneStep
<1>3. d[1] \in {-1, 0, 1} /\ d[2] \in {-1, 0, 1} /\ p[1] \in Int /\ p[2] \in Int /\ p = <<p[1], p[2]>>
  BY EachDirection DEF Places
<1>4. \A k \in Nat : At(r, d, k) = At(p, d, k + 1)
  <2> SUFFICES ASSUME NEW k \in Nat PROVE At(r, d, k) = At(p, d, k + 1)
    OBVIOUS
  <2>1. \A x \in {-1, 0, 1}, y \in Int : (y + x) + k * x = y + (k + 1) * x
    OBVIOUS
  <2>2. /\ (p[1] + d[1]) + k * d[1] = p[1] + (k + 1) * d[1]
        /\ (p[2] + d[2]) + k * d[2] = p[2] + (k + 1) * d[2]
    BY <1>3, <2>1
  <2>3. At(r, d, k) = <<(p[1] + d[1]) + k * d[1], (p[2] + d[2]) + k * d[2]>>
    BY <1>2 DEF At, Plus, Times
  <2>4. At(p, d, k + 1) = <<p[1] + (k + 1) * d[1], p[2] + (k + 1) * d[2]>>
    BY DEF At, Plus, Times
  <2> QED
    BY <2>2, <2>3, <2>4
<1>5. HomeFor(z, R, code, r, d, n - 1)
  <2> SUFFICES ASSUME NEW k \in 0 .. n - 1, NEW l \in 0 .. n - 1, k <= l
               PROVE  Keeps(z, R, code, TileOf(At(r, d, k)), TileOf(At(r, d, l)))
    BY DEF HomeFor
  <2>1. k + 1 \in 0 .. n /\ l + 1 \in 0 .. n /\ k + 1 <= l + 1 /\ k \in Nat /\ l \in Nat
    BY <1>2
  <2> QED
    BY <1>1, <1>4, <2>1 DEF HomeFor
<1>6. At(p, d, 0) = p /\ At(p, d, 1) = r
  BY <1>2, <1>3 DEF At, Plus, Times
<1>7. 0 \in 0 .. n /\ 1 \in 0 .. n /\ 0 <= 1
  BY <1>2
<1>8. Keeps(z, R, code, TileOf(p), TileOf(r))
  BY <1>1, <1>6, <1>7 DEF HomeFor
<1> QED
  BY <1>2, <1>5, <1>8 DEF HomeTo

(* What a wanderer decides keeps it at home.                               *)
LEMMA WanderIsHome ==
  ASSUME Base, NEW q \in Entities, Ready(q), NEW R, NEW d,
         \/ movecode[q] = 1 /\ d \in do_wanderzone(q)
         \/ movecode[q] = 2 /\ d \in do_wanderbox(q)
  PROVE  d.code = movecode[q] /\ HomeTo(zones, R, movecode[q], pos[q], d.way)
<1>1. pos[q] \in Places /\ way[q] = pos[q]
  BY DEF Base, Ready
<1>2. CASE d = Staying(q)
  BY <1>1, <1>2, GoingParts, HomeHere
<1>3. ASSUME NEW f \in Faces, d = Going(q, Times(Tile, f), f),
             Keeps(zones, R, movecode[q], TileOf(pos[q]), Plus(TileOf(pos[q]), f))
      PROVE  d.code = movecode[q] /\ HomeTo(zones, R, movecode[q], pos[q], d.way)
  BY <1>1, <1>3, GoingParts, NextTileIsHome
<1> DEFINE t == TileOf(pos[q])
<1>4. CASE movecode[q] = 1 /\ d \in do_wanderzone(q) /\ d # Staying(q)
  <2>1. PICK f \in Faces : /\ zone(Plus(t, f)) = zone(t)
                           /\ d = Going(q, Times(Tile, f), f)
    BY <1>4, WanderCases DEF do_wanderzone
  <2>2. Keeps(zones, R, movecode[q], t, Plus(t, f))
    BY <1>4, <2>1 DEF Keeps, zone
  <2> QED
    BY <1>3, <2>1, <2>2
<1>5. CASE movecode[q] = 2 /\ d \in do_wanderbox(q) /\ d # Staying(q)
  <2>1. PICK f \in Faces :
          /\ \A i \in 1 .. 2 : /\ Plus(t, f)[i] > t[i] => Plus(t, f)[i] <= BoxTo[i]
                               /\ Plus(t, f)[i] < t[i] => Plus(t, f)[i] >= BoxFrom[i]
          /\ d = Going(q, Times(Tile, f), f)
    BY <1>5, WanderCases DEF do_wanderbox
  <2>2. ASSUME Inside(t) PROVE Inside(Plus(t, f))
    <3>1. /\ \A i \in 1 .. 2 : t[i] \in Int
          /\ \A i \in 1 .. 2 : Plus(t, f)[i] \in Int
      <4>1. t[1] \in Int /\ t[2] \in Int
        <5>1. Tile \in Nat \ {0} /\ pos[q][1] \in Int /\ pos[q][2] \in Int
          BY <1>1, ObstructionAssumption DEF Places
        <5> QED
          BY <5>1, Quotient DEF TileOf
      <4>2. f[1] \in Int /\ f[2] \in Int
        BY DEF Faces
      <4>3. Plus(t, f)[1] \in Int /\ Plus(t, f)[2] \in Int
        BY <4>1, <4>2 DEF Plus
      <4>4. \A i \in 1 .. 2 : i = 1 \/ i = 2
        OBVIOUS
      <4> QED
        BY <4>1, <4>3, <4>4
    <3>2. \A i \in 1 .. 2 : BoxFrom[i] \in Int /\ BoxTo[i] \in Int
      <4>1. BoxFrom[1] \in Int /\ BoxFrom[2] \in Int /\ BoxTo[1] \in Int /\ BoxTo[2] \in Int
        BY ObstructionAssumption DEF Tiles
      <4>2. \A i \in 1 .. 2 : i = 1 \/ i = 2
        OBVIOUS
      <4> QED
        BY <4>1, <4>2
    <3> HIDE DEF t
    <3> QED
      BY <2>1, <2>2, <3>1, <3>2 DEF Inside
  <2>3. Keeps(zones, R, movecode[q], t, Plus(t, f))
    BY <1>5, <2>2 DEF Keeps
  <2> QED
    BY <1>3, <2>1, <2>3
<1> QED
  BY <1>2, <1>4, <1>5

(* What is home stays home, but for the tiles that change.                 *)
LEMMA HomeRemembered ==
  ASSUME NEW q, Remembered(q), NEW code, NEW p, NEW w, HomeTo(zones, rezoned[q], code, p, w)
  PROVE  HomeTo(zones', rezoned'[q], code, p, w)
<1>1. ASSUME NEW t, NEW u, Keeps(zones, rezoned[q], code, t, u)
      PROVE  Keeps(zones', rezoned'[q], code, t, u)
  <2>1. \A x : ZoneIn(zones', x) = ZoneIn(zones, x) \/ x \in rezoned'[q]
    BY DEF Remembered, zone
  <2>2. rezoned[q] \subseteq rezoned'[q]
    BY DEF Remembered
  <2>3. CASE ZoneIn(zones, t) = ZoneIn(zones, u)
    BY <1>1, <2>1, <2>3 DEF Keeps
  <2>4. CASE {t, u} \cap rezoned[q] # {}
    BY <1>1, <2>2, <2>4 DEF Keeps
  <2>5. CASE code # 1
    BY <1>1, <2>5 DEF Keeps
  <2> QED
    BY <1>1, <2>3, <2>4, <2>5 DEF Keeps
<1>2. PICK d \in Directions, n \in Nat : Along(p, w, d, n) /\ HomeFor(zones, rezoned[q], code, p, d, n)
  BY DEF HomeTo
<1>3. HomeFor(zones', rezoned'[q], code, p, d, n)
  BY <1>1, <1>2 DEF HomeFor
<1> QED
  BY <1>2, <1>3 DEF HomeTo

LEMMA HomeWayKept ==
  ASSUME Codes[myself] \subseteq {0, 3}, Base, HomeWay, ObsNext, NEW q \in Entities
  PROVE  /\ q = myself => movecode'[q] \in {0, 3}
         /\ movecode'[q] \in {1, 2} =>
              /\ HomeTo(zones', rezoned'[q], movecode'[q], pos'[q], way'[q])
              /\ movecode[q] = movecode'[q] =>
                   Keeps(zones, rezoned'[q], movecode[q], TileOf(pos[q]), TileOf(pos'[q]))
<1>1. /\ pos[q] \in Places /\ way[q] \in Places /\ movecode[q] \in 0 .. 3
      /\ q = myself => movecode[q] \in {0, 3}
      /\ movecode[q] \in {1, 2} => HomeTo(zones, rezoned[q], movecode[q], pos[q], way[q])
  BY DEF Base, HomeWay
<1>2. \A z, R, code, t : Keeps(z, R, code, t, t)
  BY DEF Keeps
<1>3. CASE Seen(q) /\ Thinks(q)
  <2> DEFINE R == rezoned'[q]
  <2>0. zones' = zones /\ (~ Ready(q) => R = rezoned[q])
    BY <1>3 DEF Seen, mapVars
  <2>1. PICK d \in Decisions(q) :
          /\ way'[q] = d.way /\ movecode'[q] = d.code
          /\ \/ pos'[q] = pos[q]
             \/ /\ d.way # pos[q]
                /\ pos'[q] = Plus(pos[q], <<sgn(d.way[1] - pos[q][1]), sgn(d.way[2] - pos[q][2])>>)
    BY <1>3 DEF Thinks
  <2> HIDE DEF R
  <2>2. d.way \in Places
    BY DecisionTypes
  <2>3. /\ q = myself => d.code \in {0, 3}
        /\ d.code \in {1, 2} => movecode[q] = d.code /\ HomeTo(zones, R, d.code, pos[q], d.way)
    <3>1. CASE d = Staying(q)
      <4>1. d.way = way[q] /\ d.code = movecode[q]
        BY <1>1, <3>1, GoingParts
      <4>2. Ready(q) => HomeTo(zones, R, d.code, pos[q], d.way)
        BY <1>1, <4>1, HomeHere DEF Ready
      <4>3. ~ Ready(q) /\ movecode[q] \in {1, 2} => HomeTo(zones, R, d.code, pos[q], d.way)
        BY <1>1, <2>0, <4>1
      <4> QED
        BY <1>1, <4>1, <4>2, <4>3
    <3>2. CASE q = myself /\ \E k \in Keys : d \in Controls(k)
      BY <1>1, <3>2, ControlsCases DEF Cleaned
    <3>3. CASE /\ Ready(q)
               /\ \/ movecode[q] = 1 /\ d \in do_wanderzone(q)
                  \/ movecode[q] = 2 /\ d \in do_wanderbox(q)
      <4>1. d.code = movecode[q] /\ HomeTo(zones, R, movecode[q], pos[q], d.way)
        BY <3>3, WanderIsHome
      <4> QED
        BY <1>1, <3>3, <4>1
    <3>4. CASE movecode[q] = 3 /\ d \in do_movescript(q)
      <4>1. d.code \in {0, 3}
        BY <3>4, ScriptCases, GoingParts
      <4> QED
        BY <4>1
    <3> QED
      BY <3>1, <3>2, <3>3, <3>4, DecisionCases
  <2>4. CASE pos'[q] = pos[q]
    BY <1>2, <2>0, <2>1, <2>3, <2>4 DEF R
  <2>5. CASE pos'[q] # pos[q]
    <3>1. d.way # pos[q]
          /\ pos'[q] = Plus(pos[q], <<sgn(d.way[1] - pos[q][1]), sgn(d.way[2] - pos[q][2])>>)
      BY <2>1, <2>5
    <3>2. ASSUME d.code \in {1, 2}
          PROVE  /\ HomeTo(zones, R, d.code, pos'[q], d.way)
                 /\ Keeps(zones, R, d.code, TileOf(pos[q]), TileOf(pos'[q]))
      BY <1>1, <2>2, <2>3, <3>1, <3>2, HomeStep
    <3> QED
      BY <2>0, <2>1, <2>3, <3>2 DEF R
  <2> QED
    BY <2>4, <2>5
<1>4. CASE Steered(q)
  <2>1. q = myself /\ \E k \in Keys : \E d \in Controls(k) : movecode'[q] = d.code
    BY <1>4 DEF Steered
  <2>2. movecode'[q] \in {0, 3}
    BY <1>1, <2>1, ControlsCases DEF Cleaned
  <2> QED
    BY <2>1, <2>2
<1>5. CASE Remembered(q) /\ (Stands(q) \/ TurnedTo(q))
  <2>1. pos'[q] = pos[q] /\ way'[q] = way[q]
    BY <1>5 DEF TurnedTo, Stands
  <2>2. \/ movecode'[q] = movecode[q]
        \/ q = myself /\ movecode'[q] \in {0, 3}
    BY <1>1, <1>5 DEF TurnedTo, Stands, Cleaned
  <2>3. movecode[q] \in {1, 2} => HomeTo(zones', rezoned'[q], movecode[q], pos[q], way[q])
    BY <1>1, <1>5, HomeRemembered
  <2> QED
    BY <1>1, <1>2, <2>1, <2>2, <2>3
<1>6. CASE Stopped(q)
  BY <1>1, <1>2, <1>6, HomeHere DEF Stopped
<1> QED
  BY <1>3, <1>4, <1>5, <1>6, StepCases

LEMMA HomeWayInit == ObsInit => HomeWay
<1> SUFFICES ASSUME ObsInit PROVE HomeWay
  OBVIOUS
<1>1. \A q \in Entities : movecode[q] = 0
  BY DEF ObsInit
<1>2. myself \in Entities
  BY ObstructionAssumption
<1>3. 0 \notin {1, 2}
  OBVIOUS
<1> QED
  BY <1>1, <1>2, <1>3 DEF HomeWay

(* Wanderers keep to the zone or the box they are in, for any map, box,    *)
(* size of a tile and scripts, which may change the zones at any time: a   *)
(* step leads to another zone only where a script gave one of the two tiles*)
(* a zone since the walker chose its way.  The player must not be let      *)
(* wander: the keys then still lead it anywhere.                           *)
THEOREM WanderersKeepHome ==
  Codes[myself] \subseteq {0, 3} /\ ObsSpec => WanderersStayHome
<1> SUFFICES ASSUME Codes[myself] \subseteq {0, 3} PROVE ObsSpec => WanderersStayHome
  OBVIOUS
<1>1. Base /\ HomeWay /\ [ObsNext]_obsVars => HomeWay'
  <2> SUFFICES ASSUME Base, HomeWay, [ObsNext]_obsVars PROVE HomeWay'
    OBVIOUS
  <2>1. CASE UNCHANGED obsVars
    BY <2>1 DEF obsVars, entVars, mapVars, mapHist, HomeWay
  <2>2. CASE ObsNext
    BY <2>2, HomeWayKept, ObstructionAssumption DEF HomeWay
  <2> QED
    BY <2>1, <2>2
<1>2. Base /\ HomeWay /\ [ObsNext]_obsVars
        => [ \A e \in Entities :
               /\ movecode[e] = 1 /\ movecode'[e] = 1
                    => SameZone(TileOf(pos[e]), TileOf(pos'[e]), rezoned'[e])
               /\ movecode[e] = 2 /\ movecode'[e] = 2 /\ Inside(TileOf(pos[e]))
                    => Inside(TileOf(pos'[e])) ]_obsVars
  <2> SUFFICES ASSUME Base, HomeWay, ObsNext, NEW e \in Entities
               PROVE  /\ movecode[e] = 1 /\ movecode'[e] = 1
                           => SameZone(TileOf(pos[e]), TileOf(pos'[e]), rezoned'[e])
                      /\ movecode[e] = 2 /\ movecode'[e] = 2 /\ Inside(TileOf(pos[e]))
                           => Inside(TileOf(pos'[e]))
    OBVIOUS
  <2>1. movecode'[e] \in {1, 2} /\ movecode[e] = movecode'[e]
          => Keeps(zones, rezoned'[e], movecode[e], TileOf(pos[e]), TileOf(pos'[e]))
    BY HomeWayKept
  <2>2. ASSUME movecode[e] = 1, movecode'[e] = 1
        PROVE  SameZone(TileOf(pos[e]), TileOf(pos'[e]), rezoned'[e])
    BY <2>1, <2>2 DEF Keeps, SameZone, zone
  <2>3. ASSUME movecode[e] = 2, movecode'[e] = 2, Inside(TileOf(pos[e]))
        PROVE  Inside(TileOf(pos'[e]))
    BY <2>1, <2>3 DEF Keeps
  <2> QED
    BY <2>2, <2>3
<1> QED
  BY <1>1, <1>2, BaseInit, BaseKept, HomeWayInit, PTL DEF ObsSpec, WanderersStayHome

-----------------------------------------------------------------------------
(* The search along a direction is exact.                                  *)

LEMMA AheadOnce ==
  ASSUME HotW = HotH, NEW p \in Places, NEW d \in Directions
  PROVE  Ahead(p, d, 1) = Covered(Plus(p, d)) \ Covered(p)
<1>1. d[1] \in {-1, 0, 1} /\ d[2] \in {-1, 0, 1}
  BY EachDirection
<1>2. p[1] \in Int /\ p[2] \in Int /\ HotW \in Nat \ {0} /\ HotH \in Nat \ {0}
  BY ObstructionAssumption DEF Places
<1> DEFINE row == IF d[2] < 0 THEN p[2] + d[2] ELSE p[2] + d[2] + HotH - 1
           col == IF d[1] < 0 THEN p[1] + d[1] ELSE p[1] + d[1] + HotW - 1
<1>3. Ahead(p, d, 1) =
        (IF d[2] = 0 THEN {} ELSE Pixels(p[1] + d[1], p[1] + d[1] + HotW - 1, row, row))
        \cup (IF d[1] = 0 THEN {} ELSE Pixels(col, col, p[2] + d[2], p[2] + d[2] + HotH - 1))
  <2>1. 1 * d[1] = d[1] /\ 1 * d[2] = d[2]
    BY <1>1
  <2> QED
    BY <2>1 DEF Ahead
<1>4. ASSUME NEW q \in Ahead(p, d, 1)
      PROVE  q \in Covered(Plus(p, d)) \ Covered(p)
  <2>1. PICK x \in Int, y \in Int : q = <<x, y>>
    BY <1>1, <1>2, <1>3, <1>4 DEF Pixels
  <2>2. \/ d[2] # 0 /\ y = row /\ p[1] + d[1] <= x /\ x <= p[1] + d[1] + HotW - 1
        \/ d[1] # 0 /\ x = col /\ p[2] + d[2] <= y /\ y <= p[2] + d[2] + HotH - 1
    BY <1>1, <1>2, <1>3, <1>4, <2>1 DEF Pixels
  <2>3. /\ p[1] + d[1] <= x /\ x <= p[1] + d[1] + HotW - 1
        /\ p[2] + d[2] <= y /\ y <= p[2] + d[2] + HotH - 1
    BY <1>1, <1>2, <2>2
  <2>4. x < p[1] \/ x > p[1] + HotW - 1 \/ y < p[2] \/ y > p[2] + HotH - 1
    BY <1>1, <1>2, <2>2
  <2>5. q \in Covered(Plus(p, d))
    BY <1>1, <1>2, <2>1, <2>3 DEF Covered, Pixels, Plus
  <2>6. q \notin Covered(p)
    BY <1>2, <2>1, <2>4 DEF Covered, Pixels
  <2> QED
    BY <2>5, <2>6
<1> QED
  BY <1>2, <1>4, AheadIsEntered

LEMMA AheadIsNext ==
  ASSUME HotW = HotH, NEW p \in Places, NEW d \in Directions, NEW m \in Nat
  PROVE  Ahead(p, d, m + 1) = Covered(Plus(p, Times(m + 1, d))) \ Covered(Plus(p, Times(m, d)))
<1>1. d[1] \in {-1, 0, 1} /\ d[2] \in {-1, 0, 1} /\ p[1] \in Int /\ p[2] \in Int
  BY EachDirection DEF Places
<1> DEFINE r == Plus(p, Times(m, d))
<1>2. r \in Places
  BY EachFace, PlusPlace
<1>3. /\ p[1] + (m + 1) * d[1] = (p[1] + m * d[1]) + d[1]
      /\ p[2] + (m + 1) * d[2] = (p[2] + m * d[2]) + d[2]
  <2>1. \A x \in {-1, 0, 1}, y \in Int : y + (m + 1) * x = (y + m * x) + x
    OBVIOUS
  <2> QED
    BY <1>1, <2>1
<1>4. r[1] = p[1] + m * d[1] /\ r[2] = p[2] + m * d[2]
  BY DEF Plus, Times
<1>5. 1 * d[1] = d[1] /\ 1 * d[2] = d[2]
  BY <1>1
<1>6. Plus(p, Times(m + 1, d)) = Plus(r, d)
  BY <1>3, <1>4 DEF Plus, Times
<1>7. p[1] + (m + 1) * d[1] = r[1] + 1 * d[1] /\ p[2] + (m + 1) * d[2] = r[2] + 1 * d[2]
  BY <1>3, <1>4, <1>5
<1> HIDE DEF r
<1>8. Ahead(p, d, m + 1) = Ahead(r, d, 1)
  BY <1>7 DEF Ahead
<1>9. Ahead(r, d, 1) = Covered(Plus(r, d)) \ Covered(r)
  BY <1>2, AheadOnce
<1> QED
  BY <1>6, <1>8, <1>9 DEF r

(* MaxPlayerMove finds the whole of the free distance and no more, from    *)
(* every place and in all eight directions, for a square player of any     *)
(* size, any map and any other entities on it.                             *)
THEOREM SearchIsExact == HotW = HotH /\ ObsSpec => []DistanceIsMax
<1> SUFFICES ASSUME HotW = HotH PROVE ObsSpec => []DistanceIsMax
  OBVIOUS
<1>1. Base => DistanceIsMax
  <2> SUFFICES ASSUME Base, myself \in Obstructable, NEW d \in Directions
               PROVE  LET n == MaxPlayerMove(d, playerstep)
                      IN  FreeFor(d, n) /\ (n < playerstep => ~ FreeFor(d, n + 1))
    BY DEF DistanceIsMax
  <2> DEFINE n == MaxPlayerMove(d, playerstep)
  <2>1. pos[myself] \in Places /\ playerstep \in Nat
    BY ObstructionAssumption DEF Base
  <2>2. /\ n \in 0 .. playerstep
        /\ \A m \in 1 .. n : \A p \in Ahead(pos[myself], d, m) : ~ ObstructAt(p)
        /\ n < playerstep => \E p \in Ahead(pos[myself], d, n + 1) : ObstructAt(p)
    BY <2>1, DistanceIsFree
  <2> HIDE DEF n
  <2>3. n \in Nat /\ n + 1 \in 1 .. n + 1
    BY <2>1, <2>2
  <2>4. ASSUME NEW m \in Nat, m >= 1
        PROVE  Covered(Plus(pos[myself], Times(m, d))) \ Covered(Plus(pos[myself], Times(m - 1, d)))
                 = Ahead(pos[myself], d, m)
    <3>1. m - 1 \in Nat /\ (m - 1) + 1 = m
      BY <2>4
    <3> QED
      BY <2>1, <3>1, AheadIsNext
  <2>5. FreeFor(d, n)
    BY <2>2, <2>3, <2>4 DEF FreeFor
  <2>6. ASSUME n < playerstep PROVE ~ FreeFor(d, n + 1)
    <3>1. n + 1 \in Nat /\ n + 1 >= 1
      BY <2>3
    <3>2. PICK p \in Ahead(pos[myself], d, n + 1) : ObstructAt(p)
      BY <2>2, <2>6
    <3>3. p \in Covered(Plus(pos[myself], Times(n + 1, d))) \ Covered(Plus(pos[myself], Times((n + 1) - 1, d)))
      BY <2>4, <3>1
    <3> QED
      BY <2>3, <3>2, <3>3 DEF FreeFor
  <2> QED
    BY <2>5, <2>6 DEF n
<1> QED
  BY <1>1, BaseInit, BaseKept, PTL DEF ObsSpec

-----------------------------------------------------------------------------
(* Nobody leaves the map.                                                  *)

(* On the map by the corners alone.                                        *)
Fits(p) ==
  /\ 0 <= p[1] /\ p[1] + HotW <= Tile * Width
  /\ 0 <= p[2] /\ p[2] + HotH <= Tile * Height

LEMMA TileInside ==
  ASSUME NEW T \in Nat \ {0}, NEW n \in Nat, NEW x \in Int
  PROVE  x \div T \in 0 .. n - 1 <=> 0 <= x /\ x < T * n
<1> DEFINE a == x \div T
<1>1. a \in Int /\ T * a <= x /\ x < T * (a + 1)
  BY Quotient
<1> HIDE DEF a
<1>2. ASSUME a \in 0 .. n - 1 PROVE 0 <= x /\ x < T * n
  <2>1. T * a >= 0
    BY <1>2
  <2>2. PICK c \in Nat : n = (a + 1) + c
    <3>1. n - (a + 1) \in Nat /\ n = (a + 1) + (n - (a + 1))
      BY <1>1, <1>2
    <3> QED
      BY <3>1
  <2>3. T * n = T * (a + 1) + T * c /\ T * c >= 0
    BY <1>1, <2>2
  <2>4. T * n \in Int /\ T * (a + 1) \in Int /\ T * c \in Int /\ T * a \in Int
    BY <1>1, <2>2
  <2> QED
    BY <1>1, <2>1, <2>3, <2>4
<1>3. ASSUME 0 <= x, x < T * n PROVE a \in 0 .. n - 1
  <2>1. T * 0 < T * (a + 1) /\ T * a < T * ((n - 1) + 1)
    <3>1. T * 0 = 0 /\ (n - 1) + 1 = n
      OBVIOUS
    <3>2. T * n \in Int /\ T * (a + 1) \in Int /\ T * a \in Int
      BY <1>1
    <3> QED
      BY <1>1, <1>3, <3>1, <3>2
  <2>2. 0 <= a /\ a <= n - 1
    BY <1>1, <2>1, Scaled
  <2> QED
    BY <1>1, <2>2
<1> QED
  BY <1>2, <1>3 DEF a

LEMMA PixelOnMap ==
  ASSUME NEW x \in Int, NEW y \in Int
  PROVE  TileOf(<<x, y>>) \in Tiles <=>
           0 <= x /\ x < Tile * Width /\ 0 <= y /\ y < Tile * Height
<1>1. Tile \in Nat \ {0} /\ Width \in Nat /\ Height \in Nat
  BY ObstructionAssumption
<1>2. /\ x \div Tile \in 0 .. Width - 1 <=> 0 <= x /\ x < Tile * Width
      /\ y \div Tile \in 0 .. Height - 1 <=> 0 <= y /\ y < Tile * Height
  BY <1>1, TileInside
<1>3. TileOf(<<x, y>>) \in Tiles <=> x \div Tile \in 0 .. Width - 1 /\ y \div Tile \in 0 .. Height - 1
  BY DEF TileOf, Tiles
<1> QED
  BY <1>2, <1>3

LEMMA OnMapFits ==
  ASSUME NEW p \in Places
  PROVE  OnMap(p) <=> Fits(p)
<1>1. PICK a \in Int, b \in Int : p = <<a, b>>
  BY DEF Places
<1>2. /\ HotW \in Nat \ {0} /\ HotH \in Nat \ {0}
      /\ Tile * Width \in Int /\ Tile * Height \in Int
  BY ObstructionAssumption
<1>3. ASSUME OnMap(p) PROVE Fits(p)
  <2>1. /\ <<a, b>> \in Covered(p)
        /\ <<a + HotW - 1, b + HotH - 1>> \in Covered(p)
    BY <1>1, <1>2 DEF Covered, Pixels
  <2>2. a + HotW - 1 \in Int /\ b + HotH - 1 \in Int
    BY <1>2
  <2>3. /\ 0 <= a /\ 0 <= b
        /\ a + HotW - 1 < Tile * Width /\ b + HotH - 1 < Tile * Height
    BY <1>3, <2>1, <2>2, PixelOnMap DEF OnMap
  <2> QED
    BY <1>1, <1>2, <2>3 DEF Fits
<1>4. ASSUME Fits(p), NEW q \in Covered(p) PROVE TileOf(q) \in Tiles
  <2>1. PICK x \in Int, y \in Int :
          /\ q = <<x, y>> /\ a <= x /\ x <= a + HotW - 1 /\ b <= y /\ y <= b + HotH - 1
    BY <1>1, <1>2 DEF Covered, Pixels
  <2>2. 0 <= x /\ x < Tile * Width /\ 0 <= y /\ y < Tile * Height
    BY <1>1, <1>2, <1>4, <2>1 DEF Fits
  <2> QED
    BY <2>1, <2>2, PixelOnMap
<1> QED
  BY <1>3, <1>4 DEF OnMap

(* Between two places on the map is the map.                               *)
LEMMA StepFits ==
  ASSUME NEW p \in Places, NEW w \in Places, Fits(p), Fits(w)
  PROVE  Fits(Plus(p, <<sgn(w[1] - p[1]), sgn(w[2] - p[2])>>))
<1>1. /\ HotW \in Int /\ HotH \in Int
      /\ Tile * Width \in Int /\ Tile * Height \in Int
  BY ObstructionAssumption
<1>2. PICK a \in Int, b \in Int, c \in Int, d \in Int : p = <<a, b>> /\ w = <<c, d>>
  BY DEF Places
<1>3. /\ a + sgn(c - a) \in Int /\ b + sgn(d - b) \in Int
      /\ (a <= a + sgn(c - a) \/ c <= a + sgn(c - a)) /\ (a + sgn(c - a) <= a \/ a + sgn(c - a) <= c)
      /\ (b <= b + sgn(d - b) \/ d <= b + sgn(d - b)) /\ (b + sgn(d - b) <= b \/ b + sgn(d - b) <= d)
  BY DEF sgn
<1>4. Plus(p, <<sgn(w[1] - p[1]), sgn(w[2] - p[2])>>) = <<a + sgn(c - a), b + sgn(d - b)>>
  BY <1>2 DEF Plus
<1> QED
  BY <1>1, <1>2, <1>3, <1>4 DEF Fits

(* A way of tiles is on the map when its last look, HotW or HotH away, was.*)
LEMMA TileAwayFits ==
  ASSUME Tile <= HotW, Tile <= HotH, NEW p \in Places, NEW d \in Faces, Fits(p),
         Fits(Plus(p, <<HotW * d[1], HotH * d[2]>>))
  PROVE  Fits(Plus(p, Times(Tile, d)))
<1>1. /\ HotW \in Int /\ HotH \in Int /\ Tile \in Nat
      /\ Tile * Width \in Int /\ Tile * Height \in Int
  BY ObstructionAssumption
<1>2. PICK a \in Int, b \in Int : p = <<a, b>>
  BY DEF Places
<1>3. d \in {<<1, 0>>, <<-1, 0>>, <<0, 1>>, <<0, -1>>}
  BY DEF Faces
<1> DEFINE W == Tile * Width
           H == Tile * Height
<1>4. /\ W \in Int /\ H \in Int
      /\ \A q : Fits(q) <=> 0 <= q[1] /\ q[1] + HotW <= W /\ 0 <= q[2] /\ q[2] + HotH <= H
  BY <1>1 DEF Fits
<1> HIDE DEF W, H
<1>5. CASE d = <<1, 0>>
  BY <1>1, <1>2, <1>4, <1>5 DEF Plus, Times
<1>6. CASE d = <<-1, 0>>
  BY <1>1, <1>2, <1>4, <1>6 DEF Plus, Times
<1>7. CASE d = <<0, 1>>
  BY <1>1, <1>2, <1>4, <1>7 DEF Plus, Times
<1>8. CASE d = <<0, -1>>
  BY <1>1, <1>2, <1>4, <1>8 DEF Plus, Times
<1> QED
  BY <1>3, <1>5, <1>6, <1>7, <1>8

(* The pixels looked at last hold the front of who goes there, and its     *)
(* back has been on the map.                                               *)
LEMMA SearchedFits ==
  ASSUME NEW p \in Places, NEW d \in Directions, NEW n \in Nat, Fits(p),
         n = 0 \/ \A x \in Ahead(p, d, n) : TileOf(x) \in Tiles
  PROVE  Fits(Plus(p, Times(n, d)))
<1>1. /\ HotW \in Nat \ {0} /\ HotH \in Nat \ {0}
      /\ Tile * Width \in Int /\ Tile * Height \in Int
  BY ObstructionAssumption
<1>2. PICK a \in Int, b \in Int : p = <<a, b>>
  BY DEF Places
<1>3. d[1] \in {-1, 0, 1} /\ d[2] \in {-1, 0, 1}
  BY EachDirection
<1> DEFINE x == a + n * d[1]
           y == b + n * d[2]
<1>4. /\ x \in Int /\ y \in Int /\ Plus(p, Times(n, d)) = <<x, y>>
      /\ (d[1] = 0 => x = a) /\ (d[1] = 1 => x >= a) /\ (d[1] = -1 => x <= a)
      /\ (d[2] = 0 => y = b) /\ (d[2] = 1 => y >= b) /\ (d[2] = -1 => y <= b)
      /\ (n = 0 => x = a /\ y = b)
  BY <1>2, <1>3 DEF Plus, Times
<1>5. /\ 0 <= a /\ a + HotW <= Tile * Width
      /\ 0 <= b /\ b + HotH <= Tile * Height
  BY <1>2 DEF Fits
<1>6. ASSUME n # 0, d[1] # 0
      PROVE  0 <= x /\ x + HotW <= Tile * Width
  <2> DEFINE col == IF d[1] < 0 THEN x ELSE x + HotW - 1
  <2>1. <<col, y>> \in Ahead(p, d, n) /\ col \in Int
    <3>1. <<col, y>> \in Pixels(col, col, y, y + HotH - 1) /\ col \in Int
      BY <1>1, <1>4 DEF Pixels
    <3>2. Pixels(col, col, y, y + HotH - 1) \subseteq Ahead(p, d, n)
      BY <1>2, <1>6 DEF Ahead
    <3> QED
      BY <3>1, <3>2
  <2>2. 0 <= col /\ col < Tile * Width
    BY <1>4, <1>6, <2>1, PixelOnMap
  <2> QED
    BY <1>1, <1>3, <1>4, <1>5, <1>6, <2>2
<1>7. ASSUME n # 0, d[2] # 0
      PROVE  0 <= y /\ y + HotH <= Tile * Height
  <2> DEFINE row == IF d[2] < 0 THEN y ELSE y + HotH - 1
             length == IF d = SE THEN HotH ELSE HotW
  <2>1. <<x, row>> \in Ahead(p, d, n) /\ row \in Int
    <3>1. <<x, row>> \in Pixels(x, x + length - 1, row, row) /\ row \in Int
      BY <1>1, <1>4 DEF Pixels
    <3>2. Pixels(x, x + length - 1, row, row) \subseteq Ahead(p, d, n)
      BY <1>2, <1>7 DEF Ahead
    <3> QED
      BY <3>1, <3>2
  <2>2. 0 <= row /\ row < Tile * Height
    BY <1>4, <1>7, <2>1, PixelOnMap
  <2> QED
    BY <1>1, <1>3, <1>4, <1>5, <1>7, <2>2
<1> HIDE DEF x, y
<1>8. /\ 0 <= x /\ x + HotW <= Tile * Width
      /\ 0 <= y /\ y + HotH <= Tile * Height
  BY <1>1, <1>3, <1>4, <1>5, <1>6, <1>7
<1>9. <<x, y>>[1] = x /\ <<x, y>>[2] = y
  OBVIOUS
<1> QED
  BY <1>4, <1>8, <1>9 DEF Fits

(* What keeps entities on the map: they start there; who chooses its own   *)
(* way is stopped by the map's edge; and who wanders looks at the whole of *)
(* the next tile.                                                          *)
Fenced ==
  /\ \A e \in Entities : OnMap(Home[e])
  /\ \A e \in Entities \ Obstructable : e # myself /\ Codes[e] \subseteq {0, 3}
  /\ Tile <= HotW /\ Tile <= HotH

Kept(q) ==
  /\ Fits(pos[q]) /\ Fits(way[q])
  /\ q \notin Obstructable => movecode[q] \in {0, 3}

FreeIsGround(x) == ~ ObstructAt(x) => TileOf(x) \in Tiles

LEMMA FreeOnMap == \A x : FreeIsGround(x)
BY DEF FreeIsGround, ObstructAt, obstructpixel, Ground

LEMMA ControlsFit ==
  ASSUME Base, myself \in Obstructable, Kept(myself), Ready(myself),
         NEW k \in Keys, NEW d \in Controls(k)
  PROVE  Fits(d.way)
<1>1. /\ myself \in Entities /\ pos[myself] \in Places /\ way[myself] = pos[myself]
      /\ playerstep \in Nat
  BY ObstructionAssumption DEF Base, Ready
<1>2. CASE d.way = way[myself]
  BY <1>2 DEF Kept
<1>3. ASSUME NEW a \in Directions,
             d.way = Plus(way[myself], Times(MaxPlayerMove(a, playerstep), a))
      PROVE  Fits(d.way)
  <2> DEFINE n == MaxPlayerMove(a, playerstep)
  <2>1. /\ n \in 0 .. playerstep
        /\ \A m \in 1 .. n : \A p \in Ahead(pos[myself], a, m) : ~ ObstructAt(p)
    BY <1>1, DistanceIsFree
  <2>2. n \in Nat /\ d.way = Plus(pos[myself], Times(n, a))
    BY <1>1, <1>3, <2>1
  <2> HIDE DEF n
  <2>3. n = 0 \/ \A p \in Ahead(pos[myself], a, n) : TileOf(p) \in Tiles
    <3>1. n # 0 => n \in 1 .. n
      BY <2>2
    <3> QED
      BY <2>1, <3>1, FreeOnMap DEF FreeIsGround
  <2>4. Fits(pos[myself])
    BY DEF Kept
  <2> QED
    BY <1>1, <2>2, <2>3, <2>4, SearchedFits
<1> QED
  BY <1>2, <1>3, ControlsCases

LEMMA WanderFits ==
  ASSUME Base, Tile <= HotW, Tile <= HotH, NEW q \in Obstructable, Kept(q), Ready(q),
         NEW tiles, NEW d \in Wander(q, tiles)
  PROVE  Fits(d.way) /\ d.code = movecode[q]
<1>1. q \in Entities /\ pos[q] \in Places /\ way[q] = pos[q] /\ Fits(pos[q])
  BY ObstructionAssumption DEF Base, Ready, Kept
<1>2. CASE d = Staying(q)
  BY <1>1, <1>2, GoingParts
<1>3. ASSUME NEW f \in Faces, ~ ObstructDir(q, f), d = Going(q, Times(Tile, f), f)
      PROVE  Fits(d.way) /\ d.code = movecode[q]
  <2>1. d.way = Plus(pos[q], Times(Tile, f)) /\ d.code = movecode[q]
    BY <1>1, <1>3, GoingParts
  <2> DEFINE far == Plus(pos[q], <<HotW * f[1], HotH * f[2]>>)
  <2>2. far \in Places
    <3>1. /\ HotW \in Int /\ HotH \in Int /\ f[1] \in {-1, 0, 1} /\ f[2] \in {-1, 0, 1}
      BY ObstructionAssumption DEF Faces
    <3>2. HotW * f[1] \in Int /\ HotH * f[2] \in Int
      BY <3>1
    <3>3. <<HotW * f[1], HotH * f[2]>> \in Places
      BY <3>2 DEF Places
    <3> QED
      BY <1>1, <3>3, PlusPlace
  <2>3. \A x \in Covered(far) : ~ ObstructAt(x)
    BY <1>3 DEF ObstructDir
  <2>4. OnMap(far)
    BY <2>3, FreeOnMap DEF OnMap, FreeIsGround
  <2>5. Fits(far)
    BY <2>2, <2>4, OnMapFits
  <2> QED
    BY <1>1, <2>1, <2>5, TileAwayFits
<1> QED
  BY <1>2, <1>3 DEF Wander

(* Wherever somebody decides to go is on the map.                          *)
LEMMA DecidesOnMap ==
  ASSUME Base, Fenced, NEW q \in Entities, Kept(q), NEW d \in Decisions(q)
  PROVE  Fits(d.way) /\ (q \notin Obstructable => d.code \in {0, 3})
<1>1. /\ Fits(way[q]) /\ (q \notin Obstructable => movecode[q] \in {0, 3})
      /\ way[q] \in Places
  BY DEF Kept, Base
<1>2. CASE d = Staying(q)
  BY <1>1, <1>2, GoingParts
<1>3. CASE Ready(q) /\ q = myself /\ \E k \in Keys : d \in Controls(k)
  <2>1. myself \in Obstructable
    BY <1>3, ObstructionAssumption DEF Fenced
  <2> QED
    BY <1>3, <2>1, ControlsFit
<1>4. CASE Ready(q) /\ movecode[q] \in {1, 2} /\ (d \in do_wanderzone(q) \/ d \in do_wanderbox(q))
  <2>1. q \in Obstructable
    BY <1>1, <1>4
  <2>2. Tile <= HotW /\ Tile <= HotH
    BY DEF Fenced
  <2>3. PICK tiles : d \in Wander(q, tiles)
    BY <1>4 DEF do_wanderzone, do_wanderbox
  <2> QED
    BY <1>4, <2>1, <2>2, <2>3, WanderFits
<1>5. CASE movecode[q] = 3 /\ d \in do_movescript(q)
  <2>1. CASE \E s \in ScriptSteps : OnMap(Plus(way[q], s.by)) /\ d = Going(q, s.by, s.face)
    <3>1. PICK s \in ScriptSteps : OnMap(Plus(way[q], s.by)) /\ d = Going(q, s.by, s.face)
      BY <2>1
    <3>2. s.by \in Places
      BY ObstructionAssumption DEF Places
    <3>3. Fits(Plus(way[q], s.by))
      BY <1>1, <3>1, <3>2, OnMapFits, PlusPlace
    <3> QED
      BY <1>1, <3>1, <3>3, GoingParts
  <2>2. CASE d.way = way[q] /\ d.code \in {0, 3}
    BY <1>1, <2>2
  <2>3. \/ \E s \in ScriptSteps : OnMap(Plus(way[q], s.by)) /\ d = Going(q, s.by, s.face)
        \/ d.way = way[q] /\ d.code \in {0, 3}
    BY <1>5 DEF do_movescript, Staying
  <2> QED
    BY <2>1, <2>2, <2>3
<1> QED
  BY <1>2, <1>3, <1>4, <1>5, DecisionCases

LEMMA KeptStep ==
  ASSUME Base, Base', Fenced, NEW q \in Entities, Kept(q),
         Thinks(q) \/ Steered(q) \/ Stands(q) \/ TurnedTo(q) \/ Stopped(q)
  PROVE  Kept(q)'
<1>1. /\ Fits(pos[q]) /\ Fits(way[q]) /\ pos[q] \in Places
      /\ (q \notin Obstructable => movecode[q] \in {0, 3} /\ Codes[q] \subseteq {0, 3})
      /\ way'[q] \in Places
  BY DEF Base, Kept, Fenced
<1>2. ASSUME NEW p \in Places, pos'[q] = p, Fits(p), NEW w, way'[q] = w, Fits(w),
             NEW c, movecode'[q] = c, q \notin Obstructable => c \in {0, 3}
      PROVE  Kept(q)'
  BY <1>2 DEF Kept, Fits
<1>3. CASE Stands(q)
  BY <1>1, <1>2, <1>3 DEF Stands
<1>4. CASE Thinks(q)
  <2>1. PICK d \in Decisions(q) :
          /\ way'[q] = d.way /\ movecode'[q] = d.code
          /\ \/ pos'[q] = pos[q]
             \/ pos'[q] = Plus(pos[q], <<sgn(d.way[1] - pos[q][1]), sgn(d.way[2] - pos[q][2])>>)
    BY <1>4 DEF Thinks
  <2>2. Fits(d.way) /\ d.way \in Places /\ (q \notin Obstructable => d.code \in {0, 3})
    BY <1>1, <2>1, DecidesOnMap
  <2>3. Fits(pos'[q]) /\ pos'[q] \in Places
    <3>1. Fits(Plus(pos[q], <<sgn(d.way[1] - pos[q][1]), sgn(d.way[2] - pos[q][2])>>))
      BY <1>1, <2>2, StepFits
    <3> QED
      BY <1>1, <2>1, <3>1 DEF Base
  <2> QED
    BY <1>2, <2>1, <2>2, <2>3
<1>5. CASE Steered(q)
  <2>0. PICK k \in Keys : \E d \in Controls(k) : way'[q] = d.way /\ movecode'[q] = d.code
    BY <1>5 DEF Steered
  <2>1. PICK d \in Controls(k) : way'[q] = d.way /\ movecode'[q] = d.code
    BY <2>0
  <2>2. q = myself /\ Ready(myself) /\ pos'[q] = pos[q] /\ myself \in Obstructable
    BY <1>5, ObstructionAssumption DEF Steered, Fenced
  <2>3. Fits(d.way)
    BY <2>2, ControlsFit
  <2> QED
    BY <1>1, <1>2, <2>1, <2>2, <2>3
<1>6. CASE TurnedTo(q)
  <2>1. q \notin Obstructable => movecode'[q] \in {0, 3}
    BY <1>1, <1>6 DEF TurnedTo, Cleaned
  <2> QED
    BY <1>1, <1>2, <1>6, <2>1 DEF TurnedTo
<1>7. CASE Stopped(q)
  BY <1>1, <1>2, <1>7 DEF Stopped
<1> QED
  BY <1>3, <1>4, <1>5, <1>6, <1>7

AllKept == \A q \in Entities : Kept(q)

LEMMA AllKeptInit == Fenced /\ ObsInit => AllKept
<1> SUFFICES ASSUME Fenced, ObsInit, NEW q \in Entities PROVE Kept(q)
  BY DEF AllKept
<1>1. Home[q] \in Places /\ OnMap(Home[q]) /\ pos[q] = Home[q] /\ way[q] = Home[q] /\ movecode[q] = 0
  BY ObstructionAssumption DEF ObsInit, Fenced, Places
<1> QED
  BY <1>1, OnMapFits DEF Kept

LEMMA AllKeptStep == Fenced /\ Base /\ AllKept /\ [ObsNext]_obsVars => AllKept'
<1> SUFFICES ASSUME Fenced, Base, AllKept, [ObsNext]_obsVars, NEW q \in Entities PROVE Kept(q)'
  BY DEF AllKept
<1>1. Kept(q)
  BY DEF AllKept
<1>2. CASE UNCHANGED obsVars
  BY <1>1, <1>2 DEF Kept, Fits, obsVars, entVars
<1>3. CASE ObsNext
  BY <1>1, <1>3, StepCases, KeptStep
<1> QED
  BY <1>2, <1>3

(* Nobody leaves the map or sets out for a place off it, for any map, sizes*)
(* and scripts, when who chooses its own way can be obstructed, and a tile *)
(* is no larger than an entity: a wanderer goes a tile when as much as it  *)
(* covers is free.                                                         *)
THEOREM EntitiesStayOnMap == Fenced /\ ObsSpec => []ObsTypeOK
<1> SUFFICES ASSUME Fenced PROVE ObsSpec => []ObsTypeOK
  OBVIOUS
<1>1. Base /\ AllKept => ObsTypeOK
  BY OnMapFits DEF Base, AllKept, Kept, ObsTypeOK
<1> QED
  BY <1>1, BaseInit, BaseKept, AllKeptInit, AllKeptStep, PTL DEF ObsSpec

(* Under the same conditions a square player finds, wherever it gets to,   *)
(* the whole of the free distance.                                         *)
THEOREM MapIsSafe == (Fenced /\ HotW = HotH) /\ ObsSpec => []ObsInv
<1>1. ObsInv <=> ObsTypeOK /\ DistanceIsMax
  BY DEF ObsInv
<1> QED
  BY <1>1, EntitiesStayOnMap, SearchIsExact, PTL
===============================================================================
