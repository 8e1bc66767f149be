---------------------------- MODULE Obstruction -----------------------------
(***************************************************************************)
(* Where entities may step (verge/Source/g_entity.cpp, g_engine.cpp,       *)
(* g_map.h).                                                               *)
(*                                                                         *)
(* A place is a pixel; an entity covers the HotW x HotH pixels from its    *)
(* place on.  The player's way is searched for obstructions when a key is  *)
(* held, as far as it will go, and then walked without another look.  An   *)
(* entity that wanders looks its own size ahead, and again at the next row *)
(* of pixels before every pixel it moves; one that a script moves looks    *)
(* before every pixel only, and only to the side it faces.  Scripts change *)
(* the walls and the zones of the map at any time, also between the search *)
(* and the walk.                                                           *)
(*                                                                         *)
(* Speeds and delays decide which entity thinks next, so any may: an       *)
(* action is one turn of the loop in Entity::think.  Links between         *)
(* entities are left to EntityConvoy, the scripts that collisions, steps   *)
(* and zones start to EngineLoop.                                          *)
(***************************************************************************)
EXTENDS Integers, Sequences, FiniteSetsExt

CONSTANTS
  Entities, myself, \* the indices of entity[] and the player's
  Obstructing,      \* entities with `obstruction' set
  Obstructable,     \* entities with `obstructable' set
  Talking,          \* entities with a script and `autoface' set
  Tile,             \* pixels of a tile, which is square (16 in the code)
  Width, Height,    \* of the map, in tiles
  Walls,            \* tiles that obstruct, as the map is loaded
  Zone,             \* the zone of each tile, as the map is loaded
  ObsTiles,         \* tiles that scripts make walls, or ground
  ZoneTiles,        \* tiles that scripts move to other zones, with the zone
  BoxFrom, BoxTo,   \* the corners of the wander box, in tiles
  HotW, HotH,       \* size of the entities
  playerstep, playerdiagonals,
  Home,             \* where the map places each entity
  Codes,            \* the movement codes scripts give each entity
  ScriptSteps,      \* the moves of move scripts: by how much, facing where
  Turned,           \* entities that scripts turn
  TurnsWalking      \* may scripts turn entities that walk?

Tiles == (0 .. Width - 1) \X (0 .. Height - 1)
Faces == {<<1, 0>>, <<-1, 0>>, <<0, 1>>, <<0, -1>>}

ASSUME ObstructionAssumption ==
  /\ Entities \subseteq Nat /\ myself \in Entities
  /\ Obstructing \subseteq Entities /\ Obstructable \subseteq Entities
  /\ Talking \subseteq Entities /\ Turned \subseteq Entities
  /\ {Tile, Width, Height, HotW, HotH, playerstep} \subseteq Nat \ {0}
  /\ Walls \subseteq Tiles /\ Zone \in [Tiles -> Nat]
  /\ ObsTiles \subseteq Tiles /\ ZoneTiles \subseteq Tiles \X Nat
  /\ {BoxFrom, BoxTo} \subseteq Tiles
  /\ playerdiagonals \in BOOLEAN /\ TurnsWalking \in BOOLEAN
  /\ Home \in [Entities -> Int \X Int]
  /\ Codes \in [Entities -> SUBSET (0 .. 3)]
  /\ ScriptSteps \subseteq [by : Int \X Int, face : Faces]

VARIABLES
  pos,      \* x / 65536 and y / 65536
  way,      \* waypointx and waypointy
  face,     \* the direction the entity looks to
  movecode, \* 0 keys or none, 1 wander in a zone, 2 in a box, 3 move script
  walls,    \* the tiles that obstruct (obslayer)
  zones,    \* the zone of each tile (zonelayer)
  raised,   \* history: tiles made walls since the player last decided
  rezoned   \* history: tiles given a zone since each entity last decided

entVars  == <<pos, way, face, movecode>>
mapVars  == <<walls, zones>>
mapHist  == <<raised, rezoned>>
obsVars  == <<entVars, mapVars, mapHist>>

Plus(p, d)  == <<p[1] + d[1], p[2] + d[2]>>
Times(n, d) == <<n * d[1], n * d[2]>>
sgn(n)      == IF n > 0 THEN 1 ELSE IF n < 0 THEN -1 ELSE 0

Keys       == (-1 .. 1) \X (-1 .. 1)
Directions == Keys \ {<<0, 0>>}
SE         == <<1, 1>>

(* The face set_waypoint and set_waypoint_relative give: west or east win. *)
Facing(d) == IF d[1] # 0 THEN <<sgn(d[1]), 0>> ELSE <<0, sgn(d[2])>>

Pixels(x1, x2, y1, y2) == (x1 .. x2) \X (y1 .. y2)
Covered(p) == Pixels(p[1], p[1] + HotW - 1, p[2], p[2] + HotH - 1)
TileOf(p)  == <<p[1] \div Tile, p[2] \div Tile>>
Ready(e)   == pos[e] = way[e]

-----------------------------------------------------------------------------
(* What obstructs.                                                         *)

Ground == Tiles \ walls

obstructpixel(p) == TileOf(p) \notin Ground

EntityObsAt(p) == \E e \in Obstructing : p \in Covered(pos[e])
ObstructAt(p)  == obstructpixel(p) \/ EntityObsAt(p)

(* EntityAt: the entities at p, the first of which is meant.               *)
EntityAt(p) == {e \in Entities : p \in Covered(pos[e])}

ZoneIn(z, t) == IF t \in Tiles THEN z[t] ELSE 0
zone(t)      == ZoneIn(zones, t)

(* ObstructDirTick: the row of pixels next to e.                           *)
ObstructDirTick(e, d) ==
  e \in Obstructable /\ \E p \in Covered(Plus(pos[e], d)) \ Covered(pos[e]) : ObstructAt(p)

(* ObstructDir: all the pixels e would cover, moved by its own size.       *)
ObstructDir(e, d) ==
  e \in Obstructable /\ \E p \in Covered(Plus(pos[e], <<HotW * d[1], HotH * d[2]>>)) : ObstructAt(p)

(* Mutant: the row does not move sideways with the player.                 *)
AheadStraight(p, d, n) ==
  LET x == p[1]  y == p[2]
      row == IF d[2] < 0 THEN y - n ELSE y + HotH + n - 1
      col == IF d[1] < 0 THEN x - n ELSE x + HotW + n - 1
  IN  (IF d[2] = 0 THEN {} ELSE Pixels(x, x + HotW - 1, row, row))
      \cup (IF d[1] = 0 THEN {} ELSE Pixels(col, col, y, y + HotH - 1))

(* The pixels MaxPlayerMove looks at, n pixels away: a row for a step up   *)
(* or down, a column for one aside.  The row of SE is as long as the       *)
(* player is high.                                                         *)
Ahead(p, d, n) ==
  LET x == p[1] + n * d[1]  y == p[2] + n * d[2]
      row == IF d[2] < 0 THEN y ELSE y + HotH - 1
      col == IF d[1] < 0 THEN x ELSE x + HotW - 1
      length == IF d = SE THEN HotH ELSE HotW
  IN  (IF d[2] = 0 THEN {} ELSE Pixels(x, x + length - 1, row, row))
      \cup (IF d[1] = 0 THEN {} ELSE Pixels(col, col, y, y + HotH - 1))

(* Mutant: the last free pixel is taken for the obstruction.               *)
MaxPlayerMoveFar(d, max) ==
  LET blocked == {n \in 1 .. max + 1 : \E p \in Ahead(pos[myself], d, n) : ObstructAt(p)}
  IN  IF myself \notin Obstructable \/ blocked = {} THEN max ELSE Min({Min(blocked), max})

MaxPlayerMove(d, max) ==
  LET blocked == {n \in 1 .. max + 1 : \E p \in Ahead(pos[myself], d, n) : ObstructAt(p)}
  IN  IF myself \notin Obstructable \/ blocked = {} THEN max ELSE Min(blocked) - 1

-----------------------------------------------------------------------------
(* What a ready entity decides: the waypoint, the face and the movement    *)
(* code it goes on with.                                                   *)

Staying(e)        == [way |-> way[e], face |-> face[e], code |-> movecode[e]]
Going(e, by, f)   == [Staying(e) EXCEPT !.way = Plus(@, by), !.face = f]

(* The directions ProcessControls tries for the keys held, in its order;   *)
(* along a wall the player slides.  Without diagonals one of two keys held *)
(* is dropped, as if it were not held.                                     *)
Attempts(k) ==
  LET h == k[1]  v == k[2]
      both == IF h # 0 /\ v # 0 THEN <<k>> ELSE <<>>
      vert == IF v = 0 THEN <<>> ELSE <<<<0, v>>, <<-1, v>>, <<1, v>>>>
      hori == IF h = 0 THEN <<>> ELSE <<<<h, 0>>, <<h, -1>>, <<h, 1>>>>
  IN  IF playerdiagonals THEN both \o vert \o hori
      ELSE IF (h = 0) = (v = 0) THEN <<>> ELSE <<k>>

(* The first attempt that is free, or {}.                                  *)
FirstFree(k) ==
  LET tries == Attempts(k)
      free  == {i \in DOMAIN tries : MaxPlayerMove(tries[i], playerstep) > 0}
  IN  IF free = {} THEN {} ELSE {tries[Min(free)]}

(* The face of the player after all attempts failed.                       *)
FaceHeld(k) == IF Attempts(k) = <<>> THEN face[myself] ELSE Facing(k)

(* PlayerEntityMoveCleanup, at the start of ProcessControls.               *)
Cleaned(code) == IF code = 3 THEN 0 ELSE code

(* What ProcessControls decides for the keys k.                            *)
Controls(k) ==
  LET free  == FirstFree(k)
      ended == [Staying(myself) EXCEPT !.code = Cleaned(@)]
  IN  IF free = {} THEN {[ended EXCEPT !.face = FaceHeld(k)]}
      ELSE {[ended EXCEPT !.way = Plus(@, Times(MaxPlayerMove(d, playerstep), d)),
                          !.face = Facing(d)] : d \in free}

(* Wander goes to one of the tiles, those beside e that it may choose.     *)
Wander(e, tiles) ==
  LET open == {d \in Faces : Plus(TileOf(pos[e]), d) \in tiles /\ ~ ObstructDir(e, d)}
  IN  IF open = {} THEN {Staying(e)} ELSE {Going(e, Times(Tile, d), d) : d \in open}

Beside(t) == {Plus(t, d) : d \in Faces}

do_wanderzone(e) ==
  LET t == TileOf(pos[e])
  IN  Wander(e, {u \in Beside(t) : zone(u) = zone(t)})

(* A wanderer outside the box may come nearer to it.                       *)
do_wanderbox(e) ==
  LET t == TileOf(pos[e])
  IN  Wander(e, {u \in Beside(t) : \A i \in 1 .. 2 : (u[i] > t[i] => u[i] <= BoxTo[i])
                                                   /\ (u[i] < t[i] => u[i] >= BoxFrom[i])})

OnMap(p) == \A q \in Covered(p) : TileOf(q) \in Tiles

(* One command of a move script: a move, a turn or a wait, the end.  A     *)
(* bound: scripts send nobody off the map.                                 *)
do_movescript(e) ==
  {Going(e, s.by, s.face) : s \in {m \in ScriptSteps : OnMap(Plus(way[e], m.by))}}
  \cup {[Staying(e) EXCEPT !.face = f] : f \in Faces}
  \cup {[Staying(e) EXCEPT !.code = 0]}

Decisions(e) ==
  CASE ~ Ready(e) -> {Staying(e)}
    [] Ready(e) /\ movecode[e] = 0 -> {Staying(e)} \cup (IF e = myself THEN UNION {Controls(k) : k \in Keys} ELSE {})
    [] Ready(e) /\ movecode[e] = 1 -> do_wanderzone(e)
    [] Ready(e) /\ movecode[e] = 2 -> do_wanderbox(e)
    [] Ready(e) /\ movecode[e] = 3 -> do_movescript(e)

Decide(e, d) ==
  /\ way'      = [way EXCEPT ![e] = d.way]
  /\ face'     = [face EXCEPT ![e] = d.face]
  /\ movecode' = [movecode EXCEPT ![e] = d.code]

(* move_tick: the player walks on, others stop at an obstruction.          *)
MoveTick(e, w, f) ==
  pos' = IF w = pos[e] \/ (e # myself /\ ObstructDirTick(e, f)) THEN pos
         ELSE [pos EXCEPT ![e] = Plus(@, <<sgn(w[1] - @[1]), sgn(w[2] - @[2])>>)]

-----------------------------------------------------------------------------
(* Actions.                                                                *)

ObsInit ==
  /\ pos = Home /\ way = Home
  /\ face = [e \in Entities |-> <<0, 1>>]
  /\ movecode = [e \in Entities |-> 0]
  /\ walls = Walls /\ zones = Zone
  /\ raised = {} /\ rezoned = [e \in Entities |-> {}]

(* Who decides has the map before it as it is.                             *)
Looks(e) ==
  /\ UNCHANGED mapVars
  /\ raised'  = IF e = myself /\ Ready(e) THEN {} ELSE raised
  /\ rezoned' = IF Ready(e) THEN [rezoned EXCEPT ![e] = {}] ELSE rezoned

Think(e) ==
  /\ \E d \in Decisions(e) : Decide(e, d) /\ MoveTick(e, d.way, d.face)
  /\ Looks(e)

(* The call of ProcessControls in TimedProcessEntities: no step follows.   *)
ProcessControls ==
  /\ Ready(myself)
  /\ \E k \in Keys : \E d \in Controls(k) : Decide(myself, d)
  /\ Looks(myself)
  /\ UNCHANGED pos

(* Where b1 looks for an entity: one pixel further to the south and east.  *)
Touched(f) ==
  LET p == pos[myself]
  IN  CASE f = <<0, -1>> -> <<p[1] + HotW \div 2, p[2] - 1>>
        [] f = <<0, 1>>  -> <<p[1] + HotW \div 2, p[2] + HotH + 1>>
        [] f = <<-1, 0>> -> <<p[1] - 1, p[2] + HotH \div 2>>
        [] f = <<1, 0>>  -> <<p[1] + HotW + 1, p[2] + HotH \div 2>>

(* Mutant: the entity is turned whether it walks or not.                   *)
ActivateWalking ==
  /\ Ready(myself)
  /\ \E k \in Keys :
       LET f == FaceHeld(k)
       IN  /\ EntityAt(Touched(f)) # {} /\ FirstFree(k) = {}
           /\ LET e == Min(EntityAt(Touched(f)))
              IN  /\ e \in Talking
                  /\ face' = [face EXCEPT ![myself] = f, ![e] = Times(-1, f)]
  /\ movecode' = [movecode EXCEPT ![myself] = Cleaned(@)]
  /\ UNCHANGED <<pos, way, mapVars, mapHist>>

(* The rest of ProcessControls: where no key moves the player, b1 makes    *)
(* the entity before it look back.                                         *)
Activate ==
  /\ Ready(myself)
  /\ \E k \in Keys :
       LET f == FaceHeld(k)
       IN  /\ EntityAt(Touched(f)) # {} /\ FirstFree(k) = {}
           /\ LET e == Min(EntityAt(Touched(f)))
              IN  /\ e \in Talking /\ Ready(e)
                  /\ face' = [face EXCEPT ![myself] = f, ![e] = Times(-1, f)]
  /\ movecode' = [movecode EXCEPT ![myself] = Cleaned(@)]
  /\ UNCHANGED <<pos, way, mapVars, mapHist>>

(* Mutant: the old waypoint is kept.                                       *)
SetMovementOnTheWay(e, code) ==
  /\ movecode' = [movecode EXCEPT ![e] = code]
  /\ UNCHANGED <<pos, way, face, mapVars, mapHist>>

(* SetMotionless, SetWanderZone, SetWanderBox and SetMoveScript stop the   *)
(* entity where it stands, called by a script at any time.                 *)
SetMovement(e, code) ==
  /\ movecode' = [movecode EXCEPT ![e] = code]
  /\ way' = [way EXCEPT ![e] = pos[e]]
  /\ UNCHANGED <<pos, face, mapVars, mapHist>>

(* A script sets entity.face.                                              *)
SetFace(e, f) ==
  /\ TurnsWalking \/ Ready(e)
  /\ face' = [face EXCEPT ![e] = f]
  /\ UNCHANGED <<pos, way, movecode, mapVars, mapHist>>

(* A script sets the obstruction or the zone of a tile, wherever entities  *)
(* are or go.                                                              *)
SetObs(t, c) ==
  /\ walls'  = IF c THEN walls \cup {t} ELSE walls \ {t}
  /\ raised' = IF c THEN raised \cup {t} ELSE raised
  /\ UNCHANGED <<entVars, zones, rezoned>>

SetZone(t, z) ==
  /\ zones'   = [zones EXCEPT ![t] = z]
  /\ rezoned' = [e \in Entities |-> rezoned[e] \cup {t}]
  /\ UNCHANGED <<entVars, walls, raised>>

ObsNext ==
  \/ \E e \in Entities : Think(e)
  \/ ProcessControls
  \/ Activate
  \/ \E e \in Entities : \E code \in Codes[e] : SetMovement(e, code)
  \/ \E e \in Turned, f \in Faces : SetFace(e, f)
  \/ \E t \in ObsTiles, c \in BOOLEAN : SetObs(t, c)
  \/ \E z \in ZoneTiles : SetZone(z[1], z[2])

ObsSpec == ObsInit /\ [][ObsNext]_obsVars

-----------------------------------------------------------------------------
(* Properties.                                                             *)

(* Every entity stands on the map, and goes to a place on the map, however *)
(* scripts change it.                                                      *)
ObsTypeOK ==
  /\ \A e \in Entities : OnMap(pos[e]) /\ OnMap(way[e])
  /\ face \in [Entities -> Faces]
  /\ movecode \in [Entities -> 0 .. 3]
  /\ walls \subseteq Tiles /\ zones \in [Tiles -> Nat]
  /\ raised \subseteq Tiles /\ rezoned \in [Entities -> SUBSET Tiles]

(* The pixels e covers after a step and did not cover before.              *)
Entered(e) == Covered(pos'[e]) \ Covered(pos[e])

(* "returns distance possible to move up to the first obstruction in the   *)
(* given direction": the player can be moved that far, pixel by pixel,     *)
(* onto free ground, and no further.                                       *)
FreeFor(d, n) ==
  \A m \in 1 .. n :
    \A p \in Covered(Plus(pos[myself], Times(m, d)))
             \ Covered(Plus(pos[myself], Times(m - 1, d))) : ~ ObstructAt(p)

DistanceIsMax ==
  myself \in Obstructable =>
    \A d \in Directions :
      LET n == MaxPlayerMove(d, playerstep)
      IN  FreeFor(d, n) /\ (n < playerstep => ~ FreeFor(d, n + 1))

(* Everybody stays on the map, and from each place reached the search gives*)
(* the player all of the free distance and no more.                        *)
ObsInv == ObsTypeOK /\ DistanceIsMax

(* The path is searched once and then walked: the keys never carry an      *)
(* obstructable player into a wall, however long ago the search was and    *)
(* whatever scripts and the other entities did since, but for a tile that a*)
(* script made a wall after the search: there is no other test.            *)
KeysKeepOffWalls ==
  [][ movecode[myself] # 3 /\ movecode'[myself] # 3 /\ myself \in Obstructable
        => \A p \in Entered(myself) : TileOf(p) \in Ground \cup raised' ]_obsVars

(* Move scripts that move the way they face.                               *)
Straight == \A s \in ScriptSteps : s.by # <<0, 0>> => s.face = Facing(s.by) /\ 0 \in {s.by[1], s.by[2]}

(* An obstructable entity other than the player never steps onto a wall or *)
(* another obstructing entity, whichever moves first: move_tick looks only *)
(* where the entity faces, and it always faces where it walks.             *)
StepsAreFree ==
  [][ Straight /\ ~ TurnsWalking =>
        \A e \in Obstructable \ {myself} : \A p \in Entered(e) : ~ ObstructAt(p) ]_obsVars

Inside(t) == \A i \in 1 .. 2 : BoxFrom[i] <= t[i] /\ t[i] <= BoxTo[i]

SameZone(t, u, changed) == zone(t) = zone(u) \/ {t, u} \cap changed # {}

(* Wanderers keep to the zone or the box they are in, also when a script   *)
(* made them wander in the middle of a step; a tile that a script gave     *)
(* another zone while they walked is excepted.                             *)
WanderersStayHome ==
  [][ \A e \in Entities :
        /\ movecode[e] = 1 /\ movecode'[e] = 1
             => SameZone(TileOf(pos[e]), TileOf(pos'[e]), rezoned'[e])
        /\ movecode[e] = 2 /\ movecode'[e] = 2 /\ Inside(TileOf(pos[e]))
             => Inside(TileOf(pos'[e])) ]_obsVars

=============================================================================
