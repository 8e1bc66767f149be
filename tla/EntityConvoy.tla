---------------------------- MODULE EntityConvoy ----------------------------
(***************************************************************************)
(* Where linked entities stand (verge/Source/g_entity.cpp).                *)
(*                                                                         *)
(* An entity that moves writes the place it leaves into path[0] and shifts *)
(* the older places up; the entity that stalks it is put on the oldest     *)
(* place, and in turn drags its own follower.  So a convoy should follow   *)
(* its head along the same track, each FOLLOWDISTANCE moves behind the     *)
(* next.  One coordinate stands for both (the code treats them alike), and *)
(* a place is counted in pixels.                                           *)
(*                                                                         *)
(* The links, and the calls that change them, are those of EntityLinks.    *)
(***************************************************************************)
EXTENDS EntityLinks, Sequences, SequencesExt

CONSTANTS
  FOLLOWDISTANCE,   \* length of path[]: how many moves a stalker lags behind
  MapSize,          \* bound on the places of the map
  Movements,        \* the movement codes scripts set
  Players,          \* bound: the entities scripts make the player
  TailJoinsOnly     \* scripts link only entities without followers, and place
                    \* only entities that stalk nobody

ASSUME ConvoyAssumption ==
  /\ FOLLOWDISTANCE \in Nat \ {0}
  /\ MapSize \in Nat \ {0}
  /\ Movements \subseteq 0 .. 3
  /\ TailJoinsOnly \in BOOLEAN

Places == 0 .. (MapSize - 1)

VARIABLES
  pos,    \* x / 65536
  way,    \* the waypoint
  path    \* pathx: the places left by the last moves, youngest first

placeVars  == <<pos, way, path>>
convoyVars == <<linkVars, placeVars>>

Standing(p) == [i \in 1 .. FOLLOWDISTANCE |-> p]
Oldest(p)   == p[FOLLOWDISTANCE]

-----------------------------------------------------------------------------
(* The chain of entities dragged when e moves, e first.  No longer than    *)
(* the map has entities, RecursionTerminates being kept.                   *)
Chain(e) ==
  LET c[n \in 0 .. MaxEntities] ==
        IF n = 0 THEN <<e>>
        ELSE LET next == follower[Last(c[n - 1])]
             IN  IF next = NULL THEN c[n - 1] ELSE Append(c[n - 1], next)
  IN  c[MaxEntities - 1]

sgn(n) == IF n > 0 THEN 1 ELSE IF n < 0 THEN -1 ELSE 0

(* The track e leaves, and the pixel towards its waypoint.                 *)
Shifted(at, e) == [at.path EXCEPT ![e] = <<at.pos[e]>> \o Front(@)]
Forward(at, e) == at.pos[e] + sgn(at.way[e] - at.pos[e])

Put(at, e, place, track) ==
  [pos  |-> [at.pos EXCEPT ![e] = place],
   way  |-> IF follow[e] # NULL THEN [at.way EXCEPT ![e] = place] ELSE at.way,
   path |-> track]

(* Mutants: a follower takes its leader's place before the leader's track  *)
(* is shifted; its waypoint is left where it was.                          *)
DraggedEarly(at, e) ==
  Put(at, e, IF follow[e] # NULL THEN Oldest(path[follow[e]]) ELSE Forward(at, e),
      Shifted(at, e))

DraggedNoWaypoint(at, e) ==
  LET track == Shifted(at, e)
  IN  [Put(at, e, IF follow[e] # NULL THEN Oldest(track[follow[e]]) ELSE Forward(at, e), track)
         EXCEPT !.way = at.way]

(* move_tick for one entity of the chain: `at' holds the places the        *)
(* entities before it in the chain have reached.                           *)
Dragged(at, e) ==
  LET track == Shifted(at, e)
  IN  Put(at, e, IF follow[e] # NULL THEN Oldest(track[follow[e]]) ELSE Forward(at, e), track)

(* move_tick of e, on its way to w, drags the whole chain.                 *)
MoveTick(e, w) ==
  LET chain == Chain(e)
      after[n \in 0 .. Len(chain)] ==
        IF n = 0 THEN [pos |-> pos, way |-> [way EXCEPT ![e] = w], path |-> path]
        ELSE Dragged(after[n - 1], chain[n])
      end == after[Len(chain)]
  IN  pos' = end.pos /\ way' = end.way /\ path' = end.path

(* setxy places e, and every entity e drags, on p.                         *)
PlacedAt(e, p) ==
  LET all == ToSet(Chain(e))
  IN  /\ pos'  = [x \in Slots |-> IF x \in all THEN p ELSE pos[x]]
      /\ way'  = [x \in Slots |-> IF x \in all THEN p ELSE way[x]]
      /\ path' = [x \in Slots |-> IF x \in all THEN Standing(p) ELSE path[x]]

-----------------------------------------------------------------------------
(* Calls of the script.                                                    *)

ConvoyInit ==
  /\ LinksInit
  /\ pos  = [e \in Slots |-> 0]
  /\ way  = [e \in Slots |-> 0]
  /\ path = [e \in Slots |-> Standing(0)]

SpawnAt(p) ==
  /\ running /\ AllocateEntity
  /\ pos'  = [pos  EXCEPT ![entities] = p]
  /\ way'  = [way  EXCEPT ![entities] = p]
  /\ path' = [path EXCEPT ![entities] = Standing(p)]

(* Mutant: an entity placed by hand forgets whom it stalks.                *)
SetXYUnlinks(e, p) ==
  /\ PlacedAt(e, p)
  /\ follow' = [follow EXCEPT ![e] = NULL]
  /\ UNCHANGED <<entities, follower, movecode, myself, running>>

(* The script's entity.x and entity.y.                                     *)
SetXY(e, p) ==
  /\ TailJoinsOnly => follow[e] = NULL
  /\ PlacedAt(e, p)
  /\ UNCHANGED linkVars

(* Mutant: the stalker keeps its own track.                                *)
StalkOffTrack(f, e) ==
  /\ EntityStalk(f, e)
  /\ IF e \in Live
     THEN LET p == Oldest(path[e])
          IN  /\ TailJoinsOnly => follower[f] = NULL
              /\ pos'  = [pos  EXCEPT ![f] = p]
              /\ way'  = [way  EXCEPT ![f] = p]
              /\ path' = path
     ELSE UNCHANGED placeVars

(* stalk puts the stalker on the leader's oldest place; the stalker's own  *)
(* followers stay where they are.                                          *)
StalkAndJoin(f, e) ==
  /\ EntityStalk(f, e)
  /\ IF e \in Live
     THEN LET p == Oldest(path[e])
          IN  /\ TailJoinsOnly => follower[f] = NULL
              /\ pos'  = [pos  EXCEPT ![f] = p]
              /\ way'  = [way  EXCEPT ![f] = p]
              /\ path' = [path EXCEPT ![f] = Standing(p)]
     ELSE UNCHANGED placeVars

(* EntityStop, EntitySetWanderZone, EntitySetWanderRect and EntityMove     *)
(* stop e where it stands.                                                 *)
StopAndSet(e, code) ==
  /\ SetMovement(e, code) /\ UNCHANGED <<entities, myself, running>>
  /\ way' = [way EXCEPT ![e] = pos[e]]
  /\ UNCHANGED <<pos, path>>

BecomePlayer(e) ==
  /\ SetPlayer(e)
  /\ way' = IF e \in Live THEN [way EXCEPT ![e] = pos[e]] ELSE way
  /\ UNCHANGED <<pos, path>>

ConvoyLeaveMap ==
  /\ LeaveMap
  /\ pos'  = [e \in Slots |-> 0]
  /\ way'  = [e \in Slots |-> 0]
  /\ path' = [e \in Slots |-> Standing(0)]

-----------------------------------------------------------------------------
(* One turn of the loop in think: a ready entity may be given a waypoint,  *)
(* by the player's controls, by wandering or by its move script; an entity *)
(* that is not ready moves, unless an obstruction stops it, which only     *)
(* entities other than the player and the stalkers mind.                   *)
Ready(e) == pos[e] = way[e]

MayChooseWaypoint(e) == movecode[e] # 0 \/ e = myself

Tick(e, w) ==
  /\ IF Ready(e) THEN w = pos[e] \/ MayChooseWaypoint(e) ELSE w = way[e]
  /\ w # pos[e]
  /\ UNCHANGED linkVars
  /\ \/ MoveTick(e, w)
     \/ /\ e # myself /\ follow[e] = NULL    \* ObstructDirTick
        /\ way' = [way EXCEPT ![e] = w]
        /\ UNCHANGED <<pos, path>>

(* ProcessControls as TimedProcessEntities calls it, after ProcessEntities *)
(* and outside of think: the player, once ready, loses its move script and *)
(* is given the waypoint of the keys held, and moves in a later turn.      *)
PlayerControls(w) ==
  /\ myself # NULL /\ Ready(myself)
  /\ IF movecode[myself] = 3 THEN PlayerEntityMoveCleanup ELSE UNCHANGED linkVars
  /\ way' = [way EXCEPT ![myself] = w]
  /\ UNCHANGED <<pos, path>>

ConvoyNext ==
  \/ \E p \in Places : SpawnAt(p)
  \/ \E f \in Live, e \in Live \cup {NULL} : StalkAndJoin(f, e)
  \/ running /\ \E e \in Live, p \in Places : SetXY(e, p) \/ Tick(e, p)
  \/ running /\ \E e \in Live, code \in Movements : StopAndSet(e, code)
  \/ running /\ \E e \in Live : MoveScriptEnds(e) /\ Ready(e) /\ UNCHANGED placeVars
  \/ running /\ \E e \in (Players \cap Live) \cup {NULL} : BecomePlayer(e)
  \/ running /\ \E w \in Places : PlayerControls(w)
  \/ running /\ ConvoyLeaveMap

ConvoySpec == ConvoyInit /\ [][ConvoyNext]_convoyVars

-----------------------------------------------------------------------------
(* Properties.                                                             *)

(* Every entity has its FOLLOWDISTANCE places and stands on the map.       *)
ConvoyTypeOK ==
  /\ LinksTypeOK
  /\ pos  \in [Slots -> Places]
  /\ way  \in [Slots -> Places]
  /\ path \in [Slots -> [1 .. FOLLOWDISTANCE -> Places]]

(* In a convoy joined at its tail, each stalker stands exactly where its   *)
(* leader stood FOLLOWDISTANCE of the leader's moves ago.                  *)
ConvoyInPlace == \A e \in Live : follow[e] # NULL => pos[e] = Oldest(path[follow[e]])

Adjacent(p, q) == p - q \in -1 .. 1

(* The places an entity remembers form a track without gaps that ends      *)
(* where it stands.                                                        *)
TrackUnbroken ==
  \A e \in Live :
    /\ Adjacent(pos[e], path[e][1])
    /\ \A i \in 1 .. (FOLLOWDISTANCE - 1) : Adjacent(path[e][i], path[e][i + 1])

(* A convoy joined at its tail: every member on the map, in its place behind*)
(* its leader, with an unbroken track behind it.                           *)
ConvoyInv == ConvoyTypeOK /\ ConvoyInPlace /\ TrackUnbroken

(* Nobody jumps: an entity not placed anew, by setxy or stalk, moves by a  *)
(* pixel at most.                                                          *)
NoJump ==
  [][ entities' >= entities =>
        \A e \in Live : Adjacent(pos'[e], pos[e]) \/ path'[e] = Standing(pos'[e]) ]_convoyVars

(* Whatever moves or places a stalker leaves it on its waypoint: only the  *)
(* controls, of a player that stalks, take one off the place where it      *)
(* stands, and nobody else leaves it there.  So a stalker never walks away *)
(* by itself, and ready() and leaderidle() come true with the next move.   *)
StalkersKeptAtWaypoint ==
  [][ \A e \in Slots :
        follow'[e] # NULL /\ way'[e] # pos'[e] =>
          /\ pos'[e] = pos[e] /\ path'[e] = path[e]
          /\ e = myself \/ way[e] # pos[e] ]_convoyVars

(* While the two pointers of each link agree, every move puts the convoy   *)
(* in place again, whatever scripts did to its members before: an entity   *)
(* dragged in a step, one whose path was shifted, ends it on the oldest    *)
(* place of the entity it stalks.                                          *)
MoveRestoresOrder ==
  [][ LinksAgree /\ entities' >= entities =>
        \A e \in Live :
           follow[e] # NULL /\ path'[e] # path[e] /\ path'[e] # Standing(pos'[e])
             => pos'[e] = Oldest(path'[follow[e]]) ]_convoyVars

(* Whatever moves or places entities, the links change by the calls of     *)
(* EntityLinks only: what is shown of the links there holds of convoys.    *)
LinksKept == LinksSpec

=============================================================================
