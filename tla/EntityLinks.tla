---------------------------- MODULE EntityLinks ----------------------------
(***************************************************************************)
(* Who follows whom among the entities of the current map                  *)
(* (verge/Source/g_entity.cpp, g_script.cpp, g_engine.cpp).                *)
(*                                                                         *)
(* Every Entity holds two pointers: `follow', the entity it stalks, and    *)
(* `follower', the one entity that is told to move when it moves.  The     *)
(* pointers are kept by stalk() and clear_stalk() only; setxy, setspeed,   *)
(* move_tick and set_framect_follow recurse along `follower', leaderidle   *)
(* and get_leader_framect along `follow'.  `movecode' says how an entity   *)
(* moves by itself: 0 not at all (or by the player's controls), 1 and 2    *)
(* wandering, 3 by a move script.                                          *)
(*                                                                         *)
(* Positions are added by module EntityConvoy.                             *)
(***************************************************************************)
EXTENDS Integers

CONSTANTS
  MaxEntities,     \* bound on the entities of a map (the array entity[] has 256)
  RestalkAllowed   \* may a script link entities whose link ends are in use?

ASSUME LinksAssumption ==
  /\ MaxEntities \in Nat \ {0}
  /\ RestalkAllowed \in BOOLEAN

Slots == 0 .. (MaxEntities - 1)
NULL  == -1

VARIABLES
  entities,   \* number of entities on the map
  follow,     \* the entity each entity stalks, or NULL
  follower,   \* the entity each entity drags along, or NULL
  movecode,   \* how each entity moves by itself
  myself,     \* the player's entity, or NULL
  running     \* FALSE once a recursion along the links overflowed the stack

linkVars == <<entities, follow, follower, movecode, myself, running>>

Live == 0 .. (entities - 1)

(***************************************************************************)
(* A walk along `link' from e never reaches NULL exactly when e lies in a  *)
(* set of entities that no link leaves.                                    *)
(***************************************************************************)
Diverges(link, e) ==
  \E S \in SUBSET Slots : e \in S /\ \A x \in S : link[x] \in S

-----------------------------------------------------------------------------
(* The links as the script's calls change them.                            *)

LinksInit ==
  /\ entities = 0
  /\ follow   = [e \in Slots |-> NULL]
  /\ follower = [e \in Slots |-> NULL]
  /\ movecode = [e \in Slots |-> 0]
  /\ myself   = NULL
  /\ running  = TRUE

(* AllocateEntity, called by the map loader and by EntitySpawn.            *)
AllocateEntity ==
  /\ entities < MaxEntities
  /\ entities' = entities + 1
  /\ follow'   = [follow EXCEPT ![entities] = NULL]
  /\ follower' = [follower EXCEPT ![entities] = NULL]
  /\ movecode' = [movecode EXCEPT ![entities] = 0]
  /\ UNCHANGED <<myself, running>>

(* Mutant: the closing walk follows only `follow'.                         *)
StalkWalksOneWay(f, e) ==
  /\ follow'   = [follow EXCEPT ![f] = e]
  /\ follower' = [follower EXCEPT ![e] = f]
  /\ movecode' = [movecode EXCEPT ![f] = 0]
  /\ running'  = ~ Diverges(follow', f)
  /\ UNCHANGED <<entities, myself>>

(* f stalks e.  The old partners of f and of e are not told.  The last     *)
(* statement walks `follow' and then `follower' from f, so a cycle through *)
(* f ends the process.                                                     *)
Stalk(f, e) ==
  /\ follow'   = [follow EXCEPT ![f] = e]
  /\ follower' = [follower EXCEPT ![e] = f]
  /\ movecode' = [movecode EXCEPT ![f] = 0]
  /\ running'  = ~ (Diverges(follow', f) \/ Diverges(follower', f))
  /\ UNCHANGED <<entities, myself>>

(* Mutant: clear_stalk forgets the leader's pointer.                       *)
ClearStalkOneEnd(f) ==
  /\ follow'   = [follow EXCEPT ![f] = NULL]
  /\ follower' = follower

(* clear_stalk empties the leader's pointer whoever it names.              *)
ClearStalk(f) ==
  /\ follow'   = [follow EXCEPT ![f] = NULL]
  /\ follower' = IF follow[f] = NULL
                 THEN follower
                 ELSE [follower EXCEPT ![follow[f]] = NULL]

(* Mutant: the chain is not left.                                          *)
SetMovementStalking(e, code) ==
  /\ UNCHANGED <<follow, follower>>
  /\ movecode' = [movecode EXCEPT ![e] = code]

(* SetMotionless (0), SetWanderZone (1), SetWanderBox (2), SetMoveScript   *)
(* (3): each leaves the chain first.                                       *)
SetMovement(e, code) ==
  /\ ClearStalk(e)
  /\ movecode' = [movecode EXCEPT ![e] = code]

EntityStalk(stalker, stalkee) ==
  /\ running /\ stalker \in Live
  /\ IF stalkee \in Live
     THEN /\ RestalkAllowed \/ (follow[stalker] = NULL /\ follower[stalkee] = NULL)
          /\ Stalk(stalker, stalkee)
     ELSE /\ ClearStalk(stalker)
          /\ UNCHANGED <<entities, movecode, myself, running>>

EntitySpawn == running /\ AllocateEntity

EntityStop(e)          == SetMovement(e, 0) /\ UNCHANGED <<entities, myself, running>>
EntitySetWanderZone(e) == SetMovement(e, 1) /\ UNCHANGED <<entities, myself, running>>
EntitySetWanderRect(e) == SetMovement(e, 2) /\ UNCHANGED <<entities, myself, running>>
EntityMove(e)          == SetMovement(e, 3) /\ UNCHANGED <<entities, myself, running>>

SetPlayer(e) ==
  IF e \in Live
  THEN /\ myself' = e
       /\ SetMovement(e, 0)
       /\ UNCHANGED <<entities, running>>
  ELSE /\ myself' = NULL
       /\ UNCHANGED <<entities, follow, follower, movecode, running>>

(* do_movescript reaches 'H' or the end of the string.                     *)
MoveScriptEnds(e) ==
  /\ movecode[e] = 3
  /\ movecode' = [movecode EXCEPT ![e] = 0]
  /\ UNCHANGED <<entities, follow, follower, myself, running>>

(* ProcessControls, when the player's script-driven entity is ready, and   *)
(* PlayerMove, when its loop ends.                                         *)
PlayerEntityMoveCleanup ==
  /\ myself # NULL
  /\ movecode[myself] = 3
  /\ movecode' = [movecode EXCEPT ![myself] = 0]
  /\ UNCHANGED <<entities, follow, follower, myself, running>>

(* Mutant: the player survives the map.                                    *)
LeaveMapKeepsPlayer ==
  /\ entities' = 0
  /\ follow'   = [e \in Slots |-> NULL]
  /\ follower' = [e \in Slots |-> NULL]
  /\ movecode' = [e \in Slots |-> 0]
  /\ UNCHANGED <<myself, running>>

(* ~MAP deletes every entity; Engine_Start resets the player.              *)
LeaveMap ==
  /\ entities' = 0
  /\ follow'   = [e \in Slots |-> NULL]
  /\ follower' = [e \in Slots |-> NULL]
  /\ movecode' = [e \in Slots |-> 0]
  /\ myself'   = NULL
  /\ UNCHANGED running

LinksNext ==
  \/ EntitySpawn
  \/ \E f \in Live, e \in Live \cup {NULL} : EntityStalk(f, e)
  \/ running /\ \E e \in Live : \/ EntityStop(e)
                                \/ EntitySetWanderZone(e)
                                \/ EntitySetWanderRect(e)
                                \/ EntityMove(e)
                                \/ MoveScriptEnds(e)
  \/ running /\ \E e \in Live \cup {NULL} : SetPlayer(e)
  \/ running /\ PlayerEntityMoveCleanup
  \/ running /\ LeaveMap

LinksSpec == LinksInit /\ [][LinksNext]_linkVars

-----------------------------------------------------------------------------
(* Properties.                                                             *)

(* An entity's leader, its follower and the player are slots that exist.   *)
LinksTypeOK ==
  /\ entities \in 0 .. MaxEntities
  /\ follow   \in [Slots -> Slots \cup {NULL}]
  /\ follower \in [Slots -> Slots \cup {NULL}]
  /\ movecode \in [Slots -> 0 .. 3]
  /\ myself   \in Slots \cup {NULL}
  /\ running  \in BOOLEAN

(* No pointer of an entity, and not the player's, names a deleted entity.  *)
NoDanglingLink ==
  /\ \A e \in Live : {follow[e], follower[e]} \subseteq Live \cup {NULL}
  /\ myself \in Live \cup {NULL}

(* As long as the process lives, every recursion along either pointer, at  *)
(* any entity, ends: stalk() itself overflows on every link that would     *)
(* close a cycle, so setxy, setspeed, move_tick and leaderidle, called     *)
(* later, never do.                                                        *)
RecursionTerminates ==
  running => \A e \in Slots : ~ Diverges(follow, e) /\ ~ Diverges(follower, e)

(* An entity that stalks another has no movement of its own: clear_stalk   *)
(* is called wherever a movecode other than 0 is set, and stalk sets 0.    *)
StalkExcludesOwnMotion ==
  \A e \in Slots : follow[e] # NULL => movecode[e] = 0

(* The two pointers of a link always agree: nobody is dragged by an entity *)
(* it does not stalk, and nobody stalks an entity that does not drag it.   *)
LinksAgree ==
  \A e, f \in Slots : follow[f] = e <=> follower[e] = f

(* "ensure we are not trying to stalk at the same time": an entity that    *)
(* wanders or runs a script is not dragged along by anyone.                *)
SelfMovedIsNotDragged ==
  \A e, f \in Slots : movecode[f] # 0 => follower[e] # f

=============================================================================
