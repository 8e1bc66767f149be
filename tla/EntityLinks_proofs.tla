------------------------ MODULE EntityLinks_proofs -------------------------
(***************************************************************************)
(* Theorems about the links between entities, for any number of entities.  *)
(*                                                                         *)
(* The argument has three layers.  LinksInv says that the pointers are     *)
(* well typed and stay within the live entities; RecursionTerminates is    *)
(* inductive above it because a walk that never ends is a set no link      *)
(* leaves, and stalk() gives such a set up only through its own argument;  *)
(* LinksAgree is inductive above LinksInv when no link end is reused.      *)
(*                                                                         *)
(* A convoy implements these links, so that what is proved of them holds   *)
(* while entities move and are placed.                                     *)
(*                                                                         *)
(* The last part is about where the members of a convoy stand.  move_tick  *)
(* drags a chain by recursion, so its values are first shown to exist for  *)
(* every length (Recursion) and then described by induction along the      *)
(* chain: a march writes each track and waypoint once, in order.           *)
(***************************************************************************)
EXTENDS EntityConvoy, WellFoundedInduction, FiniteSetTheorems, TLAPS

(* The slots beyond the live entities carry no link.                       *)
DeadUnlinked ==
  \A e \in Slots \ Live : follow[e] = NULL /\ follower[e] = NULL /\ movecode[e] = 0

LinksInv == LinksTypeOK /\ NoDanglingLink /\ DeadUnlinked

-----------------------------------------------------------------------------
(* What every action leaves of the invariant.                              *)

LEMMA LiveInSlots == LinksTypeOK => Live \subseteq Slots /\ NULL \notin Live
BY LinksAssumption DEF LinksTypeOK, Live, Slots, NULL

LEMMA SpawnStep == LinksInv /\ EntitySpawn => LinksInv'
<1> SUFFICES ASSUME LinksInv, EntitySpawn PROVE LinksInv' OBVIOUS
<1> USE LinksAssumption DEF Slots, NULL, LinksInv
<1>1. LinksTypeOK'
  BY DEF LinksTypeOK, EntitySpawn, AllocateEntity
<1>2. entities \in Nat /\ entities < MaxEntities /\ Live' = Live \cup {entities}
  BY DEF LinksTypeOK, EntitySpawn, AllocateEntity, Live
<1>3. NoDanglingLink'
  BY <1>2 DEF NoDanglingLink, LinksTypeOK, EntitySpawn, AllocateEntity, Live
<1>4. DeadUnlinked'
  BY <1>2 DEF DeadUnlinked, LinksTypeOK, EntitySpawn, AllocateEntity, Live
<1>5. QED
  BY <1>1, <1>3, <1>4

LEMMA StalkStep ==
  ASSUME LinksInv, NEW f \in Live, NEW e \in Live \cup {NULL}, EntityStalk(f, e)
  PROVE  LinksInv'
<1> USE LinksAssumption DEF Slots, NULL
<1>1. f \in Slots /\ f # NULL
  BY DEF LinksInv, LinksTypeOK, Live
<1>2. entities' = entities /\ myself' = myself /\ Live' = Live
  BY DEF EntityStalk, Stalk, Live
<1>3. running' \in BOOLEAN
  BY Zenon DEF EntityStalk, Stalk, LinksInv, LinksTypeOK
<1>4. CASE e \in Live
  <2>1. /\ e \in Slots
        /\ follow'   = [follow EXCEPT ![f] = e]
        /\ follower' = [follower EXCEPT ![e] = f]
        /\ movecode' = [movecode EXCEPT ![f] = 0]
    BY <1>4 DEF EntityStalk, Stalk, LinksInv, LinksTypeOK, Live
  <2>2. LinksTypeOK'
    BY <1>1, <1>2, <1>3, <2>1 DEF LinksInv, LinksTypeOK
  <2>3. NoDanglingLink' /\ DeadUnlinked'
    BY <1>1, <1>2, <1>4, <2>1 DEF LinksInv, LinksTypeOK, NoDanglingLink, DeadUnlinked, Live
  <2>4. QED
    BY <2>2, <2>3 DEF LinksInv
<1>5. CASE e \notin Live
  <2>1. ClearStalk(f) /\ movecode' = movecode
    BY <1>5 DEF EntityStalk
  <2>2. LinksTypeOK'
    BY <1>1, <1>2, <1>3, <2>1 DEF LinksInv, LinksTypeOK, ClearStalk
  <2>3. NoDanglingLink' /\ DeadUnlinked'
    BY <1>1, <1>2, <2>1 DEF LinksInv, LinksTypeOK, NoDanglingLink, DeadUnlinked, ClearStalk, Live
  <2>4. QED
    BY <2>2, <2>3 DEF LinksInv
<1>6. QED
  BY <1>4, <1>5

LEMMA MovementStep ==
  ASSUME LinksInv, NEW e \in Live, NEW code \in 0 .. 3, SetMovement(e, code),
         UNCHANGED <<entities, running>>, myself' \in Live \cup {NULL}
  PROVE  LinksInv'
<1> USE LinksAssumption DEF Slots, NULL, LinksInv
<1>0. e \in Slots /\ Live' = Live
  BY DEF LinksTypeOK, Live
<1>1. LinksTypeOK'
  BY <1>0 DEF LinksTypeOK, SetMovement, ClearStalk, Live
<1>2. NoDanglingLink'
  BY <1>0 DEF NoDanglingLink, LinksTypeOK, SetMovement, ClearStalk, Live
<1>3. DeadUnlinked'
  BY <1>0 DEF DeadUnlinked, LinksTypeOK, SetMovement, ClearStalk, Live
<1>4. QED
  BY <1>1, <1>2, <1>3

LEMMA LinksInvStep == LinksInv /\ [LinksNext]_linkVars => LinksInv'
<1> SUFFICES ASSUME LinksInv, [LinksNext]_linkVars PROVE LinksInv'
  OBVIOUS
<1> USE LinksAssumption
<1>1. CASE EntitySpawn
  BY <1>1, SpawnStep
<1>2. ASSUME NEW f \in Live, NEW e \in Live \cup {NULL}, EntityStalk(f, e)
      PROVE  LinksInv'
  BY <1>2, StalkStep
<1>3. ASSUME NEW e \in Live, NEW code \in 0 .. 3,
             SetMovement(e, code), UNCHANGED <<entities, myself, running>>
      PROVE  LinksInv'
  <2>1. myself' \in Live \cup {NULL}
    BY <1>3 DEF LinksInv, NoDanglingLink
  <2>2. QED
    BY <1>3, <2>1, MovementStep
<1>4. ASSUME NEW e \in Live \cup {NULL}, SetPlayer(e)
      PROVE  LinksInv'
  <2>1. CASE e \in Live
    BY <1>4, <2>1, MovementStep DEF SetPlayer
  <2>2. CASE e \notin Live
    BY <1>4, <2>2 DEF SetPlayer, LinksInv, LinksTypeOK, NoDanglingLink, DeadUnlinked, Live, Slots, NULL
  <2>3. QED
    BY <2>1, <2>2
<1>5. ASSUME NEW e \in Live, MoveScriptEnds(e)
      PROVE  LinksInv'
  BY <1>5 DEF MoveScriptEnds, LinksInv, LinksTypeOK, NoDanglingLink, DeadUnlinked, Live, Slots
<1>6. CASE PlayerEntityMoveCleanup
  BY <1>6 DEF PlayerEntityMoveCleanup, LinksInv, LinksTypeOK, NoDanglingLink, DeadUnlinked,
              Live, Slots, NULL
<1>7. CASE LeaveMap
  BY <1>7 DEF LeaveMap, LinksInv, LinksTypeOK, NoDanglingLink, DeadUnlinked, Live, Slots, NULL
<1>8. CASE UNCHANGED linkVars
  BY <1>8 DEF linkVars, LinksInv, LinksTypeOK, NoDanglingLink, DeadUnlinked, Live
<1>9. QED
  BY <1>1, <1>2, <1>3, <1>4, <1>5, <1>6, <1>7, <1>8
  DEF LinksNext, EntityStop, EntitySetWanderZone, EntitySetWanderRect, EntityMove

LEMMA LinksInvAlways == LinksSpec => []LinksInv
<1>1. LinksInit => LinksInv
  BY LinksAssumption
  DEF LinksInit, LinksInv, LinksTypeOK, NoDanglingLink, DeadUnlinked, Live, Slots, NULL
<1>2. QED
  BY <1>1, LinksInvStep, PTL DEF LinksSpec

(* The links and the player's pointer are well typed and never name a      *)
(* deleted entity, on every map and through every change of map.           *)
THEOREM LinksSafe == LinksSpec => [](LinksTypeOK /\ NoDanglingLink)
<1>1. LinksInv => LinksTypeOK /\ NoDanglingLink
  BY DEF LinksInv
<1>2. QED
  BY <1>1, LinksInvAlways, PTL

-----------------------------------------------------------------------------
(* Recursion along the links.                                              *)

AllWalksEnd(link) == \A e \in Slots : ~ Diverges(link, e)

(* Redirecting one link makes a walk endless only if the walk from the     *)
(* redirected entity is.                                                   *)
LEMMA RedirectedWalk ==
  ASSUME NEW link, NEW f \in Slots, NEW e \in Slots,
         link \in [Slots -> Slots \cup {NULL}], AllWalksEnd(link),
         ~ Diverges([link EXCEPT ![f] = e], f)
  PROVE  AllWalksEnd([link EXCEPT ![f] = e])
<1> DEFINE new == [link EXCEPT ![f] = e]
<1> SUFFICES ASSUME NEW x \in Slots, NEW S \in SUBSET Slots, x \in S,
                    \A y \in S : new[y] \in S
             PROVE  FALSE
  BY DEF AllWalksEnd, Diverges
<1>1. CASE f \in S
  BY <1>1 DEF Diverges
<1>2. CASE f \notin S
  <2>1. \A y \in S : link[y] \in S
    BY <1>2
  <2>2. QED
    BY <2>1 DEF AllWalksEnd, Diverges
<1>3. QED
  BY <1>1, <1>2

(* Cutting a link makes no walk endless.                                   *)
LEMMA CutWalk ==
  ASSUME NEW link, NEW f \in Slots,
         link \in [Slots -> Slots \cup {NULL}], AllWalksEnd(link)
  PROVE  AllWalksEnd([link EXCEPT ![f] = NULL])
<1> DEFINE new == [link EXCEPT ![f] = NULL]
<1> SUFFICES ASSUME NEW x \in Slots, NEW S \in SUBSET Slots, x \in S,
                    \A y \in S : new[y] \in S
             PROVE  FALSE
  BY DEF AllWalksEnd, Diverges
<1>1. NULL \notin Slots
  BY LinksAssumption DEF Slots, NULL
<1>2. f \notin S
  BY <1>1
<1>3. \A y \in S : link[y] \in S
  BY <1>2
<1>4. QED
  BY <1>3 DEF AllWalksEnd, Diverges

LEMMA ClearStalkWalks ==
  ASSUME LinksTypeOK, NEW f \in Slots, ClearStalk(f),
         AllWalksEnd(follow), AllWalksEnd(follower)
  PROVE  AllWalksEnd(follow') /\ AllWalksEnd(follower')
<1>1. AllWalksEnd(follow')
  BY CutWalk DEF LinksTypeOK, ClearStalk
<1>2. CASE follow[f] = NULL
  BY <1>1, <1>2 DEF ClearStalk
<1>3. CASE follow[f] # NULL
  <2>1. follow[f] \in Slots
    BY <1>3 DEF LinksTypeOK
  <2>2. AllWalksEnd(follower')
    BY <1>3, <2>1, CutWalk DEF LinksTypeOK, ClearStalk
  <2>3. QED
    BY <1>1, <2>2
<1>4. QED
  BY <1>2, <1>3

LEMMA EmptyWalks == AllWalksEnd([e \in Slots |-> NULL])
<1> SUFFICES ASSUME NEW x \in Slots, NEW S \in SUBSET Slots, x \in S,
                    \A y \in S : [e \in Slots |-> NULL][y] \in S
             PROVE  FALSE
  BY DEF AllWalksEnd, Diverges
<1>1. NULL \in S /\ NULL \notin Slots
  BY LinksAssumption DEF Slots, NULL
<1>2. QED
  BY <1>1

WalksInv == running => AllWalksEnd(follow) /\ AllWalksEnd(follower)

(* What a step may be, with the four ways to set a movement taken together. *)
LEMMA StepCases ==
  ASSUME [LinksNext]_linkVars
  PROVE  \/ EntitySpawn
         \/ \E f \in Live, e \in Live \cup {NULL} : EntityStalk(f, e)
         \/ \E e \in Live, code \in 0 .. 3 : SetMovement(e, code)
         \/ \E e \in Live \cup {NULL} : SetPlayer(e)
         \/ \E e \in Live : MoveScriptEnds(e)
         \/ PlayerEntityMoveCleanup
         \/ LeaveMap
         \/ UNCHANGED linkVars
<1>1. ASSUME NEW e \in Live, \/ EntityStop(e) \/ EntitySetWanderZone(e)
                             \/ EntitySetWanderRect(e) \/ EntityMove(e)
      PROVE  \E code \in 0 .. 3 : SetMovement(e, code)
  <2>1. 0 \in 0 .. 3 /\ 1 \in 0 .. 3 /\ 2 \in 0 .. 3 /\ 3 \in 0 .. 3
    OBVIOUS
  <2>2. QED
    BY <1>1, <2>1, Zenon DEF EntityStop, EntitySetWanderZone, EntitySetWanderRect, EntityMove
<1>2. QED
  BY <1>1, Zenon DEF LinksNext

LEMMA WalksStep == LinksInv /\ WalksInv /\ [LinksNext]_linkVars => WalksInv'
<1>1. SUFFICES ASSUME LinksInv, WalksInv, [LinksNext]_linkVars, running'
               PROVE  AllWalksEnd(follow') /\ AllWalksEnd(follower')
  BY DEF WalksInv
<1>2. LinksTypeOK /\ Live \subseteq Slots
  BY <1>1, LiveInSlots DEF LinksInv
<1>3. AllWalksEnd(follow) /\ AllWalksEnd(follower)
  <2>1. running
    BY <1>1 DEF LinksNext, linkVars, EntitySpawn, EntityStalk
  <2>2. QED
    BY <1>1, <2>1 DEF WalksInv
<1>4. CASE EntitySpawn
  <2>1. entities \in Slots
    BY <1>2, <1>4, LinksAssumption DEF EntitySpawn, AllocateEntity, LinksTypeOK, Slots
  <2>2. QED
    BY <1>2, <1>3, <1>4, <2>1, CutWalk DEF EntitySpawn, AllocateEntity, LinksTypeOK
<1>5. ASSUME NEW f \in Live, NEW e \in Live \cup {NULL}, EntityStalk(f, e)
      PROVE  AllWalksEnd(follow') /\ AllWalksEnd(follower')
  <2>1. CASE e \in Live
    <3>1. e \in Slots /\ f \in Slots /\ Stalk(f, e)
      BY <1>2, <1>5, <2>1 DEF EntityStalk
    <3>2. ~ Diverges(follow', f) /\ ~ Diverges(follower', f)
      BY <1>1, <3>1, Zenon DEF Stalk
    <3>3. AllWalksEnd(follow')
      BY <1>2, <1>3, <3>1, <3>2, RedirectedWalk DEF Stalk, LinksTypeOK
    <3>4. ~ Diverges(follower', e)
      <4>1. SUFFICES ASSUME NEW S \in SUBSET Slots, e \in S, \A y \in S : follower'[y] \in S
                     PROVE  FALSE
        BY DEF Diverges
      <4>2. follower'[e] = f
        BY <1>2, <3>1 DEF Stalk, LinksTypeOK
      <4>3. QED
        BY <3>2, <4>1, <4>2 DEF Diverges
    <3>5. AllWalksEnd(follower')
      BY <1>2, <1>3, <3>1, <3>4, RedirectedWalk DEF Stalk, LinksTypeOK
    <3>6. QED
      BY <3>3, <3>5
  <2>2. CASE e \notin Live
    BY <1>2, <1>3, <1>5, <2>2, ClearStalkWalks DEF EntityStalk
  <2>3. QED
    BY <2>1, <2>2
<1>6. ASSUME NEW e \in Live, NEW code \in 0 .. 3, SetMovement(e, code)
      PROVE  AllWalksEnd(follow') /\ AllWalksEnd(follower')
  BY <1>2, <1>3, <1>6, ClearStalkWalks DEF SetMovement
<1>7. ASSUME NEW e \in Live \cup {NULL}, SetPlayer(e)
      PROVE  AllWalksEnd(follow') /\ AllWalksEnd(follower')
  <2>1. CASE e \in Live
    BY <1>6, <1>7, <2>1, 0 \in 0 .. 3 DEF SetPlayer
  <2>2. CASE e \notin Live
    BY <1>3, <1>7, <2>2 DEF SetPlayer
  <2>3. QED
    BY <2>1, <2>2
<1>8. CASE LeaveMap
  BY <1>8, EmptyWalks DEF LeaveMap
<1>9. CASE \/ \E e \in Live : MoveScriptEnds(e)
           \/ PlayerEntityMoveCleanup
           \/ UNCHANGED linkVars
  BY <1>3, <1>9 DEF MoveScriptEnds, PlayerEntityMoveCleanup, linkVars
<1>10. QED
  BY <1>1, <1>4, <1>5, <1>6, <1>7, <1>8, <1>9, StepCases, Zenon

(* While the process runs, every recursion along `follow' and along        *)
(* `follower' ends, whatever entities a script links and in which order.   *)
THEOREM RecursionEnds == LinksSpec => []RecursionTerminates
<1>1. LinksInit => WalksInv
  BY EmptyWalks DEF LinksInit, WalksInv
<1>2. WalksInv => RecursionTerminates
  BY DEF WalksInv, RecursionTerminates, AllWalksEnd
<1>3. QED
  BY <1>1, <1>2, WalksStep, LinksInvAlways, PTL DEF LinksSpec

-----------------------------------------------------------------------------
(* Stalking and moving by oneself exclude each other.                      *)

LEMMA ExclusionStep ==
  LinksInv /\ StalkExcludesOwnMotion /\ [LinksNext]_linkVars => StalkExcludesOwnMotion'
<1> SUFFICES ASSUME LinksInv, StalkExcludesOwnMotion, [LinksNext]_linkVars
             PROVE  StalkExcludesOwnMotion'
  OBVIOUS
<1> USE DEF StalkExcludesOwnMotion
<1>1. LinksTypeOK /\ Live \subseteq Slots
  BY LiveInSlots DEF LinksInv
<1>2. CASE EntitySpawn
  BY <1>1, <1>2 DEF EntitySpawn, AllocateEntity, LinksTypeOK
<1>3. ASSUME NEW f \in Live, NEW e \in Live \cup {NULL}, EntityStalk(f, e)
      PROVE  StalkExcludesOwnMotion'
  <2>1. CASE e \in Live
    <3>1. /\ follow' = [follow EXCEPT ![f] = e]
          /\ movecode' = [movecode EXCEPT ![f] = 0]
      BY <1>3, <2>1, Zenon DEF EntityStalk, Stalk
    <3>2. QED
      BY <1>1, <3>1 DEF LinksTypeOK
  <2>2. CASE e \notin Live
    BY <1>1, <1>3, <2>2 DEF EntityStalk, ClearStalk, LinksTypeOK
  <2>3. QED
    BY <2>1, <2>2
<1>4. ASSUME NEW e \in Live, NEW code \in 0 .. 3, SetMovement(e, code)
      PROVE  StalkExcludesOwnMotion'
  BY <1>1, <1>4 DEF SetMovement, ClearStalk, LinksTypeOK
<1>5. ASSUME NEW e \in Live \cup {NULL}, SetPlayer(e)
      PROVE  StalkExcludesOwnMotion'
  BY <1>4, <1>5 DEF SetPlayer
<1>6. CASE \/ \E e \in Live : MoveScriptEnds(e)
           \/ PlayerEntityMoveCleanup
           \/ LeaveMap
           \/ UNCHANGED linkVars
  BY <1>1, <1>6 DEF MoveScriptEnds, PlayerEntityMoveCleanup, LeaveMap, linkVars, LinksTypeOK
<1>7. QED
  BY <1>2, <1>3, <1>4, <1>5, <1>6
  DEF LinksNext, EntityStop, EntitySetWanderZone, EntitySetWanderRect, EntityMove

(* An entity that stalks another never wanders or runs a move script.      *)
THEOREM StalkersDoNotWander == LinksSpec => []StalkExcludesOwnMotion
<1>1. LinksInit => StalkExcludesOwnMotion
  BY DEF LinksInit, StalkExcludesOwnMotion
<1>2. QED
  BY <1>1, ExclusionStep, LinksInvAlways, PTL DEF LinksSpec

-----------------------------------------------------------------------------
(* When no link end is reused, the two pointers of every link agree.       *)

LEMMA AgreementStep ==
  ASSUME ~ RestalkAllowed, LinksInv, LinksAgree, [LinksNext]_linkVars
  PROVE  LinksAgree'
<1> USE DEF LinksAgree
<1>0. NULL \notin Slots
  BY LinksAssumption DEF Slots, NULL
<1>1. LinksTypeOK /\ Live \subseteq Slots
  BY LiveInSlots DEF LinksInv
<1>2. CASE EntitySpawn
  <2>1. entities \in Slots /\ follow[entities] = NULL /\ follower[entities] = NULL
    BY <1>1, <1>2, LinksAssumption
    DEF EntitySpawn, AllocateEntity, LinksTypeOK, LinksInv, DeadUnlinked, Live, Slots
  <2>2. follow' = follow /\ follower' = follower
    BY <1>1, <1>2, <2>1 DEF EntitySpawn, AllocateEntity, LinksTypeOK
  <2>3. QED
    BY <2>2
<1>3. ASSUME NEW f \in Slots, ClearStalk(f)
      PROVE  LinksAgree'
  <2>1. CASE follow[f] = NULL
    BY <1>0, <1>1, <1>3, <2>1 DEF ClearStalk, LinksTypeOK
  <2>2. CASE follow[f] # NULL
    BY <1>0, <1>1, <1>3, <2>2 DEF ClearStalk, LinksTypeOK
  <2>3. QED
    BY <2>1, <2>2
<1>4. ASSUME NEW f \in Live, NEW e \in Live \cup {NULL}, EntityStalk(f, e)
      PROVE  LinksAgree'
  <2>1. CASE e \in Live
    <3>1. /\ f \in Slots /\ e \in Slots
          /\ follow[f] = NULL /\ follower[e] = NULL
          /\ follow' = [follow EXCEPT ![f] = e]
          /\ follower' = [follower EXCEPT ![e] = f]
      BY <1>1, <1>4, <2>1, Zenon DEF EntityStalk, Stalk
    <3>2. QED
      BY <1>0, <1>1, <3>1 DEF LinksTypeOK
  <2>2. CASE e \notin Live
    BY <1>1, <1>3, <1>4, <2>2 DEF EntityStalk
  <2>3. QED
    BY <2>1, <2>2
<1>5. ASSUME NEW e \in Live, NEW code \in 0 .. 3, SetMovement(e, code)
      PROVE  LinksAgree'
  BY <1>1, <1>3, <1>5 DEF SetMovement
<1>6. ASSUME NEW e \in Live \cup {NULL}, SetPlayer(e)
      PROVE  LinksAgree'
  BY <1>5, <1>6 DEF SetPlayer
<1>7. CASE \/ \E e \in Live : MoveScriptEnds(e)
           \/ PlayerEntityMoveCleanup
           \/ UNCHANGED linkVars
  BY <1>7 DEF MoveScriptEnds, PlayerEntityMoveCleanup, linkVars
<1>8. CASE LeaveMap
  BY <1>0, <1>8 DEF LeaveMap
<1>9. QED
  BY <1>2, <1>4, <1>5, <1>6, <1>7, <1>8
  DEF LinksNext, EntityStop, EntitySetWanderZone, EntitySetWanderRect, EntityMove

(* Scripts that only link entities whose link ends are free keep the two   *)
(* pointers of every link in agreement.                                    *)
THEOREM SingleLinksAgree == ~ RestalkAllowed /\ LinksSpec => []LinksAgree
<1>1. LinksInit => LinksAgree
  BY LinksAssumption DEF LinksInit, LinksAgree, Slots, NULL
<1>2. ~ RestalkAllowed => (LinksInv /\ LinksAgree /\ [LinksNext]_linkVars => LinksAgree')
  BY AgreementStep
<1>3. CASE RestalkAllowed
  BY <1>3
<1>4. CASE ~ RestalkAllowed
  <2>1. LinksInv /\ LinksAgree /\ [LinksNext]_linkVars => LinksAgree'
    BY <1>2, <1>4
  <2>2. QED
    BY <1>1, <2>1, LinksInvAlways, PTL DEF LinksSpec
<1>5. QED
  BY <1>3, <1>4

(* For such scripts nobody drags an entity that wanders or runs a script,  *)
(* which is what clear_stalk is there to ensure.                           *)
THEOREM SingleLinksNotDragged == ~ RestalkAllowed /\ LinksSpec => []SelfMovedIsNotDragged
<1>1. LinksAgree /\ StalkExcludesOwnMotion => SelfMovedIsNotDragged
  BY LinksAssumption DEF LinksAgree, StalkExcludesOwnMotion, SelfMovedIsNotDragged, Slots, NULL
<1>2. QED
  BY <1>1, SingleLinksAgree, StalkersDoNotWander, PTL

-----------------------------------------------------------------------------
(* Convoys.                                                                *)

(* Every step of a convoy is a step of the links or leaves them alone:     *)
(* move_tick and setxy (g_entity.cpp) read the links and write none.       *)
LEMMA ConvoyStepKeepsLinks == [ConvoyNext]_convoyVars => [LinksNext]_linkVars
<1> SUFFICES ASSUME [ConvoyNext]_convoyVars PROVE [LinksNext]_linkVars
  OBVIOUS
<1>1. CASE UNCHANGED convoyVars
  BY <1>1 DEF convoyVars
<1>2. CASE \E p \in Places : SpawnAt(p)
  BY <1>2 DEF SpawnAt, LinksNext, EntitySpawn
<1>3. CASE \E f \in Live, e \in Live \cup {NULL} : StalkAndJoin(f, e)
  BY <1>3 DEF StalkAndJoin, LinksNext
<1>4. CASE running /\ \E e \in Live, p \in Places : SetXY(e, p) \/ Tick(e, p)
  BY <1>4 DEF SetXY, Tick
<1>5. CASE running /\ \E e \in Live, code \in Movements : StopAndSet(e, code)
  <2>1. PICK e \in Live, code \in Movements : StopAndSet(e, code)
    BY <1>5
  <2>2. running /\ code \in 0 .. 3
    BY <1>5, ConvoyAssumption
  <2>3. code = 0 \/ code = 1 \/ code = 2 \/ code = 3
    BY <2>2
  <2>4. SetMovement(e, code) /\ UNCHANGED <<entities, myself, running>>
    BY <2>1 DEF StopAndSet
  <2>5. EntityStop(e) \/ EntitySetWanderZone(e) \/ EntitySetWanderRect(e) \/ EntityMove(e)
    BY <2>3, <2>4 DEF EntityStop, EntitySetWanderZone, EntitySetWanderRect, EntityMove
  <2> QED
    BY <2>2, <2>5 DEF LinksNext
<1>6. CASE running /\ \E e \in Live : MoveScriptEnds(e) /\ Ready(e) /\ UNCHANGED placeVars
  BY <1>6 DEF LinksNext
<1>7. CASE running /\ \E e \in (Players \cap Live) \cup {NULL} : BecomePlayer(e)
  BY <1>7 DEF BecomePlayer, LinksNext
<1>8. CASE running /\ \E w \in Places : PlayerControls(w)
  BY <1>8 DEF PlayerControls, LinksNext
<1>9. CASE running /\ ConvoyLeaveMap
  BY <1>9 DEF ConvoyLeaveMap, LinksNext
<1> QED
  BY <1>1, <1>2, <1>3, <1>4, <1>5, <1>6, <1>7, <1>8, <1>9 DEF ConvoyNext

(* Convoys keep to the calls of EntityLinks.                               *)
THEOREM ConvoysKeepLinks == ConvoySpec => LinksKept
<1>1. ConvoyInit => LinksInit
  BY DEF ConvoyInit
<1> QED
  BY <1>1, ConvoyStepKeepsLinks, PTL DEF ConvoySpec, LinksSpec, LinksKept

(* No pointer of a member of a convoy dangles, and while the process lives *)
(* every recursion of move_tick and setxy along a convoy ends, for any     *)
(* number of entities, any path length and any order of calls and moves.   *)
THEOREM ConvoysSafe == ConvoySpec => [](NoDanglingLink /\ RecursionTerminates)
<1>1. LinksSpec => [](LinksTypeOK /\ NoDanglingLink)
  BY LinksSafe
<1>2. LinksSpec => []RecursionTerminates
  BY RecursionEnds
<1> QED
  BY ConvoysKeepLinks, <1>1, <1>2, PTL DEF LinksKept

-----------------------------------------------------------------------------
(* Induction, and recursions that have a value.                            *)

(* A set that holds 0, and with each number the next, holds them all.      *)
LEMMA Induction ==
  ASSUME NEW D \in Nat, NEW S, 0 \in S, \A n \in 1 .. D : n - 1 \in S => n \in S
  PROVE  \A n \in 0 .. D : n \in S
<1> SUFFICES ASSUME NEW m \in 0 .. D, m \notin S PROVE FALSE
  OBVIOUS
<1> DEFINE R == OpToRel(<, Nat)
           Missing == {n \in 0 .. D : n \notin S}
<1>1. IsWellFoundedOn(R, Nat)
  BY NatLessThanWellFounded
<1>2. Missing \subseteq Nat /\ Missing # {}
  OBVIOUS
<1>3. PICK n \in Missing : \A y \in Missing : ~ (<<y, n>> \in R)
  BY <1>1, <1>2, WFMin
<1>4. \A y \in Missing : ~ (y < n)
  BY <1>2, <1>3 DEF OpToRel
<1>5. n \in 1 .. D
  OBVIOUS
<1>6. n - 1 \notin S /\ n - 1 \in 0 .. D
  BY <1>5
<1> QED
  BY <1>4, <1>6

(* g holds the values of a recursion that starts at a and takes D steps.   *)
Iterates(g, D, a, step) == g[0] = a /\ \A n \in 1 .. D : g[n] = step[n][g[n - 1]]

(* A recursion that never leaves X has a value at each of its steps.       *)
LEMMA Recursion ==
  ASSUME NEW D \in Nat, NEW X, NEW a \in X, NEW step,
         \A n \in 1 .. D, x \in X : step[n][x] \in X
  PROVE  \E g \in [0 .. D -> X] : Iterates(g, D, a, step)
<1> DEFINE S == {m \in 0 .. D : \E g \in [0 .. m -> X] : Iterates(g, m, a, step)}
<1>1. 0 \in S
  <2> DEFINE g == [n \in 0 .. 0 |-> a]
  <2>1. g \in [0 .. 0 -> X] /\ Iterates(g, 0, a, step)
    BY DEF Iterates
  <2>2. \E h \in [0 .. 0 -> X] : Iterates(h, 0, a, step)
    BY <2>1
  <2> QED
    BY <2>2
<1>2. ASSUME NEW m \in 1 .. D, m - 1 \in S
      PROVE  m \in S
  <2>1. PICK g \in [0 .. (m - 1) -> X] : Iterates(g, m - 1, a, step)
    BY <1>2
  <2> DEFINE h == [n \in 0 .. m |-> IF n = m THEN step[m][g[m - 1]] ELSE g[n]]
  <2>2. step[m][g[m - 1]] \in X
    BY <1>2
  <2>3. h \in [0 .. m -> X]
    BY <1>2, <2>2
  <2>4. h[0] = a
    BY <1>2, <2>1 DEF Iterates
  <2>5. ASSUME NEW n \in 1 .. m
        PROVE  h[n] = step[n][h[n - 1]]
    <3>1. CASE n = m
      BY <1>2, <3>1
    <3>2. CASE n # m
      <4>1. n \in 1 .. (m - 1) /\ n \in 0 .. m /\ n - 1 \in 0 .. m /\ n - 1 # m
        BY <1>2, <2>5, <3>2
      <4>2. g[n] = step[n][g[n - 1]]
        BY <2>1, <4>1 DEF Iterates
      <4> QED
        BY <3>2, <4>1, <4>2
    <3> QED
      BY <3>1, <3>2
  <2>6. m \in 0 .. D
    BY <1>2
  <2> HIDE DEF h
  <2>7. Iterates(h, m, a, step)
    BY <2>4, <2>5 DEF Iterates
  <2> QED
    BY <2>3, <2>6, <2>7
<1> HIDE DEF S
<1>3. \A n \in 0 .. D : n \in S
  <2>1. \A m \in 1 .. D : m - 1 \in S => m \in S
    BY <1>2
  <2> QED
    BY <1>1, <2>1, Induction
<1>4. D \in S
  BY <1>3
<1> QED
  BY <1>4 DEF S

-----------------------------------------------------------------------------
(* The chain that move_tick and setxy go along.                            *)

(* What Chain computes: from e along the followers, to the entity without  *)
(* one unless there are more links than entities.                          *)
IsChain(s, e) ==
  /\ s \in Seq(Slots) /\ s # <<>> /\ s[1] = e
  /\ \A i \in 1 .. (Len(s) - 1) : s[i + 1] = follower[s[i]]

(* A chain whose last entity drags one goes on with that.                  *)
LEMMA ChainGrows ==
  ASSUME LinksTypeOK, NEW e \in Slots, NEW s, IsChain(s, e), follower[Last(s)] # NULL
  PROVE  /\ IsChain(Append(s, follower[Last(s)]), e)
         /\ Len(Append(s, follower[Last(s)])) = Len(s) + 1
<1> DEFINE next == follower[Last(s)]
           t == Append(s, next)
<1>1. s \in Seq(Slots) /\ Len(s) \in Nat \ {0} /\ Last(s) = s[Len(s)] /\ s[Len(s)] \in Slots
  BY DEF IsChain, Last
<1>2. next \in Slots
  BY <1>1 DEF LinksTypeOK
<1>3. t \in Seq(Slots) /\ Len(t) = Len(s) + 1 /\ t[Len(s) + 1] = next /\ \A i \in 1 .. Len(s) : t[i] = s[i]
  BY <1>1, <1>2
<1>4. t # <<>> /\ t[1] = e
  BY <1>1, <1>3 DEF IsChain
<1>5. ASSUME NEW i \in 1 .. (Len(t) - 1)
      PROVE  t[i + 1] = follower[t[i]]
  <2>1. CASE i = Len(s)
    BY <1>1, <1>3, <2>1
  <2>2. CASE i # Len(s)
    <3>1. i \in 1 .. (Len(s) - 1) /\ i \in 1 .. Len(s) /\ i + 1 \in 1 .. Len(s)
      BY <1>1, <1>3, <2>2
    <3>2. s[i + 1] = follower[s[i]]
      BY <3>1 DEF IsChain
    <3> QED
      BY <1>3, <3>1, <3>2
  <2> QED
    BY <2>1, <2>2
<1> HIDE DEF t
<1>6. IsChain(t, e)
  BY <1>3, <1>4, <1>5 DEF IsChain
<1> QED
  BY <1>3, <1>6 DEF t

(* Chain follows the followers, until the last or for MaxEntities turns.   *)
LEMMA ChainOfFollowers ==
  ASSUME LinksTypeOK, NEW e \in Slots
  PROVE  /\ IsChain(Chain(e), e)
         /\ Len(Chain(e)) = MaxEntities \/ follower[Last(Chain(e))] = NULL
<1> DEFINE Longer(s) == IF follower[Last(s)] = NULL THEN s ELSE Append(s, follower[Last(s)])
           IsC(f) == f = [n \in 0 .. MaxEntities |-> IF n = 0 THEN <<e>> ELSE Longer(f[n - 1])]
           c == CHOOSE f : IsC(f)
           X == {s \in Seq(Slots) : IsChain(s, e)}
<1>1. Chain(e) = c[MaxEntities - 1]
  BY DEF Chain
<1>2. MaxEntities \in Nat \ {0}
  BY LinksAssumption
<1>3. <<e>> \in X
  BY DEF IsChain
<1>4. ASSUME NEW s \in X
      PROVE  Longer(s) \in X
  <2>1. CASE follower[Last(s)] = NULL
    BY <2>1
  <2>2. CASE follower[Last(s)] # NULL
    <3>1. IsChain(Append(s, follower[Last(s)]), e)
      BY <2>2, ChainGrows
    <3> QED
      BY <2>2, <3>1 DEF IsChain
  <2> QED
    BY <2>1, <2>2
<1> HIDE DEF X
<1>5. \E f : IsC(f)
  <2> DEFINE step == [n \in 1 .. MaxEntities |-> [s \in X |-> Longer(s)]]
  <2>1. \A n \in 1 .. MaxEntities, s \in X : step[n][s] \in X
    BY <1>4
  <2>2. \A n \in 1 .. MaxEntities, s \in X : step[n][s] = Longer(s)
    OBVIOUS
  <2> HIDE DEF step, Longer
  <2>3. PICK f \in [0 .. MaxEntities -> X] : Iterates(f, MaxEntities, <<e>>, step)
    <3>1. MaxEntities \in Nat
      BY <1>2
    <3> QED
      BY <1>3, <2>1, <3>1, Recursion
  <2>4. \A n \in 1 .. MaxEntities : f[n] = Longer(f[n - 1])
    <3>1. SUFFICES ASSUME NEW n \in 1 .. MaxEntities PROVE f[n] = Longer(f[n - 1])
      OBVIOUS
    <3>2. n - 1 \in 0 .. MaxEntities
      BY <1>2
    <3>3. f[n - 1] \in X
      BY <2>3, <3>2
    <3> QED
      BY <2>2, <2>3, <3>3 DEF Iterates
  <2>5. IsC(f)
    <3>1. f = [n \in 0 .. MaxEntities |-> f[n]]
      BY <2>3
    <3>2. ASSUME NEW n \in 0 .. MaxEntities
          PROVE  f[n] = IF n = 0 THEN <<e>> ELSE Longer(f[n - 1])
      <4>1. n = 0 \/ n \in 1 .. MaxEntities
        BY <1>2
      <4>2. \A m \in 1 .. MaxEntities : m # 0
        BY <1>2
      <4> QED
        BY <2>3, <2>4, <4>1, <4>2, Zenon DEF Iterates
    <3> QED
      BY <3>1, <3>2
  <2> QED
    BY <2>5
<1>6. IsC(c)
  <2> HIDE DEF IsC
  <2> QED
    BY <1>5
<1> HIDE DEF c
<1>7. c[0] = <<e>> /\ \A n \in 1 .. MaxEntities : c[n] = Longer(c[n - 1])
  <2> HIDE DEF Longer
  <2>1. c = [n \in 0 .. MaxEntities |-> IF n = 0 THEN <<e>> ELSE Longer(c[n - 1])]
    BY <1>6
  <2>2. \A n \in 0 .. MaxEntities : c[n] = IF n = 0 THEN <<e>> ELSE Longer(c[n - 1])
    BY <2>1
  <2> QED
    BY <1>2, <2>2
<1> DEFINE Good == {n \in 0 .. MaxEntities : /\ c[n] \in X
                                             /\ Len(c[n]) = n + 1 \/ follower[Last(c[n])] = NULL}
<1>8. 0 \in Good
  <2>1. Len(<<e>>) = 0 + 1
    OBVIOUS
  <2> QED
    BY <1>2, <1>3, <1>7, <2>1
<1>9. ASSUME NEW n \in 1 .. MaxEntities, n - 1 \in Good
      PROVE  n \in Good
  <2>1. c[n - 1] \in X /\ c[n] = Longer(c[n - 1]) /\ n \in 0 .. MaxEntities
    BY <1>7, <1>9
  <2>2. c[n] \in X
    BY <1>4, <2>1
  <2>3. CASE follower[Last(c[n - 1])] = NULL
    BY <2>1, <2>2, <2>3
  <2>4. CASE follower[Last(c[n - 1])] # NULL
    <3>1. IsChain(c[n - 1], e)
      BY <2>1 DEF X
    <3>2. Len(c[n]) = Len(c[n - 1]) + 1
      BY <2>1, <2>4, <3>1, ChainGrows
    <3>3. Len(c[n - 1]) = (n - 1) + 1
      BY <1>9, <2>4
    <3>4. Len(c[n]) = n + 1
      BY <3>2, <3>3
    <3> QED
      BY <2>1, <2>2, <3>4
  <2> QED
    BY <2>3, <2>4
<1> HIDE DEF Good
<1>10. \A n \in 0 .. MaxEntities : n \in Good
  <2>1. \A n \in 1 .. MaxEntities : n - 1 \in Good => n \in Good
    BY <1>9
  <2> QED
    BY <1>2, <1>8, <2>1, Induction
<1>11. MaxEntities - 1 \in Good
  BY <1>2, <1>10
<1>12. (MaxEntities - 1) + 1 = MaxEntities
  BY <1>2
<1> QED
  BY <1>1, <1>11, <1>12 DEF Good, X

(* No entity of a chain drags itself or one before it: the walk of         *)
(* move_tick along it would not end.                                       *)
LEMMA ChainAhead ==
  ASSUME LinksTypeOK, AllWalksEnd(follower), NEW e \in Slots, NEW s, IsChain(s, e),
         NEW j \in 1 .. Len(s), NEW i \in 1 .. j
  PROVE  follower[s[j]] # s[i]
<1> SUFFICES ASSUME follower[s[j]] = s[i] PROVE FALSE
  OBVIOUS
<1> DEFINE S == {s[k] : k \in i .. j}
<1>1. s \in Seq(Slots) /\ Len(s) \in Nat /\ \A k \in 1 .. (Len(s) - 1) : s[k + 1] = follower[s[k]]
  BY DEF IsChain
<1>2. S \in SUBSET Slots /\ s[i] \in S /\ s[i] \in Slots
  BY <1>1
<1>3. ASSUME NEW x \in S
      PROVE  follower[x] \in S
  <2>1. PICK k \in i .. j : x = s[k]
    OBVIOUS
  <2>2. CASE k = j
    BY <1>2, <2>1, <2>2
  <2>3. CASE k # j
    <3>1. k \in 1 .. (Len(s) - 1) /\ k + 1 \in i .. j
      BY <1>1, <2>1, <2>3
    <3>2. follower[x] = s[k + 1]
      BY <1>1, <2>1, <3>1
    <3> QED
      BY <3>1, <3>2
  <2> QED
    BY <2>2, <2>3
<1>4. Diverges(follower, s[i])
  BY <1>2, <1>3, Zenon DEF Diverges
<1> QED
  BY <1>2, <1>4 DEF AllWalksEnd

(* So all its entities are different, the last has no follower, and Chain  *)
(* stops in time.                                                          *)
LEMMA ChainEnds ==
  ASSUME LinksTypeOK, AllWalksEnd(follower), NEW e \in Slots
  PROVE  follower[Last(Chain(e))] = NULL
<1> DEFINE s == Chain(e)
<1>1. IsChain(s, e) /\ (Len(s) = MaxEntities \/ follower[Last(s)] = NULL)
  BY ChainOfFollowers
<1> SUFFICES ASSUME Len(s) = MaxEntities, follower[Last(s)] # NULL PROVE FALSE
  BY <1>1
<1> HIDE DEF s
<1>2. /\ s \in Seq(Slots) /\ MaxEntities \in Nat \ {0} /\ Last(s) = s[MaxEntities]
      /\ \A k \in 1 .. (MaxEntities - 1) : s[k + 1] = follower[s[k]]
  BY <1>1, LinksAssumption DEF IsChain, Last
<1>3. \A k \in 1 .. MaxEntities : s[k] \in Slots
  BY <1>2
<1>4. follower[s[MaxEntities]] \in Slots
  BY <1>2, <1>3 DEF LinksTypeOK
<1> DEFINE f == [k \in 1 .. (MaxEntities + 1) |-> IF k = 1 THEN s[1] ELSE follower[s[k - 1]]]
<1>5. \A k \in 1 .. MaxEntities : f[k] = s[k]
  <2>1. SUFFICES ASSUME NEW k \in 1 .. MaxEntities PROVE f[k] = s[k]
    OBVIOUS
  <2>2. k \in 1 .. (MaxEntities + 1)
    BY <1>2
  <2>3. CASE k = 1
    BY <2>2, <2>3
  <2>4. CASE k # 1
    <3>1. k - 1 \in 1 .. (MaxEntities - 1) /\ (k - 1) + 1 = k
      BY <1>2, <2>4
    <3> QED
      BY <1>2, <2>2, <2>4, <3>1
  <2> QED
    BY <2>3, <2>4
<1>6. f[MaxEntities + 1] = follower[s[MaxEntities]]
  BY <1>2
<1>7. f \in [1 .. (MaxEntities + 1) -> Slots]
  <2>1. \A k \in 1 .. (MaxEntities + 1) : f[k] \in Slots
    <3>1. SUFFICES ASSUME NEW k \in 1 .. (MaxEntities + 1) PROVE f[k] \in Slots
      OBVIOUS
    <3>2. k \in 1 .. MaxEntities \/ k = MaxEntities + 1
      BY <1>2
    <3> HIDE DEF f
    <3> QED
      BY <1>3, <1>4, <1>5, <1>6, <3>2
  <2> QED
    BY <2>1
<1>8. \A x, y \in 1 .. (MaxEntities + 1) : x < y => f[x] # f[y]
  <2>1. SUFFICES ASSUME NEW x \in 1 .. (MaxEntities + 1), NEW y \in 1 .. (MaxEntities + 1), x < y
                 PROVE  f[x] # f[y]
    OBVIOUS
  <2>2. /\ x \in 1 .. MaxEntities /\ y - 1 \in 1 .. MaxEntities /\ y # 1
        /\ x \in 1 .. (y - 1) /\ y - 1 \in 1 .. Len(s)
    BY <1>2, <2>1
  <2>3. f[x] = s[x] /\ f[y] = follower[s[y - 1]]
    BY <1>5, <2>2
  <2> QED
    BY <1>1, <2>2, <2>3, ChainAhead
<1> HIDE DEF f
<1>9. IsFiniteSet(1 .. (MaxEntities + 1)) /\ Cardinality(1 .. (MaxEntities + 1)) = MaxEntities + 1
  BY <1>2, FS_Interval
<1>10. IsFiniteSet(Slots) /\ Cardinality(Slots) = MaxEntities
  BY <1>2, FS_Interval DEF Slots
<1>11. Cardinality(Slots) < Cardinality(1 .. (MaxEntities + 1))
  BY <1>2, <1>9, <1>10
<1>12. PICK x, y \in 1 .. (MaxEntities + 1) : x # y /\ f[x] = f[y]
  BY <1>7, <1>9, <1>10, <1>11, FS_PigeonHole
<1>13. x < y \/ y < x
  BY <1>2, <1>12
<1> QED
  BY <1>8, <1>12, <1>13

-----------------------------------------------------------------------------
(* One turn of move_tick.                                                  *)

Tracks  == [1 .. FOLLOWDISTANCE -> Places]
Standings == [pos : [Slots -> Places], way : [Slots -> Places], path : [Slots -> Tracks]]

(* u is the track t once the place p was left.                             *)
IsShift(u, p, t) ==
  /\ u \in Tracks /\ u[1] = p
  /\ \A i \in 1 .. (FOLLOWDISTANCE - 1) : u[i + 1] = t[i]

(* A track shifted by one is a track (the loop over path[] in move_tick).  *)
LEMMA ShiftedTrack ==
  ASSUME NEW p \in Places, NEW t \in Tracks
  PROVE  IsShift(<<p>> \o Front(t), p, t)
<1> DEFINE D == FOLLOWDISTANCE
           u == <<p>> \o Front(t)
<1>1. D \in Nat \ {0} /\ t \in Seq(Places) /\ Len(t) = D
  BY ConvoyAssumption DEF Tracks
<1>2. /\ Front(t) \in Seq(Places) /\ Len(Front(t)) = D - 1
      /\ \A i \in 1 .. (D - 1) : Front(t)[i] = t[i]
  BY <1>1 DEF Front
<1>3. <<p>> \in Seq(Places) /\ Len(<<p>>) = 1 /\ <<p>>[1] = p
  OBVIOUS
<1>4. /\ u \in Seq(Places) /\ Len(u) = D /\ u[1] = p
  BY <1>1, <1>2, <1>3
<1>5. ASSUME NEW i \in 1 .. (D - 1)
      PROVE  u[i + 1] = t[i]
  <2>1. i + 1 \in 1 .. D /\ i + 1 > 1 /\ (i + 1) - 1 = i
    BY <1>1, <1>5
  <2>2. u[i + 1] = Front(t)[i]
    BY <1>1, <1>2, <1>3, <2>1
  <2> QED
    BY <1>2, <2>2
<1> HIDE DEF u
<1>6. u \in Tracks
  BY <1>1, <1>4 DEF Tracks
<1> QED
  BY <1>4, <1>5, <1>6 DEF u, IsShift

(* A step towards a waypoint of the map stays on the map.                  *)
LEMMA ForwardStep ==
  ASSUME NEW at \in Standings, NEW e \in Slots
  PROVE  Forward(at, e) \in Places /\ Adjacent(Forward(at, e), at.pos[e])
<1>1. at.pos[e] \in Places /\ at.way[e] \in Places /\ MapSize \in Nat
  BY ConvoyAssumption DEF Standings
<1>2. \A p, w \in Places : p + sgn(w - p) \in Places /\ (p + sgn(w - p)) - p \in -1 .. 1
  BY <1>1 DEF Places, sgn
<1> QED
  BY <1>1, <1>2 DEF Forward, Adjacent

(* Dragging y takes the standing `at' to the standing `to'.                *)
IsTurn(at, to, y) ==
  /\ at \in Standings /\ to \in Standings
  /\ \A x \in Slots : x # y => /\ to.pos[x] = at.pos[x] /\ to.way[x] = at.way[x]
                               /\ to.path[x] = at.path[x]
  /\ IsShift(to.path[y], at.pos[y], at.path[y])
  /\ follow[y] = NULL  => Adjacent(to.pos[y], at.pos[y])
  /\ follow[y] # NULL => to.pos[y] = Oldest(to.path[follow[y]]) /\ to.way[y] = to.pos[y]

(* What dragging e does to it, and that it does nothing to the others.     *)
LEMMA DraggedTurns ==
  ASSUME LinksTypeOK, NEW at \in Standings, NEW e \in Slots
  PROVE  IsTurn(at, Dragged(at, e), e)
<1> DEFINE track == Shifted(at, e)
           place == IF follow[e] # NULL THEN Oldest(track[follow[e]]) ELSE Forward(at, e)
           to == Dragged(at, e)
<1>1. /\ at.pos \in [Slots -> Places] /\ at.way \in [Slots -> Places]
      /\ at.path \in [Slots -> Tracks] /\ FOLLOWDISTANCE \in Nat \ {0}
  BY ConvoyAssumption DEF Standings
<1>2. /\ track = [at.path EXCEPT ![e] = <<at.pos[e]>> \o Front(at.path[e])]
  BY <1>1 DEF Shifted
<1>3. IsShift(<<at.pos[e]>> \o Front(at.path[e]), at.pos[e], at.path[e])
  <2>1. at.pos[e] \in Places /\ at.path[e] \in Tracks
    BY <1>1
  <2> QED
    BY <2>1, ShiftedTrack
<1>4. /\ track \in [Slots -> Tracks] /\ IsShift(track[e], at.pos[e], at.path[e])
      /\ \A x \in Slots : x # e => track[x] = at.path[x]
  BY <1>1, <1>2, <1>3 DEF IsShift
<1>5. place \in Places
  <2>1. CASE follow[e] = NULL
    BY <2>1, ForwardStep
  <2>2. CASE follow[e] # NULL
    <3>1. follow[e] \in Slots
      BY <2>2 DEF LinksTypeOK
    <3>2. track[follow[e]] \in Tracks /\ FOLLOWDISTANCE \in 1 .. FOLLOWDISTANCE
      BY <1>1, <1>4, <3>1
    <3> QED
      BY <2>2, <3>2 DEF Tracks, Oldest
  <2> QED
    BY <2>1, <2>2
<1>6. to = [pos  |-> [at.pos EXCEPT ![e] = place],
            way  |-> IF follow[e] # NULL THEN [at.way EXCEPT ![e] = place] ELSE at.way,
            path |-> track]
  BY DEF Dragged, Put
<1> HIDE DEF track, place, to
<1>7. /\ to.pos = [at.pos EXCEPT ![e] = place] /\ to.path = track
      /\ to.way = IF follow[e] # NULL THEN [at.way EXCEPT ![e] = place] ELSE at.way
  BY <1>6
<1>8. /\ to.pos \in [Slots -> Places] /\ to.way \in [Slots -> Places]
      /\ to.pos[e] = place /\ (follow[e] # NULL => to.way[e] = place)
      /\ \A x \in Slots : x # e => to.pos[x] = at.pos[x] /\ to.way[x] = at.way[x]
  BY <1>1, <1>5, <1>7
<1>9. to \in Standings
  BY <1>4, <1>6, <1>7, <1>8 DEF Standings
<1>10. /\ follow[e] = NULL => place = Forward(at, e)
       /\ follow[e] # NULL => place = Oldest(track[follow[e]])
  BY DEF place
<1>11. Adjacent(Forward(at, e), at.pos[e])
  BY ForwardStep
<1>12. IsTurn(at, to, e)
  BY <1>4, <1>7, <1>8, <1>9, <1>10, <1>11 DEF IsTurn
<1> QED
  BY <1>12 DEF to

(* The types of the places.                                                *)
PlaceTypeOK ==
  pos \in [Slots -> Places] /\ way \in [Slots -> Places] /\ path \in [Slots -> Tracks]

(* The standings that move_tick of e, on its way to w, goes through while  *)
(* it drags the chain s.                                                   *)
Marches(a, s, e, w) ==
  /\ a \in [0 .. Len(s) -> Standings]
  /\ a[0].pos = pos /\ a[0].way = [way EXCEPT ![e] = w] /\ a[0].path = path
  /\ \A n \in 1 .. Len(s) : a[n] = Dragged(a[n - 1], s[n])

(* move_tick is such a march and ends with what it writes.                 *)
LEMMA MoveTickMarches ==
  ASSUME LinksTypeOK, PlaceTypeOK, NEW e \in Slots, NEW w \in Places, MoveTick(e, w)
  PROVE  \E a : /\ Marches(a, Chain(e), e, w)
                /\ LET end == a[Len(Chain(e))]
                   IN  pos' = end.pos /\ way' = end.way /\ path' = end.path
<1> DEFINE s == Chain(e)
           start == [pos |-> pos, way |-> [way EXCEPT ![e] = w], path |-> path]
           IsA(f) == f = [n \in 0 .. Len(s) |-> IF n = 0 THEN start ELSE Dragged(f[n - 1], s[n])]
           a == CHOOSE f : IsA(f)
<1>1. pos' = a[Len(s)].pos /\ way' = a[Len(s)].way /\ path' = a[Len(s)].path
  BY DEF MoveTick
<1>2. IsChain(s, e)
  BY ChainOfFollowers
<1>3. start \in Standings /\ start.pos = pos /\ start.way = [way EXCEPT ![e] = w] /\ start.path = path
  BY DEF PlaceTypeOK, Standings
<1> HIDE DEF s, start
<1>4. Len(s) \in Nat /\ \A n \in 1 .. Len(s) : s[n] \in Slots
  BY <1>2 DEF IsChain
<1>5. \A n \in 1 .. Len(s), at \in Standings : Dragged(at, s[n]) \in Standings
  BY <1>4, DraggedTurns DEF IsTurn
<1>6. \E f : IsA(f)
  <2> DEFINE step == [n \in 1 .. Len(s) |-> [at \in Standings |-> Dragged(at, s[n])]]
  <2>1. \A n \in 1 .. Len(s), at \in Standings : step[n][at] = Dragged(at, s[n])
    OBVIOUS
  <2>2. \A n \in 1 .. Len(s), at \in Standings : step[n][at] \in Standings
    BY <1>5, <2>1
  <2> HIDE DEF step
  <2>3. PICK f \in [0 .. Len(s) -> Standings] : Iterates(f, Len(s), start, step)
    BY <1>3, <1>4, <2>2, Recursion
  <2>4. ASSUME NEW n \in 0 .. Len(s)
        PROVE  f[n] = IF n = 0 THEN start ELSE Dragged(f[n - 1], s[n])
    <3>1. CASE n = 0
      BY <2>3, <3>1 DEF Iterates
    <3>2. CASE n # 0
      <4>1. n \in 1 .. Len(s) /\ n - 1 \in 0 .. Len(s)
        BY <1>4, <3>2
      <4>2. f[n] = step[n][f[n - 1]] /\ f[n - 1] \in Standings
        BY <2>3, <4>1 DEF Iterates
      <4> QED
        BY <2>1, <3>2, <4>1, <4>2
    <3> QED
      BY <3>1, <3>2
  <2>5. f = [n \in 0 .. Len(s) |-> IF n = 0 THEN start ELSE Dragged(f[n - 1], s[n])]
    BY <2>3, <2>4
  <2> QED
    BY <2>5
<1>7. IsA(a)
  <2> HIDE DEF IsA
  <2> QED
    BY <1>6
<1> HIDE DEF a
<1>8. a = [n \in 0 .. Len(s) |-> IF n = 0 THEN start ELSE Dragged(a[n - 1], s[n])]
  BY <1>7
<1> HIDE DEF IsA
<1>9. \A n \in 0 .. Len(s) : a[n] = IF n = 0 THEN start ELSE Dragged(a[n - 1], s[n])
  BY <1>8
<1>10. a[0] = start
  BY <1>4, <1>9
<1>11. \A n \in 1 .. Len(s) : a[n] = Dragged(a[n - 1], s[n])
  <2>1. \A n \in 1 .. Len(s) : n \in 0 .. Len(s) /\ n # 0
    BY <1>4
  <2> QED
    BY <1>9, <2>1
<1>12. \A n \in 0 .. Len(s) : a[n] \in Standings
  <2> DEFINE S == {n \in 0 .. Len(s) : a[n] \in Standings}
  <2>1. 0 \in S
    BY <1>3, <1>4, <1>10
  <2>2. ASSUME NEW n \in 1 .. Len(s), n - 1 \in S
        PROVE  n \in S
    BY <1>4, <1>5, <1>11, <2>2
  <2> HIDE DEF S
  <2>3. \A n \in 0 .. Len(s) : n \in S
    <3>1. \A n \in 1 .. Len(s) : n - 1 \in S => n \in S
      BY <2>2
    <3> QED
      BY <1>4, <2>1, <3>1, Induction
  <2> QED
    BY <2>3 DEF S
<1>13. a \in [0 .. Len(s) -> Standings]
  <2>1. a = [n \in 0 .. Len(s) |-> a[n]]
    BY <1>8
  <2> QED
    BY <1>12, <2>1
<1>14. Marches(a, s, e, w)
  BY <1>3, <1>10, <1>11, <1>13 DEF Marches
<1> QED
  BY <1>1, <1>14 DEF s

(* Each step of a march drags one entity of the chain.                     *)
LEMMA MarchTurns ==
  ASSUME LinksTypeOK, NEW e \in Slots, NEW w, NEW s, IsChain(s, e), NEW a, Marches(a, s, e, w),
         NEW n \in 1 .. Len(s)
  PROVE  /\ s[n] \in Slots /\ n - 1 \in 0 .. Len(s) /\ n \in 0 .. Len(s)
         /\ IsTurn(a[n - 1], a[n], s[n])
<1>1. Len(s) \in Nat /\ s[n] \in Slots
  BY DEF IsChain
<1>2. n - 1 \in 0 .. Len(s) /\ n \in 0 .. Len(s)
  BY <1>1
<1>3. a[n - 1] \in Standings /\ a[n] = Dragged(a[n - 1], s[n])
  BY <1>2 DEF Marches
<1> QED
  BY <1>1, <1>2, <1>3, DraggedTurns

(* A stalker ends a march on its waypoint, or the march left it alone; but *)
(* for the head of the chain before it has moved.                          *)
RestsAt(at, x) ==
  \/ at.pos[x] = at.way[x]
  \/ at.pos[x] = pos[x] /\ at.way[x] = way[x] /\ at.path[x] = path[x]

LEMMA MarchRests ==
  ASSUME LinksTypeOK, PlaceTypeOK, NEW e \in Slots, NEW w, NEW s, IsChain(s, e),
         NEW a, Marches(a, s, e, w)
  PROVE  \A x \in Slots : follow[x] # NULL => RestsAt(a[Len(s)], x)
<1> DEFINE Rests(n) == \A x \in Slots : follow[x] # NULL => RestsAt(a[n], x) \/ (n = 0 /\ x = e)
           S == {n \in 0 .. Len(s) : Rests(n)}
<1>1. Len(s) \in Nat \ {0} /\ s[1] = e
  BY DEF IsChain
<1>2. 0 \in S
  <2>1. a[0].pos = pos /\ a[0].path = path /\ \A x \in Slots : x # e => a[0].way[x] = way[x]
    BY DEF Marches, PlaceTypeOK
  <2>2. Rests(0)
    BY <2>1 DEF RestsAt
  <2> QED
    BY <1>1, <2>2
<1>3. ASSUME NEW n \in 1 .. Len(s), n - 1 \in S
      PROVE  n \in S
  <2>1. IsTurn(a[n - 1], a[n], s[n]) /\ n \in 0 .. Len(s)
    BY MarchTurns
  <2>2. ASSUME NEW x \in Slots, follow[x] # NULL
        PROVE  RestsAt(a[n], x)
    <3>1. CASE x = s[n]
      BY <2>1, <2>2, <3>1 DEF IsTurn, RestsAt
    <3>2. CASE x # s[n]
      <4>1. ~ (n - 1 = 0 /\ x = e)
        BY <1>1, <3>2
      <4>2. RestsAt(a[n - 1], x)
        BY <1>3, <2>2, <4>1
      <4> QED
        BY <2>1, <3>2, <4>2 DEF IsTurn, RestsAt
    <3> QED
      BY <3>1, <3>2
  <2> QED
    BY <2>1, <2>2
<1> HIDE DEF S
<1>4. Len(s) \in S
  <2>1. \A n \in 1 .. Len(s) : n - 1 \in S => n \in S
    BY <1>3
  <2>2. \A n \in 0 .. Len(s) : n \in S
    BY <1>1, <1>2, <2>1, Induction
  <2> QED
    BY <1>1, <2>2
<1> QED
  BY <1>1, <1>4 DEF S

(* Who is not in the chain stays, and of two members of the chain the one  *)
(* behind is dragged last; so each is on its leader's oldest place when    *)
(* all have moved.                                                         *)
OrderAt(at, x) ==
  follow[x] # NULL /\ at.path[x] # path[x] => at.pos[x] = Oldest(at.path[follow[x]])

LEMMA MarchInOrder ==
  ASSUME LinksTypeOK, LinksAgree, AllWalksEnd(follower), NEW e \in Slots, NEW w, NEW s, IsChain(s, e),
         NEW a, Marches(a, s, e, w),
         NEW x \in Slots
  PROVE  OrderAt(a[Len(s)], x)
<1> DEFINE Dragd(n) == \E i \in 1 .. n : x = s[i]
           Placed(n) == IF Dragd(n) THEN follow[x] # NULL => a[n].pos[x] = Oldest(a[n].path[follow[x]])
                        ELSE a[n].path[x] = path[x]
           S == {n \in 0 .. Len(s) : Placed(n)}
<1>1. Len(s) \in Nat \ {0} /\ s[1] = e
  BY DEF IsChain
<1>2. 0 \in S
  <2>1. a[0].path = path
    BY DEF Marches
  <2>2. ~ Dragd(0)
    OBVIOUS
  <2> QED
    BY <1>1, <2>1, <2>2
<1>3. ASSUME NEW n \in 1 .. Len(s), n - 1 \in S
      PROVE  n \in S
  <2>1. IsTurn(a[n - 1], a[n], s[n]) /\ n \in 0 .. Len(s) /\ s[n] \in Slots
    BY MarchTurns
  <2>2. CASE x = s[n]
    <3>1. Dragd(n)
      BY <2>2
    <3> QED
      BY <2>1, <2>2, <3>1 DEF IsTurn
  <2>3. CASE x # s[n] /\ ~ Dragd(n - 1)
    <3>1. ~ Dragd(n)
      <4>1. \A i \in 1 .. n : i = n \/ i \in 1 .. (n - 1)
        BY <1>1
      <4> QED
        BY <2>3, <4>1
    <3> QED
      BY <1>3, <2>1, <2>3, <3>1 DEF IsTurn
  <2>4. CASE x # s[n] /\ Dragd(n - 1)
    <3>1. PICK i \in 1 .. (n - 1) : x = s[i]
      BY <2>4
    <3>2. i \in 1 .. n /\ Dragd(n)
      BY <1>1, <3>1
    <3>3. SUFFICES ASSUME follow[x] # NULL PROVE a[n].pos[x] = Oldest(a[n].path[follow[x]])
      BY <2>1, <3>2
    <3>4. follow[x] \in Slots /\ follower[follow[x]] = x
      BY <3>3 DEF LinksTypeOK, LinksAgree
    <3>5. follower[s[n]] # s[i]
      BY <3>2, ChainAhead
    <3>6. follow[x] # s[n]
      BY <3>1, <3>4, <3>5
    <3>7. a[n].path[follow[x]] = a[n - 1].path[follow[x]] /\ a[n].pos[x] = a[n - 1].pos[x]
      BY <2>1, <2>4, <3>4, <3>6 DEF IsTurn
    <3>8. a[n - 1].pos[x] = Oldest(a[n - 1].path[follow[x]])
      BY <1>3, <2>4, <3>3
    <3> QED
      BY <3>7, <3>8
  <2> QED
    BY <2>2, <2>3, <2>4
<1> HIDE DEF S
<1>4. Len(s) \in S
  <2>1. \A n \in 1 .. Len(s) : n - 1 \in S => n \in S
    BY <1>3
  <2>2. \A n \in 0 .. Len(s) : n \in S
    BY <1>1, <1>2, <2>1, Induction
  <2> QED
    BY <1>1, <2>2
<1> QED
  BY <1>1, <1>4 DEF S, OrderAt

-----------------------------------------------------------------------------
(* Convoys joined at their tail.                                           *)

(* A track without gaps that ends at p.                                    *)
Unbroken(p, t) ==
  Adjacent(p, t[1]) /\ \A i \in 1 .. (FOLLOWDISTANCE - 1) : Adjacent(t[i], t[i + 1])

InPlaceAt(at, x) == follow[x] # NULL => at.pos[x] = Oldest(at.path[follow[x]])

(* Adjacent is reflexive and symmetric.                                    *)
LEMMA NextTo ==
  ASSUME NEW p \in Places, NEW q \in Places
  PROVE  Adjacent(p, p) /\ (Adjacent(p, q) => Adjacent(q, p))
<1>1. p \in Int /\ q \in Int
  BY ConvoyAssumption DEF Places
<1> QED
  BY <1>1 DEF Adjacent

(* A step to the next place leaves no gap, and the oldest place moves on   *)
(* by one at most.                                                         *)
LEMMA ShiftUnbroken ==
  ASSUME NEW p \in Places, NEW q, NEW t \in Tracks, NEW u, IsShift(u, p, t),
         Unbroken(p, t), Adjacent(q, p)
  PROVE  Unbroken(q, u) /\ Adjacent(Oldest(t), Oldest(u))
<1> DEFINE D == FOLLOWDISTANCE
<1>1. D \in Nat \ {0} /\ u[1] = p /\ u \in Tracks /\ \A i \in 1 .. (D - 1) : u[i + 1] = t[i]
  BY ConvoyAssumption DEF IsShift
<1>2. \A i \in 1 .. D : t[i] \in Places /\ u[i] \in Places
  BY <1>1 DEF Tracks
<1>3. ASSUME NEW i \in 1 .. (D - 1)
      PROVE  Adjacent(u[i], u[i + 1])
  <2>1. CASE i = 1
    BY <1>1, <2>1 DEF Unbroken
  <2>2. CASE i # 1
    <3>1. i - 1 \in 1 .. (D - 1) /\ (i - 1) + 1 = i
      BY <1>1, <2>2
    <3>2. u[i] = t[i - 1] /\ u[i + 1] = t[i]
      BY <1>1, <3>1
    <3>3. Adjacent(t[i - 1], t[i])
      BY <3>1 DEF Unbroken
    <3> QED
      BY <3>2, <3>3
  <2> QED
    BY <2>1, <2>2
<1>4. Adjacent(u[D], t[D])
  <2>1. CASE D = 1
    BY <1>1, <2>1 DEF Unbroken
  <2>2. CASE D # 1
    <3>1. D - 1 \in 1 .. (D - 1) /\ (D - 1) + 1 = D
      BY <1>1, <2>2
    <3>2. u[D] = t[D - 1]
      BY <1>1, <3>1
    <3>3. Adjacent(t[D - 1], t[D])
      BY <3>1 DEF Unbroken
    <3> QED
      BY <3>2, <3>3
  <2> QED
    BY <2>1, <2>2
<1>5. Adjacent(t[D], u[D])
  BY <1>1, <1>2, <1>4, NextTo
<1> QED
  BY <1>1, <1>3, <1>5 DEF Unbroken, Oldest

(* A convoy in line stays in line when its head moves.  On the way the     *)
(* entity to be dragged next lags behind, by a pixel, and it alone.        *)
LEMMA MarchInLine ==
  ASSUME LinksTypeOK, PlaceTypeOK, LinksAgree, AllWalksEnd(follower),
         NEW e \in Slots, NEW w, NEW s, IsChain(s, e), follower[s[Len(s)]] = NULL,
         NEW a, Marches(a, s, e, w),
         \A x \in Slots : Unbroken(pos[x], path[x]),
         \A x \in Slots : follow[x] # NULL => pos[x] = Oldest(path[follow[x]])
  PROVE  \A x \in Slots : /\ Unbroken(a[Len(s)].pos[x], a[Len(s)].path[x])
                          /\ InPlaceAt(a[Len(s)], x)
                          /\ Adjacent(a[Len(s)].pos[x], pos[x])
<1> DEFINE Lagging(n, x) ==
             /\ n < Len(s) /\ x = s[n + 1]
             /\ Adjacent(a[n].pos[x], Oldest(a[n].path[follow[x]]))
           InLine(n, x) == /\ Unbroken(a[n].pos[x], a[n].path[x])
                           /\ InPlaceAt(a[n], x) \/ Lagging(n, x)
                           /\ Adjacent(a[n].pos[x], pos[x])
                           /\ (\A i \in 1 .. n : x # s[i]) => a[n].pos[x] = pos[x]
           S == {n \in 0 .. Len(s) : \A x \in Slots : InLine(n, x)}
<1>1. Len(s) \in Nat \ {0} /\ \A n \in 1 .. (Len(s) - 1) : s[n + 1] = follower[s[n]]
  BY DEF IsChain
<1>2. \A x \in Slots : pos[x] \in Places /\ path[x] \in Tracks
  BY DEF PlaceTypeOK
<1>3. 0 \in S
  <2>1. a[0].pos = pos /\ a[0].path = path
    BY DEF Marches
  <2>2. \A x \in Slots : Adjacent(pos[x], pos[x])
    BY <1>2, NextTo
  <2>3. \A x \in Slots : InLine(0, x)
    BY <2>1, <2>2 DEF InPlaceAt
  <2> HIDE DEF InLine
  <2> QED
    BY <1>1, <2>3
<1>4. ASSUME NEW n \in 1 .. Len(s), n - 1 \in S
      PROVE  n \in S
  <2> DEFINE y == s[n]
             at == a[n - 1]
             to == a[n]
  <2>1. IsTurn(at, to, y) /\ n \in 0 .. Len(s) /\ y \in Slots
    BY MarchTurns
  <2>2. \A x \in Slots : InLine(n - 1, x)
    BY <1>4
  <2>3. \A x \in Slots : at.pos[x] \in Places /\ to.pos[x] \in Places
                         /\ at.path[x] \in Tracks /\ to.path[x] \in Tracks
    BY <2>1 DEF IsTurn, Standings
  <2>4. FOLLOWDISTANCE \in 1 .. FOLLOWDISTANCE
    BY ConvoyAssumption
  <2>5. \A x \in Slots : Oldest(at.path[x]) \in Places
    BY <2>3, <2>4 DEF Oldest, Tracks
  <2>6. follower[y] # y /\ \A i \in 1 .. (n - 1) : s[i] # y
    <3>1. follower[s[n]] # s[n]
      BY <1>1, ChainAhead
    <3>2. ASSUME NEW i \in 1 .. (n - 1) PROVE s[i] # s[n]
      <4>1. n - 1 \in 1 .. (Len(s) - 1) /\ n - 1 \in 1 .. Len(s) /\ (n - 1) + 1 = n
        BY <1>1, <3>2
      <4>2. follower[s[n - 1]] # s[i] /\ s[n] = follower[s[n - 1]]
        BY <1>1, <4>1, ChainAhead
      <4> QED
        BY <4>2
    <3> QED
      BY <3>1, <3>2
  <2>7. follow[y] # NULL =>
          /\ follow[y] \in Slots /\ follow[y] # y /\ to.path[follow[y]] = at.path[follow[y]]
          /\ to.pos[y] = Oldest(at.path[follow[y]])
    BY <2>1, <2>6 DEF IsTurn, LinksTypeOK, LinksAgree
  <2>8. Adjacent(to.pos[y], at.pos[y])
    <3>1. CASE follow[y] = NULL
      BY <2>1, <3>1 DEF IsTurn
    <3>2. CASE follow[y] # NULL
      <4>1. at.pos[y] = Oldest(at.path[follow[y]]) \/ Adjacent(at.pos[y], Oldest(at.path[follow[y]]))
        BY <2>1, <2>2, <3>2 DEF InPlaceAt
      <4>2. Oldest(at.path[follow[y]]) \in Places /\ at.pos[y] \in Places
        BY <2>1, <2>3, <2>5, <2>7, <3>2
      <4> QED
        BY <2>7, <3>2, <4>1, <4>2, NextTo
    <3> QED
      BY <3>1, <3>2
  <2>9. Unbroken(to.pos[y], to.path[y]) /\ Adjacent(Oldest(at.path[y]), Oldest(to.path[y]))
    <3>1. Unbroken(at.pos[y], at.path[y])
      BY <2>1, <2>2
    <3>2. IsShift(to.path[y], at.pos[y], at.path[y])
      BY <2>1 DEF IsTurn
    <3>3. at.pos[y] \in Places /\ at.path[y] \in Tracks
      BY <2>1, <2>3
    <3> HIDE DEF y, at, to
    <3> QED
      BY <2>8, <3>1, <3>2, <3>3, ShiftUnbroken, Zenon
  <2>10. at.pos[y] = pos[y]
    BY <2>1, <2>2, <2>6
  <2>11. InLine(n, y)
    <3>1. InPlaceAt(to, y)
      BY <2>1 DEF IsTurn, InPlaceAt
    <3>2. Adjacent(to.pos[y], pos[y])
      BY <2>8, <2>10
    <3>3. n \in 1 .. n
      BY <1>1
    <3> QED
      BY <2>9, <3>1, <3>2, <3>3
  <2>12. ASSUME NEW x \in Slots, x # y
         PROVE  InLine(n, x)
    <3>1. to.pos[x] = at.pos[x] /\ to.path[x] = at.path[x]
      BY <2>1, <2>12 DEF IsTurn
    <3>2. InLine(n - 1, x)
      BY <2>2
    <3>3. (n - 1) + 1 = n
      BY <1>1
    <3>4. InPlaceAt(at, x)
      BY <2>12, <3>2, <3>3
    <3>5. InPlaceAt(to, x) \/ Lagging(n, x)
      <4>1. CASE follow[x] = NULL
        BY <4>1 DEF InPlaceAt
      <4>2. CASE follow[x] # NULL /\ follow[x] # y
        <5>1. follow[x] \in Slots
          BY <4>2 DEF LinksTypeOK
        <5>2. to.path[follow[x]] = at.path[follow[x]]
          BY <2>1, <4>2, <5>1 DEF IsTurn
        <5> QED
          BY <3>1, <3>4, <5>2 DEF InPlaceAt
      <4>3. CASE follow[x] # NULL /\ follow[x] = y
        <5>1. follower[y] = x /\ x # NULL
          BY <2>1, <4>3, LinksAssumption DEF LinksAgree, Slots, NULL
        <5>2. n \in 1 .. (Len(s) - 1) /\ n < Len(s)
          BY <1>1, <5>1
        <5>3. x = s[n + 1]
          BY <1>1, <5>1, <5>2
        <5>4. Adjacent(to.pos[x], Oldest(to.path[y]))
          BY <2>9, <3>1, <3>4, <4>3 DEF InPlaceAt
        <5> QED
          BY <4>3, <5>2, <5>3, <5>4
      <4> QED
        BY <4>1, <4>2, <4>3
    <3>6. (\A i \in 1 .. n : x # s[i]) => to.pos[x] = pos[x]
      <4>1. \A i \in 1 .. (n - 1) : i \in 1 .. n
        BY <1>1
      <4> QED
        BY <3>1, <3>2, <4>1
    <3> QED
      BY <3>1, <3>2, <3>5, <3>6
  <2>13. \A x \in Slots : InLine(n, x)
    BY <2>11, <2>12
  <2> HIDE DEF InLine
  <2> QED
    BY <2>1, <2>13
<1> HIDE DEF S, InLine
<1>5. Len(s) \in S
  <2>1. \A n \in 1 .. Len(s) : n - 1 \in S => n \in S
    BY <1>4
  <2>2. \A n \in 0 .. Len(s) : n \in S
    BY <1>1, <1>3, <2>1, Induction
  <2> QED
    BY <1>1, <2>2
<1>6. \A x \in Slots : InLine(Len(s), x)
  BY <1>5 DEF S
<1>7. ~ (Len(s) < Len(s))
  BY <1>1
<1> QED
  BY <1>6, <1>7 DEF InLine

-----------------------------------------------------------------------------
(* Every call and every tick.                                              *)

(* A track of one place has no gap.                                        *)
LEMMA StandingTracks ==
  ASSUME NEW p \in Places
  PROVE  Standing(p) \in Tracks /\ Oldest(Standing(p)) = p /\ Unbroken(p, Standing(p))
<1>1. FOLLOWDISTANCE \in Nat \ {0}
  BY ConvoyAssumption
<1>2. Standing(p) \in Tracks /\ \A i \in 1 .. FOLLOWDISTANCE : Standing(p)[i] = p
  BY DEF Standing, Tracks
<1>3. Adjacent(p, p)
  BY NextTo
<1>4. Oldest(Standing(p)) = p /\ Standing(p)[1] = p
  BY <1>1, <1>2 DEF Oldest
<1>5. \A i \in 1 .. (FOLLOWDISTANCE - 1) : Standing(p)[i] = p /\ Standing(p)[i + 1] = p
  BY <1>1, <1>2
<1> QED
  BY <1>2, <1>3, <1>4, <1>5 DEF Unbroken

(* setxy places the chain, and nobody else.                                *)
LEMMA PlacedParts ==
  ASSUME PlaceTypeOK, NEW e, NEW p \in Places, PlacedAt(e, p)
  PROVE  /\ PlaceTypeOK'
         /\ \A x \in Slots :
              IF x \in ToSet(Chain(e))
              THEN pos'[x] = p /\ way'[x] = p /\ path'[x] = Standing(p)
              ELSE pos'[x] = pos[x] /\ way'[x] = way[x] /\ path'[x] = path[x]
<1> DEFINE all == ToSet(Chain(e))
<1>1. Standing(p) \in Tracks
  BY StandingTracks
<1>2. /\ pos'  = [x \in Slots |-> IF x \in all THEN p ELSE pos[x]]
      /\ way'  = [x \in Slots |-> IF x \in all THEN p ELSE way[x]]
      /\ path' = [x \in Slots |-> IF x \in all THEN Standing(p) ELSE path[x]]
  BY DEF PlacedAt
<1> HIDE DEF all
<1>3. pos' \in [Slots -> Places] /\ way' \in [Slots -> Places] /\ path' \in [Slots -> Tracks]
  BY <1>1, <1>2 DEF PlaceTypeOK
<1> QED
  BY <1>2, <1>3 DEF all, PlaceTypeOK

(* Who stalks after a step and is off its waypoint was left alone by it.   *)
KeptAtWaypoint(x) ==
  follow'[x] # NULL /\ way'[x] # pos'[x] =>
    /\ pos'[x] = pos[x] /\ path'[x] = path[x]
    /\ x = myself \/ way[x] # pos[x]

(* The types hold after every step, and it takes no stalker off its        *)
(* waypoint but a player.                                                  *)
LEMMA RestKept ==
  ASSUME LinksInv, PlaceTypeOK, [ConvoyNext]_convoyVars
  PROVE  PlaceTypeOK' /\ \A x \in Slots : KeptAtWaypoint(x)
<1>1. /\ LinksTypeOK /\ Live \subseteq Slots /\ 0 \in Places
      /\ follow \in [Slots -> Slots \cup {NULL}] /\ NULL \notin Live
  BY LiveInSlots, ConvoyAssumption DEF LinksInv, LinksTypeOK, Places
<1>2. CASE UNCHANGED placeVars
  <2>1. pos' = pos /\ way' = way /\ path' = path
    BY <1>2 DEF placeVars
  <2> QED
    BY <2>1 DEF PlaceTypeOK, KeptAtWaypoint
<1>3. ASSUME NEW p \in Places, SpawnAt(p)
      PROVE  PlaceTypeOK' /\ \A x \in Slots : KeptAtWaypoint(x)
  <2>1. entities \in Slots /\ Standing(p) \in Tracks
    BY <1>1, <1>3, LinksAssumption, StandingTracks DEF SpawnAt, AllocateEntity, LinksTypeOK, Slots
  <2>2. PlaceTypeOK'
    BY <1>3, <2>1 DEF SpawnAt, PlaceTypeOK
  <2>3. ASSUME NEW x \in Slots
        PROVE  KeptAtWaypoint(x)
    BY <1>1, <1>3, <2>1, <2>3 DEF SpawnAt, AllocateEntity, PlaceTypeOK, KeptAtWaypoint
  <2> QED
    BY <2>2, <2>3
<1>4. ASSUME NEW f \in Live, NEW e \in Live, StalkAndJoin(f, e)
      PROVE  PlaceTypeOK' /\ \A x \in Slots : KeptAtWaypoint(x)
  <2> DEFINE p == Oldest(path[e])
  <2>1. p \in Places
    BY <1>1, <1>4, ConvoyAssumption DEF PlaceTypeOK, Tracks, Oldest
  <2>2. Standing(p) \in Tracks
    BY <2>1, StandingTracks
  <2>3. /\ pos' = [pos EXCEPT ![f] = p] /\ way' = [way EXCEPT ![f] = p]
        /\ path' = [path EXCEPT ![f] = Standing(p)]
    BY <1>4 DEF StalkAndJoin, EntityStalk, Stalk
  <2> HIDE DEF p
  <2>4. PlaceTypeOK'
    BY <2>1, <2>2, <2>3 DEF PlaceTypeOK
  <2>5. ASSUME NEW x \in Slots
        PROVE  KeptAtWaypoint(x)
    BY <1>1, <2>3, <2>5 DEF PlaceTypeOK, KeptAtWaypoint
  <2> QED
    BY <2>4, <2>5
<1>5. ASSUME NEW e \in Live, NEW p \in Places, SetXY(e, p)
      PROVE  PlaceTypeOK' /\ \A x \in Slots : KeptAtWaypoint(x)
  <2>1. PlacedAt(e, p)
    BY <1>5 DEF SetXY
  <2>2. /\ PlaceTypeOK'
        /\ \A x \in Slots : pos'[x] = way'[x]
                              \/ (pos'[x] = pos[x] /\ way'[x] = way[x] /\ path'[x] = path[x])
    BY <2>1, PlacedParts
  <2> QED
    BY <2>2 DEF KeptAtWaypoint
<1>6. ASSUME NEW e \in Live, NEW w \in Places, Tick(e, w)
      PROVE  PlaceTypeOK' /\ \A x \in Slots : KeptAtWaypoint(x)
  <2>1. follow' = follow /\ e \in Slots
    BY <1>1, <1>6 DEF Tick, linkVars
  <2>2. CASE MoveTick(e, w)
    <3>1. PICK a : /\ Marches(a, Chain(e), e, w)
                   /\ pos' = a[Len(Chain(e))].pos /\ way' = a[Len(Chain(e))].way
                   /\ path' = a[Len(Chain(e))].path
      BY <1>1, <2>1, <2>2, MoveTickMarches
    <3>2. IsChain(Chain(e), e)
      BY <1>1, <2>1, ChainOfFollowers
    <3>3. a[Len(Chain(e))] \in Standings
      <4>1. Len(Chain(e)) \in 0 .. Len(Chain(e))
        BY <3>2 DEF IsChain
      <4> QED
        BY <3>1, <4>1 DEF Marches
    <3>4. PlaceTypeOK'
      BY <3>1, <3>3 DEF PlaceTypeOK, Standings
    <3>5. \A x \in Slots : follow[x] # NULL => RestsAt(a[Len(Chain(e))], x)
      BY <1>1, <2>1, <3>1, <3>2, MarchRests
    <3> QED
      BY <2>1, <3>1, <3>4, <3>5 DEF RestsAt, KeptAtWaypoint
  <2>3. CASE ~ MoveTick(e, w)
    <3>1. follow[e] = NULL /\ way' = [way EXCEPT ![e] = w] /\ UNCHANGED <<pos, path>>
      BY <1>6, <2>3 DEF Tick
    <3>2. PlaceTypeOK'
      BY <2>1, <3>1 DEF PlaceTypeOK
    <3>3. ASSUME NEW x \in Slots
          PROVE  KeptAtWaypoint(x)
      BY <2>1, <3>1, <3>3 DEF PlaceTypeOK, KeptAtWaypoint
    <3> QED
      BY <3>2, <3>3
  <2> QED
    BY <2>2, <2>3
<1>7. ASSUME NEW e \in Live, way' = [way EXCEPT ![e] = pos[e]], UNCHANGED <<pos, path>>
      PROVE  PlaceTypeOK' /\ \A x \in Slots : KeptAtWaypoint(x)
  <2>1. PlaceTypeOK'
    BY <1>1, <1>7 DEF PlaceTypeOK
  <2>2. \A x \in Slots : way'[x] = pos[x] \/ way'[x] = way[x]
    BY <1>1, <1>7 DEF PlaceTypeOK
  <2> QED
    BY <1>7, <2>1, <2>2 DEF KeptAtWaypoint
<1>8. CASE \E e \in Live, code \in Movements : StopAndSet(e, code)
  BY <1>7, <1>8 DEF StopAndSet
<1>9. CASE \E e \in Live \cup {NULL} : BecomePlayer(e)
  BY <1>2, <1>7, <1>9 DEF BecomePlayer, placeVars
<1>10. ASSUME NEW w \in Places, PlayerControls(w)
       PROVE  PlaceTypeOK' /\ \A x \in Slots : KeptAtWaypoint(x)
  <2>1. way' = [way EXCEPT ![myself] = w] /\ UNCHANGED <<pos, path>>
    BY <1>10 DEF PlayerControls
  <2>2. PlaceTypeOK'
    BY <2>1 DEF PlaceTypeOK
  <2>3. ASSUME NEW x \in Slots, x # myself
        PROVE  way'[x] = way[x]
    BY <2>1, <2>3 DEF PlaceTypeOK
  <2> QED
    BY <2>1, <2>2, <2>3 DEF KeptAtWaypoint
<1>11. CASE ConvoyLeaveMap
  <2>1. Standing(0) \in Tracks
    BY <1>1, StandingTracks
  <2> QED
    BY <1>1, <1>11, <2>1 DEF ConvoyLeaveMap, LeaveMap, PlaceTypeOK, KeptAtWaypoint
<1>12. CASE \E f \in Live, e \in Live \cup {NULL} : StalkAndJoin(f, e)
  <2>1. PICK f \in Live, e \in Live \cup {NULL} : StalkAndJoin(f, e)
    BY <1>12
  <2>2. e \in Live \/ UNCHANGED placeVars
    BY <2>1 DEF StalkAndJoin
  <2> QED
    BY <1>2, <1>4, <2>1, <2>2
<1>13. UNCHANGED convoyVars => UNCHANGED placeVars
  BY DEF convoyVars
<1> QED
  BY <1>2, <1>3, <1>5, <1>6, <1>8, <1>9, <1>10, <1>11, <1>12, <1>13 DEF ConvoyNext

(* Of the empty map too.                                                   *)
LEMMA RestInit == ConvoyInit => PlaceTypeOK
<1>1. 0 \in Places /\ Standing(0) \in Tracks
  BY ConvoyAssumption, StandingTracks DEF Places
<1> QED
  BY <1>1 DEF ConvoyInit, PlaceTypeOK

LEMMA ConvoyLinks == ConvoySpec => []LinksInv
BY ConvoysKeepLinks, LinksInvAlways, PTL DEF LinksKept

LEMMA RestAlways == ConvoySpec => [](LinksInv /\ PlaceTypeOK)
<1>1. LinksInv /\ PlaceTypeOK /\ [ConvoyNext]_convoyVars => PlaceTypeOK'
  BY RestKept
<1> QED
  BY <1>1, RestInit, ConvoyLinks, PTL DEF ConvoySpec

(* For any number of entities, any length of the path, any calls, moves    *)
(* and controls: whatever puts a stalker on a place (move_tick for a whole *)
(* convoy, EntityStalk, setxy, the stopping calls) puts it on its waypoint,*)
(* and no step but the player's own controls takes one off it.             *)
THEOREM StalkersStandStill == ConvoySpec => StalkersKeptAtWaypoint
<1>1. LinksInv /\ PlaceTypeOK /\ [ConvoyNext]_convoyVars
        => [ \A e \in Slots :
               follow'[e] # NULL /\ way'[e] # pos'[e] =>
                 /\ pos'[e] = pos[e] /\ path'[e] = path[e]
                 /\ e = myself \/ way[e] # pos[e] ]_convoyVars
  BY RestKept DEF KeptAtWaypoint
<1> QED
  BY <1>1, RestAlways, PTL DEF ConvoySpec, StalkersKeptAtWaypoint

(* A chain holds with each entity the one it drags.                        *)
LEMMA ChainClosed ==
  ASSUME LinksTypeOK, AllWalksEnd(follower), NEW e \in Slots,
         NEW x \in Slots, x \in ToSet(Chain(e))
  PROVE  /\ follower[x] # NULL => follower[x] \in ToSet(Chain(e))
         /\ x # e => \E y \in ToSet(Chain(e)) : follower[y] = x
<1> DEFINE s == Chain(e)
<1>1. IsChain(s, e) /\ follower[s[Len(s)]] = NULL
  BY ChainOfFollowers, ChainEnds DEF Last
<1> HIDE DEF s
<1>2. /\ s \in Seq(Slots) /\ Len(s) \in Nat \ {0} /\ s[1] = e /\ DOMAIN s = 1 .. Len(s)
      /\ \A i \in 1 .. (Len(s) - 1) : s[i + 1] = follower[s[i]]
  BY <1>1 DEF IsChain
<1>3. ToSet(s) = {s[i] : i \in 1 .. Len(s)}
  BY <1>2 DEF ToSet
<1>4. PICK i \in 1 .. Len(s) : x = s[i]
  BY <1>3 DEF s
<1>5. ASSUME follower[x] # NULL
      PROVE  follower[x] \in ToSet(s)
  <2>1. i \in 1 .. (Len(s) - 1) /\ i + 1 \in 1 .. Len(s)
    BY <1>1, <1>2, <1>4, <1>5
  <2> QED
    BY <1>2, <1>3, <1>4, <2>1
<1>6. ASSUME x # e
      PROVE  \E y \in ToSet(s) : follower[y] = x
  <2>1. i - 1 \in 1 .. (Len(s) - 1) /\ i - 1 \in 1 .. Len(s) /\ (i - 1) + 1 = i
    BY <1>2, <1>4, <1>6
  <2>2. follower[s[i - 1]] = x /\ s[i - 1] \in ToSet(s)
    BY <1>2, <1>3, <1>4, <2>1
  <2> QED
    BY <2>2
<1> QED
  BY <1>5, <1>6 DEF s

(* Convoys in line: each stalker in its place, each track without gaps.    *)
InLine ==
  \A x \in Slots : /\ Unbroken(pos[x], path[x])
                   /\ follow[x] # NULL => pos[x] = Oldest(path[follow[x]])

(* A step that moves nobody and links nobody anew.                         *)
LEMMA InLineUnlinked ==
  ASSUME LinksTypeOK, InLine, UNCHANGED <<pos, path>>,
         \A x \in Slots : follow'[x] # NULL => follow'[x] = follow[x]
  PROVE  InLine'
<1>1. \A x \in Slots : follow'[x] # NULL => follow[x] # NULL /\ path'[follow'[x]] = path[follow[x]]
  OBVIOUS
<1> QED
  BY <1>1 DEF InLine

(* A head placed by hand takes its whole convoy along, in line.            *)
LEMMA PlacingInLine ==
  ASSUME LinksTypeOK, PlaceTypeOK, LinksAgree, AllWalksEnd(follower), InLine,
         NEW e \in Slots, NEW p \in Places, follow[e] = NULL, PlacedAt(e, p), follow' = follow
  PROVE  /\ InLine'
         /\ \A x \in Slots : Adjacent(pos'[x], pos[x]) \/ path'[x] = Standing(pos'[x])
<1> DEFINE all == ToSet(Chain(e))
<1>1. \A x \in Slots :
        IF x \in all
        THEN pos'[x] = p /\ path'[x] = Standing(p)
        ELSE pos'[x] = pos[x] /\ path'[x] = path[x]
  BY PlacedParts
<1>2. Oldest(Standing(p)) = p /\ Unbroken(p, Standing(p))
  BY StandingTracks
<1>3. \A x \in Slots : pos[x] \in Places
  BY DEF PlaceTypeOK
<1>4. ASSUME NEW x \in Slots, follow[x] # NULL
      PROVE  follow[x] \in Slots /\ (follow[x] \in all <=> x \in all)
  <2>1. follow[x] \in Slots /\ follower[follow[x]] = x /\ x # NULL /\ x # e
    BY <1>4, LinksAssumption DEF LinksTypeOK, LinksAgree, Slots, NULL
  <2>2. follow[x] \in all => x \in all
    BY <2>1, ChainClosed
  <2>3. ASSUME x \in all
        PROVE  follow[x] \in all
    <3>1. PICK y \in all : follower[y] = x
      BY <2>1, <2>3, ChainClosed
    <3>2. y \in Slots
      <4>1. IsChain(Chain(e), e)
        BY ChainOfFollowers
      <4> QED
        BY <3>1, <4>1 DEF IsChain, ToSet
    <3>3. follow[x] = y
      BY <3>1, <3>2 DEF LinksAgree
    <3> QED
      BY <3>1, <3>3
  <2> QED
    BY <2>1, <2>2, <2>3
<1> HIDE DEF all
<1>5. ASSUME NEW x \in Slots
      PROVE  /\ Unbroken(pos'[x], path'[x])
             /\ follow'[x] # NULL => pos'[x] = Oldest(path'[follow'[x]])
  BY <1>1, <1>2, <1>4, <1>5 DEF InLine
<1>6. InLine'
  BY <1>5 DEF InLine
<1>7. \A x \in Slots : Adjacent(pos'[x], pos[x]) \/ path'[x] = Standing(pos'[x])
  BY <1>1, <1>3, NextTo
<1> QED
  BY <1>6, <1>7

(* A call or tick keeps convoys in line, and moves nobody by more than a   *)
(* pixel whom it does not place anew.                                      *)
LEMMA InLineKept ==
  ASSUME ~ RestalkAllowed, TailJoinsOnly, LinksInv, RecursionTerminates, LinksAgree, PlaceTypeOK,
         InLine, [ConvoyNext]_convoyVars
  PROVE  /\ InLine'
         /\ entities' >= entities =>
              \A x \in Live : Adjacent(pos'[x], pos[x]) \/ path'[x] = Standing(pos'[x])
<1>1. /\ LinksTypeOK /\ Live \subseteq Slots /\ 0 \in Places /\ NULL \notin Slots
      /\ follow \in [Slots -> Slots \cup {NULL}] /\ NULL \notin Live
  BY LiveInSlots, LinksAssumption, ConvoyAssumption DEF LinksInv, LinksTypeOK, Places, Slots, NULL
<1>2. running => AllWalksEnd(follower)
  BY DEF RecursionTerminates, AllWalksEnd
<1>3. \A x \in Slots : pos[x] \in Places /\ path[x] \in Tracks /\ Adjacent(pos[x], pos[x])
  BY NextTo DEF PlaceTypeOK
<1>4. ASSUME UNCHANGED <<pos, path>>,
             \A x \in Slots : follow'[x] # NULL => follow'[x] = follow[x]
      PROVE  InLine' /\ \A x \in Live : Adjacent(pos'[x], pos[x])
  BY <1>1, <1>3, <1>4, InLineUnlinked
<1>5. CASE UNCHANGED convoyVars
  BY <1>4, <1>5 DEF convoyVars, linkVars, placeVars
<1>6. ASSUME NEW p \in Places, SpawnAt(p)
      PROVE  InLine' /\ \A x \in Live : Adjacent(pos'[x], pos[x])
  <2>1. entities \in Slots /\ entities \notin Live /\ Unbroken(p, Standing(p))
    BY <1>1, <1>6, LinksAssumption, StandingTracks DEF SpawnAt, AllocateEntity, LinksTypeOK, Slots, Live
  <2>2. /\ pos' = [pos EXCEPT ![entities] = p] /\ path' = [path EXCEPT ![entities] = Standing(p)]
        /\ follow' = [follow EXCEPT ![entities] = NULL]
    BY <1>6 DEF SpawnAt, AllocateEntity
  <2>3. \A x \in Slots : follow[x] # NULL => follow[x] \in Live
    BY <1>1 DEF LinksInv, NoDanglingLink, DeadUnlinked
  <2>4. ASSUME NEW x \in Slots, x # entities
        PROVE  /\ pos'[x] = pos[x] /\ path'[x] = path[x] /\ follow'[x] = follow[x]
               /\ follow[x] # NULL => path'[follow[x]] = path[follow[x]]
    BY <1>1, <2>1, <2>2, <2>3, <2>4 DEF PlaceTypeOK
  <2>5. pos'[entities] = p /\ path'[entities] = Standing(p) /\ follow'[entities] = NULL
    BY <1>1, <2>1, <2>2 DEF PlaceTypeOK
  <2>6. InLine'
    BY <2>1, <2>4, <2>5 DEF InLine
  <2> QED
    BY <1>1, <1>3, <2>1, <2>4, <2>6
<1>7. ASSUME NEW f \in Live, NEW e \in Live \cup {NULL}, StalkAndJoin(f, e)
      PROVE  InLine' /\ \A x \in Live : Adjacent(pos'[x], pos[x]) \/ path'[x] = Standing(pos'[x])
  <2>1. CASE e \in Live
    <3> DEFINE p == Oldest(path[e])
    <3>1. p \in Places
      BY <1>1, <1>3, <2>1, ConvoyAssumption DEF Tracks, Oldest
    <3>2. Oldest(Standing(p)) = p /\ Unbroken(p, Standing(p))
      BY <3>1, StandingTracks
    <3>3. /\ pos' = [pos EXCEPT ![f] = p] /\ path' = [path EXCEPT ![f] = Standing(p)]
          /\ follow' = [follow EXCEPT ![f] = e] /\ follower[f] = NULL
      BY <1>7, <2>1 DEF StalkAndJoin, EntityStalk, Stalk
    <3>4. \A x \in Slots : follow[x] # f
      BY <1>1, <3>3 DEF LinksAgree
    <3> HIDE DEF p
    <3>5. ASSUME NEW x \in Slots, x # f
          PROVE  /\ pos'[x] = pos[x] /\ path'[x] = path[x] /\ follow'[x] = follow[x]
                 /\ follow[x] # NULL => path'[follow[x]] = path[follow[x]]
      BY <1>1, <3>3, <3>4, <3>5 DEF PlaceTypeOK
    <3>6. pos'[f] = p /\ path'[f] = Standing(p) /\ follow'[f] = e
      BY <1>1, <3>3 DEF PlaceTypeOK
    <3>7. Oldest(path'[e]) = p
      BY <1>1, <2>1, <3>2, <3>5, <3>6 DEF p
    <3>8. InLine'
      BY <1>1, <3>2, <3>5, <3>6, <3>7 DEF InLine
    <3> QED
      BY <1>1, <1>3, <3>5, <3>6, <3>8
  <2>2. CASE e \notin Live
    <3>1. UNCHANGED placeVars /\ follow' = [follow EXCEPT ![f] = NULL]
      BY <1>7, <2>2 DEF StalkAndJoin, EntityStalk, ClearStalk
    <3>2. \A x \in Slots : follow'[x] # NULL => follow'[x] = follow[x]
      BY <1>1, <3>1
    <3> QED
      BY <1>4, <3>1, <3>2 DEF placeVars
  <2> QED
    BY <2>1, <2>2
<1>8. ASSUME running, NEW e \in Live, NEW p \in Places, SetXY(e, p)
      PROVE  InLine' /\ \A x \in Live : Adjacent(pos'[x], pos[x]) \/ path'[x] = Standing(pos'[x])
  <2>1. PlacedAt(e, p) /\ follow' = follow /\ follow[e] = NULL
    BY <1>8 DEF SetXY, linkVars
  <2> QED
    BY <1>1, <1>2, <1>8, <2>1, PlacingInLine
<1>9. ASSUME running, NEW e \in Live, NEW w \in Places, Tick(e, w)
      PROVE  InLine' /\ \A x \in Live : Adjacent(pos'[x], pos[x])
  <2>1. follow' = follow /\ e \in Slots
    BY <1>1, <1>9 DEF Tick, linkVars
  <2>2. CASE MoveTick(e, w)
    <3> DEFINE s == Chain(e)
    <3>1. PICK a : /\ Marches(a, s, e, w)
                   /\ pos' = a[Len(s)].pos /\ path' = a[Len(s)].path
      BY <1>1, <2>1, <2>2, MoveTickMarches
    <3>2. IsChain(s, e) /\ follower[s[Len(s)]] = NULL
      BY <1>1, <1>2, <1>9, <2>1, ChainOfFollowers, ChainEnds DEF Last
    <3> HIDE DEF s
    <3>3. \A x \in Slots : /\ Unbroken(a[Len(s)].pos[x], a[Len(s)].path[x])
                           /\ InPlaceAt(a[Len(s)], x)
                           /\ Adjacent(a[Len(s)].pos[x], pos[x])
      BY <1>1, <1>2, <1>9, <2>1, <3>1, <3>2, MarchInLine DEF InLine
    <3>4. InLine'
      BY <2>1, <3>1, <3>3 DEF InLine, InPlaceAt
    <3> QED
      BY <1>1, <3>1, <3>3, <3>4
  <2>3. CASE ~ MoveTick(e, w)
    <3>1. UNCHANGED <<pos, path>>
      BY <1>9, <2>3 DEF Tick
    <3> QED
      BY <1>4, <2>1, <3>1
  <2> QED
    BY <2>2, <2>3
<1>10. ASSUME NEW e \in Live, follow' = [follow EXCEPT ![e] = NULL], UNCHANGED <<pos, path>>
       PROVE  InLine' /\ \A x \in Live : Adjacent(pos'[x], pos[x])
  <2>1. \A x \in Slots : follow'[x] # NULL => follow'[x] = follow[x]
    BY <1>1, <1>10
  <2> QED
    BY <1>4, <1>10, <2>1
<1>11. CASE \E e \in Live, code \in Movements : StopAndSet(e, code)
  BY <1>10, <1>11 DEF StopAndSet, SetMovement, ClearStalk
<1>12. CASE \E e \in Live \cup {NULL} : BecomePlayer(e)
  <2>1. PICK e \in Live \cup {NULL} : BecomePlayer(e)
    BY <1>12
  <2>2. CASE e \in Live
    BY <1>10, <2>1, <2>2 DEF BecomePlayer, SetPlayer, SetMovement, ClearStalk
  <2>3. CASE e \notin Live
    BY <1>4, <2>1, <2>3 DEF BecomePlayer, SetPlayer
  <2> QED
    BY <2>2, <2>3
<1>13. CASE UNCHANGED <<pos, path>> /\ follow' = follow
  BY <1>4, <1>13
<1>14. CASE ConvoyLeaveMap
  <2>1. Unbroken(0, Standing(0))
    BY <1>1, StandingTracks
  <2>2. InLine'
    BY <1>1, <1>14, <2>1 DEF ConvoyLeaveMap, LeaveMap, InLine
  <2>3. entities' = 0 /\ (entities' >= entities => Live = {})
    BY <1>1, <1>14 DEF ConvoyLeaveMap, LeaveMap, LinksTypeOK, Live
  <2> QED
    BY <2>2, <2>3
<1>15. /\ \A e \in Live : MoveScriptEnds(e) => follow' = follow
       /\ \A w : PlayerControls(w) => UNCHANGED <<pos, path>> /\ follow' = follow
       /\ UNCHANGED placeVars => UNCHANGED <<pos, path>>
  BY DEF MoveScriptEnds, PlayerControls, PlayerEntityMoveCleanup, linkVars, placeVars
<1> QED
  BY <1>5, <1>6, <1>7, <1>8, <1>9, <1>11, <1>12, <1>13, <1>14, <1>15 DEF ConvoyNext

(* Whom a step gives another track without placing it anew, a tick drags.  *)
LEMMA OrderRestored ==
  ASSUME LinksInv, RecursionTerminates, LinksAgree, PlaceTypeOK, [ConvoyNext]_convoyVars,
         entities' >= entities, NEW x \in Live, follow[x] # NULL,
         path'[x] # path[x], path'[x] # Standing(pos'[x])
  PROVE  pos'[x] = Oldest(path'[follow[x]])
<1>1. LinksTypeOK /\ Live \subseteq Slots /\ x \in Slots /\ path \in [Slots -> Tracks]
  BY LiveInSlots DEF LinksInv, PlaceTypeOK
<1>2. running => AllWalksEnd(follower)
  BY DEF RecursionTerminates, AllWalksEnd
<1>3. CASE path' = path
  BY <1>3
<1>4. ASSUME NEW p \in Places, SpawnAt(p)
      PROVE  FALSE
  <2>1. x # entities
    BY <1>1 DEF Live, LinksTypeOK
  <2>2. path' = [path EXCEPT ![entities] = Standing(p)]
    BY <1>4 DEF SpawnAt
  <2> QED
    BY <1>1, <2>1, <2>2
<1>5. ASSUME NEW f \in Live, NEW e \in Live \cup {NULL}, StalkAndJoin(f, e)
      PROVE  FALSE
  <2>1. e \in Live /\ pos' = [pos EXCEPT ![f] = Oldest(path[e])]
        /\ path' = [path EXCEPT ![f] = Standing(Oldest(path[e]))]
    BY <1>3, <1>5 DEF StalkAndJoin, placeVars
  <2>2. CASE x = f
    BY <1>1, <2>1, <2>2 DEF PlaceTypeOK
  <2>3. CASE x # f
    BY <1>1, <2>1, <2>3
  <2> QED
    BY <2>2, <2>3
<1>6. ASSUME NEW e \in Live, NEW p \in Places, SetXY(e, p)
      PROVE  FALSE
  <2>1. PlacedAt(e, p)
    BY <1>6 DEF SetXY
  <2> QED
    BY <1>1, <2>1, PlacedParts
<1>7. ASSUME running, NEW e \in Live, NEW w \in Places, Tick(e, w)
      PROVE  pos'[x] = Oldest(path'[follow[x]])
  <2>1. e \in Slots
    BY <1>1
  <2>2. CASE MoveTick(e, w)
    <3> DEFINE s == Chain(e)
    <3>1. PICK a : Marches(a, s, e, w) /\ pos' = a[Len(s)].pos /\ path' = a[Len(s)].path
      BY <1>1, <2>1, <2>2, MoveTickMarches
    <3>2. IsChain(s, e)
      BY <1>1, <2>1, ChainOfFollowers
    <3> HIDE DEF s
    <3>3. OrderAt(a[Len(s)], x)
      BY <1>1, <1>2, <1>7, <2>1, <3>1, <3>2, MarchInOrder
    <3> QED
      BY <3>1, <3>3 DEF OrderAt
  <2>3. CASE ~ MoveTick(e, w)
    BY <1>3, <1>7, <2>3 DEF Tick
  <2> QED
    BY <2>2, <2>3
<1>8. CASE ConvoyLeaveMap
  <2>1. Live = {}
    BY <1>1, <1>8 DEF ConvoyLeaveMap, LeaveMap, LinksTypeOK, Live
  <2> QED
    BY <2>1
<1>9. (\E e \in Live, code \in Movements : StopAndSet(e, code)) \/ (\E e \in Live \cup {NULL} : BecomePlayer(e))
        \/ (\E w \in Places : PlayerControls(w)) => path' = path
  BY DEF StopAndSet, BecomePlayer, PlayerControls
<1>10. UNCHANGED placeVars \/ UNCHANGED convoyVars => path' = path
  BY DEF placeVars, convoyVars
<1> QED
  BY <1>3, <1>4, <1>5, <1>6, <1>7, <1>8, <1>9, <1>10 DEF ConvoyNext

(* Whatever scripts did to the members of a convoy before (restalk, place, *)
(* stop), while its links agree one move_tick of its head puts every       *)
(* member it drags on its leader's oldest place again: the recursion along *)
(* `follower' shifts a leader's path before it reads it for the follower.  *)
THEOREM MovesRestoreOrder == ConvoySpec => MoveRestoresOrder
<1>1. LinksInv /\ RecursionTerminates /\ PlaceTypeOK /\ [ConvoyNext]_convoyVars
        => [ LinksAgree /\ entities' >= entities =>
               \A e \in Live :
                  follow[e] # NULL /\ path'[e] # path[e] /\ path'[e] # Standing(pos'[e])
                    => pos'[e] = Oldest(path'[follow[e]]) ]_convoyVars
  BY OrderRestored
<1>2. ConvoySpec => []RecursionTerminates
  BY ConvoysSafe, PTL
<1> QED
  BY <1>1, <1>2, RestAlways, PTL DEF ConvoySpec, MoveRestoresOrder

(* On an empty map everybody is in line.                                   *)
LEMMA InLineInit == ConvoyInit => InLine
<1>1. 0 \in Places
  BY ConvoyAssumption DEF Places
<1>2. Unbroken(0, Standing(0))
  BY <1>1, StandingTracks
<1> QED
  BY <1>2 DEF ConvoyInit, LinksInit, InLine

(* When scripts build convoys at their tail and move only heads by hand:   *)
(* for any number of entities and any FOLLOWDISTANCE, each stalker stands  *)
(* where its leader stood that many of the leader's moves ago, and no      *)
(* track has a gap.  The induction goes along the chain move_tick drags:   *)
(* while it runs only the entity to be dragged next lags, by a pixel.      *)
THEOREM ConvoysInLine == (~ RestalkAllowed /\ TailJoinsOnly) /\ ConvoySpec => []ConvoyInv
<1> SUFFICES ASSUME ~ RestalkAllowed, TailJoinsOnly PROVE ConvoySpec => []ConvoyInv
  OBVIOUS
<1>1. LinksInv /\ RecursionTerminates /\ LinksAgree /\ PlaceTypeOK /\ InLine /\ [ConvoyNext]_convoyVars => InLine'
  BY InLineKept
<1>2. LinksInv /\ PlaceTypeOK /\ InLine => ConvoyInv
  BY LiveInSlots DEF LinksInv, PlaceTypeOK, InLine, ConvoyInv, ConvoyTypeOK, ConvoyInPlace, TrackUnbroken,
                     Unbroken, Tracks
<1>3. ConvoySpec => []RecursionTerminates
  BY ConvoysSafe, PTL
<1>4. ConvoySpec => []LinksAgree
  BY ConvoysKeepLinks, SingleLinksAgree, PTL DEF LinksKept
<1> QED
  BY InLineInit, <1>1, <1>2, <1>3, <1>4, RestAlways, PTL DEF ConvoySpec

(* Of such convoys nobody jumps: move_tick takes every member a pixel on   *)
(* at most, and only EntityStalk and setxy place anybody elsewhere.        *)
THEOREM NobodyJumps == (~ RestalkAllowed /\ TailJoinsOnly) /\ ConvoySpec => NoJump
<1> SUFFICES ASSUME ~ RestalkAllowed, TailJoinsOnly PROVE ConvoySpec => NoJump
  OBVIOUS
<1>1. LinksInv /\ RecursionTerminates /\ LinksAgree /\ PlaceTypeOK /\ InLine /\ [ConvoyNext]_convoyVars
        => /\ InLine'
           /\ [ entities' >= entities =>
                  \A e \in Live : Adjacent(pos'[e], pos[e]) \/ path'[e] = Standing(pos'[e]) ]_convoyVars
  BY InLineKept
<1>2. ConvoySpec => []RecursionTerminates
  BY ConvoysSafe, PTL
<1>3. ConvoySpec => []LinksAgree
  BY ConvoysKeepLinks, SingleLinksAgree, PTL DEF LinksKept
<1> QED
  BY InLineInit, <1>1, <1>2, <1>3, RestAlways, PTL DEF ConvoySpec, NoJump

=============================================================================
