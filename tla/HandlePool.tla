----------------------------- MODULE HandlePool -----------------------------
(***************************************************************************)
(* What a handle set promises its users (verge/Source/a_handle.h): a       *)
(* handle is given to one user at a time, until that user gives it back.   *)
(***************************************************************************)
CONSTANTS
  Handles,    \* all handles there may be
  Reserved,   \* the handles set aside by forceAlloc
  Users

VARIABLE owned    \* the handles of each user

PoolInit == owned = [u \in Users |-> {}]

Acquire(u, h) ==
  /\ h \notin Reserved /\ \A v \in Users : h \notin owned[v]
  /\ owned' = [owned EXCEPT ![u] = @ \cup {h}]

Release(u, h) ==
  /\ h \in owned[u]
  /\ owned' = [owned EXCEPT ![u] = @ \ {h}]

PoolNext == \E u \in Users, h \in Handles : Acquire(u, h) \/ Release(u, h)

PoolSpec == PoolInit /\ [][PoolNext]_owned

=============================================================================
