---------------------------- MODULE MCEngineLoop ----------------------------
(* Scripts two deep: a script called by the engine, and one called by a    *)
(* loop the first one started.                                             *)
EXTENDS EngineLoop

EveryCall == AllCalls

(* A bound: a move has no end for one reason at a time, and a script with  *)
(* B has all its letters before it.                                        *)
OneReason == (rewind >= 0 \/ movecode = 1 => speed > 0) /\ rewind \in {-1, MaxPath}

MCSpec == LoopInit /\ [][LoopNext /\ OneReason']_loopVars
MCFairSpec == MCSpec /\ LoopFairness
=============================================================================
