------------------------------- MODULE MCFrame -------------------------------
(* A timer callback that keeps to itself, and scripts two deep.  A bound:  *)
(* scripts write the rate, the wait and the timer of the first sprite, and *)
(* only the rate of others.                                                *)
EXTENDS Frame

Nothing == {}

Keeps(s, t) == s.image = t.image => t.wait = s.wait /\ t.timer = s.timer

MCNext ==
  /\ FrameNext
  /\ UNCHANGED stack =>
       \A n \in (DOMAIN sprites \cap DOMAIN sprites') \ {1} :
         sprites'[n] = NewSprite \/ Keeps(sprites[n], sprites'[n])

MCSpec == FrameInit /\ [][MCNext]_frameVars
=============================================================================
