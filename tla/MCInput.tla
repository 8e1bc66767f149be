------------------------------ MODULE MCInput -------------------------------
(* Two buttons on the arrow keys, a letter that runs a script, and one     *)
(* that only types: three characters fit the buffer, so two that differ    *)
(* must come out in their order.  A player uses the buttons with the       *)
(* letter, or types: not all four keys in one behaviour (a bound).         *)
EXTENDS Input

CONSTANTS left, right, letter, word

AllKeys    == {left, right, letter, word}
TwoButtons == <<left, right>>
Letters    == {letter}
TypedKeys  == {letter, word}
TwoArrows  == <<left, right>>

VARIABLE using   \* the keys the player presses

MCVars == <<inputVars, using>>
MCInit == InputInit /\ using \in {{left, right, letter}, TypedKeys}
MCNext == InputNext /\ hand' \subseteq using /\ UNCHANGED using
MCSpec == MCInit /\ [][MCNext]_MCVars
=============================================================================
