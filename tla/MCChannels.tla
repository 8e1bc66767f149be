----------------------------- MODULE MCChannels -----------------------------
(* Three streams and handles added two at a time: the stack is filled      *)
(* twice, and addresses and handles are used again.                        *)
EXTENDS Channels

CONSTANTS a, b, c
ThreeStreams == {a, b, c}
=============================================================================
