------------------------------ MODULE MCNetwork ------------------------------
(* A client that sends a string and an int and expects raw bytes and an    *)
(* empty file, through buffers too small for a packet.                     *)
EXTENDS Network

P(k, c, b) == [kind |-> k, chars |-> c, body |-> b]

TwoEnds == {"client", "server"}
Talk == [e \in TwoEnds |-> IF e = "client" THEN <<P("string", 1, 0), P("int", 0, 0)>>
                           ELSE <<P("raw", 2, 0), P("file", 1, 0)>>]
=============================================================================
