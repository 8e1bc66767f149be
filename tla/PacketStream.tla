---------------------------- MODULE PacketStream ----------------------------
(***************************************************************************)
(* What the Socket functions promise the scripts at the two ends of a      *)
(* connection (g_script.cpp): packets arrive whole, once and in the order  *)
(* they were sent, until the connection is cut.  Packets of an end are     *)
(* numbered from 1; 0 is what a script gets when there was none.           *)
(***************************************************************************)
EXTENDS Integers, Sequences

CONSTANTS
  Ends,     \* the two ends
  Packets   \* what each end sends at most

VARIABLES
  sent,     \* how many packets each end has sent
  got,      \* the packets each end has received
  closed,   \* the ends that have closed their socket
  cut       \* the ends whose sendings may arrive broken, or not

Peer(e) == CHOOSE d \in Ends : d # e

StreamInit ==
  /\ sent = [e \in Ends |-> 0] /\ got = [e \in Ends |-> <<>>]
  /\ closed = {} /\ cut = {}

Send(e) ==
  /\ sent[e] < Packets[e] /\ e \notin closed
  /\ sent' = [sent EXCEPT ![e] = @ + 1]
  /\ UNCHANGED <<got, closed, cut>>

(* The next packet; nothing, at the end of all of a closed socket; and     *)
(* anything from an end that is cut.                                       *)
Get(e, p) ==
  /\ \/ p = Len(got[e]) + 1 /\ p <= sent[Peer(e)]
     \/ p = 0 /\ Peer(e) \in closed /\ Len(got[e]) >= sent[Peer(e)]
     \/ Peer(e) \in cut
  /\ got' = [got EXCEPT ![e] = Append(@, p)]
  /\ UNCHANGED <<sent, closed, cut>>

Close(e) == closed' = closed \cup {e} /\ UNCHANGED <<sent, got>>

Cut(es) == cut' = cut \cup es /\ UNCHANGED <<got, closed>>

StreamNext ==
  \E e \in Ends :
    \/ Send(e)
    \/ \E p \in 0 .. Packets[Peer(e)] : Get(e, p)
    \/ Close(e) /\ (UNCHANGED cut \/ cut' = Ends)
    \/ \E es \in SUBSET Ends : Cut(es) /\ (UNCHANGED sent \/ sent' = [sent EXCEPT ![e] = @ + 1])

StreamSpec == StreamInit /\ [][StreamNext]_<<sent, got, closed, cut>>

=============================================================================
