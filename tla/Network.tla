------------------------------- MODULE Network -------------------------------
(***************************************************************************)
(* The sockets of scripts: SocketSendInt, SendString, SendFile, SendRaw    *)
(* and the functions that get what they send (g_script.cpp), over the      *)
(* reads and writes of win_network.cpp and a TCP connection.               *)
(*                                                                         *)
(* Each script sends a fixed list of packets and expects the list of the   *)
(* other, and chooses at any time whether to send the next one, to wait    *)
(* for the next one or to close.  A byte on the wire is named by the       *)
(* packet it belongs to and its place in it; a byte the reader does not    *)
(* expect may have any value.                                              *)
(***************************************************************************)
EXTENDS Integers, Sequences, SequencesExt, FiniteSetsExt

CONSTANTS
  Ends,       \* the two ends of the connection
  Protocol,   \* the packets of each end: kind, chars, body
  IntWidth,   \* bytes of an int, and of the size of a file (4)
  LenWidth,   \* bytes of the length of a string (2)
  MaxGarble,  \* bound on a length read from bytes that are none
  Space,      \* bytes the system takes from an end before they are on their way
  Window      \* bytes the system keeps for an end that does not read

(* A raw packet that is empty is none: nothing is sent.  Characters are    *)
(* such that the string which is got has them all: no NUL, at which it     *)
(* would end, and no more than 4095, beyond which err ends the program.    *)
Kinds == {"int", "string", "file", "raw"}
Packet == {p \in [kind : Kinds, chars : Nat, body : Nat] : p.kind = "raw" => p.chars > 0}

ASSUME NetworkAssumption ==
  /\ \E c, s \in Ends : c # s /\ Ends = {c, s}
  /\ Protocol \in [Ends -> Seq(Packet)]
  /\ {IntWidth, LenWidth, Space, Window} \subseteq Nat \ {0} /\ MaxGarble \in Nat

VARIABLES
  job,       \* what each end's script is in the middle of
  sent,      \* how many packets each end has written
  got,       \* the packets each end was given: their number, or 0
  out,       \* bytes each end wrote that are not yet at the other
  inbox,     \* bytes at each end that have not been read
  blocking,  \* does each end's socket wait?
  closed,    \* ends whose socket is closed
  broken,    \* was the connection reset?
  torn,      \* history: ends of which a write was cut
  failed     \* ends whose program err has ended

wire == <<out, inbox, broken>>
netVars == <<job, sent, got, wire, blocking, closed, torn, failed>>

Peer(e) == CHOOSE d \in Ends : d # e

(* The fields of a packet, one write each, and their widths.               *)
Fields(kind) ==
  CASE kind = "int"    -> <<"tag", "val">>
    [] kind = "string" -> <<"tag", "len", "chars">>
    [] kind = "file"   -> <<"len", "chars", "size", "body">>
    [] kind = "raw"    -> <<"chars">>

Width(p, field) ==
  CASE field = "tag"   -> 1
    [] field = "len"   -> LenWidth
    [] field = "chars" -> p.chars
    [] field = "body"  -> p.body
    [] OTHER           -> IntWidth

(* Where each field of a packet ends, and the last of them.                *)
FieldEnd == [e \in Ends |-> [n \in DOMAIN Protocol[e] |->
  LET fields == Fields(Protocol[e][n].kind)
      end[f \in 0 .. Len(fields)] ==
        IF f = 0 THEN 0 ELSE end[f - 1] + Width(Protocol[e][n], fields[f])
  IN  end]]
Size == [e \in Ends |-> [n \in DOMAIN Protocol[e] |->
  FieldEnd[e][n][Len(Fields(Protocol[e][n].kind))]]]

Bytes == [e \in Ends |-> [n \in DOMAIN Protocol[e] |-> [k \in 1 .. Size[e][n] |-> <<n, k>>]]]
FieldBytes(e, n, f) == SubSeq(Bytes[e][n], FieldEnd[e][n][f - 1] + 1, FieldEnd[e][n][f])

Idle == [op |-> "idle", field |-> 0, need |-> 0, rx |-> <<>>]

(* Connect and accept make both sockets non-blocking.                      *)
NetworkInit ==
  /\ job = [e \in Ends |-> Idle]
  /\ sent = [e \in Ends |-> 0] /\ got = [e \in Ends |-> <<>>]
  /\ out = [e \in Ends |-> <<>>] /\ inbox = [e \in Ends |-> <<>>]
  /\ blocking = [e \in Ends |-> FALSE]
  /\ closed = {} /\ broken = FALSE
  /\ torn = {} /\ failed = {}

-----------------------------------------------------------------------------
(* The connection.                                                         *)

Lost == broken' = TRUE /\ out' = [e \in Ends |-> <<>>] /\ inbox' = [e \in Ends |-> <<>>]

(* A byte arrives; one for a socket that is closed resets the connection.  *)
Deliver(e) ==
  /\ out[e] # <<>>
  /\ IF Peer(e) \in closed THEN Lost
     ELSE /\ Len(inbox[Peer(e)]) < Window
          /\ inbox' = [inbox EXCEPT ![Peer(e)] = Append(@, Head(out[e]))]
          /\ out' = [out EXCEPT ![e] = Tail(@)]
          /\ UNCHANGED broken
  /\ UNCHANGED <<job, sent, got, blocking, closed, torn, failed>>

Reset ==
  /\ ~broken /\ closed # Ends
  /\ Lost
  /\ UNCHANGED <<job, sent, got, blocking, closed, torn, failed>>

(* A socket closed with bytes unread resets the connection.                *)
CloseSocket(e, unread) ==
  /\ closed' = closed \cup {e}
  /\ IF unread # <<>> THEN Lost
     ELSE UNCHANGED <<out, broken>> /\ inbox' = [inbox EXCEPT ![e] = <<>>]

Ready(e)  == job[e].op = "idle" /\ e \notin closed
Ended(e)  == inbox[e] = <<>> /\ ~broken /\ Peer(e) \in closed /\ out[Peer(e)] = <<>>

SocketClose(e) ==
  /\ Ready(e)
  /\ CloseSocket(e, inbox[e])
  /\ UNCHANGED <<job, sent, got, blocking, torn, failed>>

-----------------------------------------------------------------------------
(* Sending.                                                                *)

Sending(e) == Protocol[e][sent[e] + 1]

StartSend(e) ==
  /\ Ready(e) /\ sent[e] < Len(Protocol[e])
  /\ job' = [job EXCEPT ![e] = [op |-> "send", field |-> 1, rx |-> <<>>,
                                need |-> Len(FieldBytes(e, sent[e] + 1, 1))]]
  /\ UNCHANGED <<sent, got, wire, blocking, closed, torn, failed>>

(* The write is done, and the next field's turn, whatever send returned.   *)
FieldWritten(e) ==
  LET f == job[e].field + 1 IN
  IF f > Len(Fields(Sending(e).kind))
  THEN job' = [job EXCEPT ![e] = Idle] /\ sent' = [sent EXCEPT ![e] = @ + 1]
  ELSE /\ job' = [job EXCEPT ![e].field = f,
                             ![e].need = Len(FieldBytes(e, sent[e] + 1, f))]
       /\ UNCHANGED sent

Room(e) == Space - Len(out[e])
Taken(e, k) ==
  LET bytes == FieldBytes(e, sent[e] + 1, job[e].field)
      from  == Len(bytes) - job[e].need
  IN out' = [out EXCEPT ![e] = @ \o SubSeq(bytes, from + 1, from + k)]

(* send of a socket that does not wait: what there is no room for is lost. *)
Write(e) ==
  /\ job[e].op = "send" /\ (broken \/ ~blocking[e])
  /\ IF broken THEN UNCHANGED <<out, torn>>
     ELSE \E k \in 0 .. job[e].need :
            /\ Taken(e, k)
            /\ IF job[e].need <= Room(e) THEN k = job[e].need ELSE k <= Room(e)
            /\ torn' = IF k < job[e].need THEN torn \cup {e} ELSE torn
  /\ FieldWritten(e)
  /\ UNCHANGED <<got, inbox, broken, blocking, closed, failed>>

(* send of one that does.                                                  *)
WriteWaiting(e) ==
  /\ job[e].op = "send" /\ ~broken /\ blocking[e]
  /\ Room(e) > 0 \/ job[e].need = 0
  /\ LET k == Min({Room(e), job[e].need}) IN
       /\ Taken(e, k)
       /\ IF k = job[e].need THEN FieldWritten(e)
          ELSE job' = [job EXCEPT ![e].need = @ - k] /\ UNCHANGED sent
  /\ UNCHANGED <<got, inbox, broken, blocking, closed, torn, failed>>

-----------------------------------------------------------------------------
(* Getting.                                                                *)

Expected(e) == Protocol[Peer(e)][Len(got[e]) + 1]
GetFields(e) == Fields(Expected(e).kind)

(* Packets of the kind expected that have the bytes read before field f.   *)
Looks(e, f, rx) ==
  {n \in DOMAIN Protocol[Peer(e)] :
     /\ Protocol[Peer(e)][n].kind = Expected(e).kind
     /\ rx # <<>> /\ rx = SubSeq(Bytes[Peer(e)][n], 1, FieldEnd[Peer(e)][n][f - 1])}

(* How long field f is, from the bytes read before: a raw packet's length  *)
(* the script knows; others' is in the bytes, or whatever is in their      *)
(* place.                                                                  *)
Widths(e, f, rx) ==
  LET field == GetFields(e)[f] IN
  IF field \notin {"chars", "body"} \/ Expected(e).kind = "raw" THEN {Width(Expected(e), field)}
  ELSE IF Looks(e, f, rx) # {}
       THEN {Width(Protocol[Peer(e)][n], field) : n \in Looks(e, f, rx)}
       ELSE 0 .. MaxGarble

StartGet(e) ==
  /\ Ready(e) /\ Len(got[e]) < Len(Protocol[Peer(e)])
  /\ \E w \in Widths(e, 1, <<>>) :
       job' = [job EXCEPT ![e] = [op |-> "get", field |-> 1, need |-> w, rx |-> <<>>]]
  /\ UNCHANGED <<sent, got, wire, blocking, closed, torn, failed>>

Getting(e) == job[e].op = "get"

(* The packet the bytes are, 0 for none.                                   *)
PacketOf(e, rx) ==
  IF \E n \in DOMAIN Protocol[Peer(e)] : rx = Bytes[Peer(e)][n]
  THEN CHOOSE n \in DOMAIN Protocol[Peer(e)] : rx = Bytes[Peer(e)][n] ELSE 0

Give(e, p) ==
  /\ got' = [got EXCEPT ![e] = Append(@, p)]
  /\ job' = [job EXCEPT ![e] = Idle]
  /\ UNCHANGED <<closed, failed>>

NextField(e, rx) ==
  /\ \E w \in Widths(e, job[e].field + 1, rx) :
       job' = [job EXCEPT ![e].field = @ + 1, ![e].need = w, ![e].rx = rx]
  /\ UNCHANGED <<got, closed, failed>>

(* err: the system closes the socket of a program that ends.               *)
Fail(e) ==
  /\ failed' = failed \cup {e} /\ closed' = closed \cup {e}
  /\ job' = [job EXCEPT ![e] = Idle]
  /\ UNCHANGED got

(* What the first byte of a packet may say: its kind, if it is a tag; else *)
(* it may have any value.                                                  *)
TagKinds(e, b) ==
  IF b[2] = 1 /\ Protocol[Peer(e)][b[1]].kind \in {"int", "string"}
  THEN {Protocol[Peer(e)][b[1]].kind} ELSE Kinds

(* A field has been read; rx is all that was read of the packet.           *)
FieldRead(e, rx) ==
  LET field == GetFields(e)[job[e].field] IN
  \/ /\ job[e].field = Len(GetFields(e))
     /\ Give(e, PacketOf(e, rx))
  \/ /\ job[e].field < Len(GetFields(e))
     /\ field = "tag" => Expected(e).kind \in TagKinds(e, rx[1])
     /\ NextField(e, rx)
  \/ /\ field = "tag" /\ TagKinds(e, rx[1]) # {Expected(e).kind}
     /\ Fail(e)

Read(e, k) == job[e].rx \o SubSeq(inbox[e], 1, k)
Rest(e, k) == SubSeq(inbox[e], k + 1, Len(inbox[e]))

(* What a step leaves of the inbox; a program that ends leaves nothing.    *)
Consume(e, rest) ==
  IF e \in failed' /\ rest # <<>> THEN Lost
  ELSE inbox' = [inbox EXCEPT ![e] = rest] /\ UNCHANGED <<out, broken>>

Take(e, k) ==
  /\ IF k = job[e].need THEN FieldRead(e, Read(e, k))
     ELSE /\ job' = [job EXCEPT ![e].need = @ - k, ![e].rx = Read(e, k)]
          /\ UNCHANGED <<got, closed, failed>>
  /\ Consume(e, Rest(e, k))

IsRaw(e) == Expected(e).kind = "raw"
Available(e) == Min({job[e].need, Len(inbox[e])})

(* Mutant: what one recv brings is taken for the field.                    *)
BlockReadOnce(e) ==
  /\ Getting(e) /\ ~IsRaw(e)
  /\ job[e].need = 0 \/ inbox[e] # <<>>
  /\ FieldRead(e, Read(e, Available(e)))
  /\ Consume(e, Rest(e, Available(e)))
  /\ UNCHANGED <<sent, blocking, torn>>

(* Mutant: recv leaves the bytes where they are.                           *)
BlockReadPeeks(e) ==
  /\ Getting(e) /\ ~IsRaw(e)
  /\ job[e].need = 0 \/ inbox[e] # <<>>
  /\ LET k == Available(e) IN
       IF k = job[e].need THEN FieldRead(e, Read(e, k))
       ELSE /\ job' = [job EXCEPT ![e].need = @ - k, ![e].rx = Read(e, k)]
            /\ UNCHANGED <<got, closed, failed>>
  /\ UNCHANGED <<sent, blocking, torn, wire>>

(* A turn of blockread that gets bytes; without any it turns in vain.  A   *)
(* field of no bytes ends when recv answers 0, as it does when there are   *)
(* bytes behind; with none there, the answer may also be that it would     *)
(* block, for as long as none come.                                        *)
BlockRead(e) ==
  /\ Getting(e) /\ ~IsRaw(e)
  /\ job[e].need = 0 \/ inbox[e] # <<>>
  /\ Take(e, Available(e))
  /\ UNCHANGED <<sent, blocking, torn>>

(* SocketGetRaw, which the script calls until it has all; nonblockread     *)
(* leaves the socket one that waits.                                       *)
ReadRaw(e) ==
  /\ Getting(e) /\ IsRaw(e) /\ ~Ended(e)
  /\ Take(e, Available(e))
  /\ blocking' = [blocking EXCEPT ![e] = TRUE]
  /\ UNCHANGED <<sent, torn>>

(* Mutant: blockread knows bytes and errors only.                          *)
GetNothingSpins(e) ==
  /\ Getting(e) /\ job[e].need > 0 /\ Ended(e) /\ IsRaw(e)
  /\ Give(e, 0)
  /\ UNCHANGED <<sent, wire, blocking, torn>>

(* The other end has closed.  The tag, the length of a file and its size   *)
(* are then what was in memory before; a raw read's script asks            *)
(* SocketConnected.                                                        *)
GetNothing(e) ==
  /\ Getting(e) /\ job[e].need > 0 /\ Ended(e)
  /\ LET f == job[e].field field == GetFields(e)[f] IN
     \/ /\ f = Len(GetFields(e)) \/ field = "len"
        /\ Give(e, 0)
     \/ /\ f < Len(GetFields(e)) /\ field # "len"
        /\ NextField(e, job[e].rx)
     \/ /\ field = "tag"
        /\ Fail(e)
  /\ UNCHANGED <<sent, wire, blocking, torn>>

(* SocketHasData, SocketConnected and SocketByteCount look at the next     *)
(* byte.  They do nothing else, and at once, unless the socket is one that *)
(* waits.                                                                  *)
StartPoll(e) ==
  /\ Ready(e) /\ blocking[e]
  /\ job' = [job EXCEPT ![e].op = "poll"]
  /\ UNCHANGED <<sent, got, wire, blocking, closed, torn, failed>>

PollEnds(e) ==
  /\ job[e].op = "poll"
  /\ inbox[e] # <<>> \/ broken \/ Ended(e)
  /\ job' = [job EXCEPT ![e] = Idle]
  /\ UNCHANGED <<sent, got, wire, blocking, closed, torn, failed>>

-----------------------------------------------------------------------------

ReadStep(e)  == BlockRead(e) \/ ReadRaw(e) \/ GetNothing(e)
WriteStep(e) == Write(e) \/ WriteWaiting(e)

NetworkNext ==
  \/ \E e \in Ends : \/ Deliver(e) \/ SocketClose(e) \/ StartSend(e) \/ WriteStep(e)
                     \/ StartGet(e) \/ ReadStep(e) \/ StartPoll(e) \/ PollEnds(e)
  \/ Reset

NetworkSpec == NetworkInit /\ [][NetworkNext]_netVars

(* A read that may turn in vain.                                           *)
MayTurn(e) == job[e].need = 0 /\ inbox[e] = <<>> /\ ~Ended(e)

(* The network delivers what it does not lose, and scripts go on; but for  *)
(* a field of no bytes nothing is promised before there is something else. *)
NetworkFairness ==
  \A e \in Ends :
    /\ WF_netVars(Deliver(e)) /\ WF_netVars(WriteStep(e))
    /\ WF_netVars(ReadStep(e) /\ ~MayTurn(e))

FairNetworkSpec == NetworkSpec /\ NetworkFairness

-----------------------------------------------------------------------------
(* Properties.                                                             *)

Lengths == {MaxGarble} \cup UNION {{Size[e][n] : n \in DOMAIN Protocol[e]} : e \in Ends}

NetworkTypeOK ==
  /\ \A e \in Ends :
       /\ job[e].op \in {"idle", "send", "get", "poll"} /\ job[e].field \in 0 .. 4
       /\ \E l \in Lengths : job[e].need \in 0 .. l
       /\ sent[e] \in 0 .. Len(Protocol[e])
       /\ Len(out[e]) <= Space /\ Len(inbox[e]) <= Window
       /\ blocking[e] \in BOOLEAN
  /\ broken \in BOOLEAN
  /\ closed \subseteq Ends /\ torn \subseteq Ends /\ failed \subseteq closed

(* While no write was cut and the connection holds, what an end has read   *)
(* of a packet, what waits for it and what is on its way are the bytes     *)
(* the other wrote from that packet on: every field is written whole and   *)
(* in order, and read at its own length, in however many pieces.           *)
PacketEnd == [e \in Ends |->
  LET end[n \in 0 .. Len(Protocol[e])] == IF n = 0 THEN 0 ELSE end[n - 1] + Size[e][n]
  IN  end]
AllBytes == [e \in Ends |->
  LET upto[n \in 0 .. Len(Protocol[e])] == IF n = 0 THEN <<>> ELSE upto[n - 1] \o Bytes[e][n]
  IN  upto[Len(Protocol[e])]]

Written(e) ==
  PacketEnd[e][sent[e]] + IF job[e].op # "send" THEN 0
                          ELSE FieldEnd[e][sent[e] + 1][job[e].field] - job[e].need

(* The packets that are written: the last one too, if it ends with a field *)
(* that is empty, and the write of that is left.                           *)
Put(e) ==
  IF job[e].op = "send" /\ Written(e) = PacketEnd[e][sent[e] + 1] THEN sent[e] + 1 ELSE sent[e]

StreamInOrder ==
  \A e \in Ends : LET d == Peer(e) IN
    (d \notin torn /\ ~broken /\ Len(got[e]) <= Put(d)) =>
      (IF Getting(e) THEN job[e].rx ELSE <<>>) \o inbox[e] \o out[d]
        = SubSeq(AllBytes[d], PacketEnd[d][Len(got[e])] + 1, Written(d))

(* Scripts that send and get the same list of packets are not ended by     *)
(* SocketGetInt and SocketGetString, but by a write that was cut, a reset  *)
(* or an end that closed too early.                                        *)
NoErrUntilCut == \A e \in failed : Peer(e) \in torn \/ broken \/ Peer(e) \in closed

(* The bytes of a connection that holds are in order, and no script is ended*)
(* by an error it did not meet.                                            *)
NetworkInv == NetworkTypeOK /\ StreamInOrder /\ NoErrUntilCut

(* The scripts are given the packets that were sent, whole, in order and   *)
(* once (PacketStream), though a packet takes several writes and reads and *)
(* its bytes arrive one by one, until a write is cut or the connection is. *)
Stream == INSTANCE PacketStream WITH
  Packets <- [e \in Ends |-> Len(Protocol[e])],
  sent    <- [e \in Ends |-> Put(e)],
  cut     <- torn \cup (IF broken THEN Ends ELSE {})
StreamKept == Stream!StreamSpec

(* A Get function comes to its end if its packet was sent or the other end *)
(* has closed.  It need not after a reset, when blockread turns in vain    *)
(* for ever, nor while it reads a field of no bytes, the contents of an    *)
(* empty file, and nothing is behind it.                                   *)
GetsEnd ==
  \A e \in Ends :
    (Getting(e) /\ (Peer(e) \in closed \/ Len(got[e]) < sent[Peer(e)]))
      ~> (~Getting(e) \/ broken \/ Peer(e) \in torn \/ (MayTurn(e) /\ out[Peer(e)] = <<>>))

=============================================================================
