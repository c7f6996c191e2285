-------------------------------- MODULE Tcp --------------------------------
(***************************************************************************)
(* The TCP client of tcp/tcp.c as the shipped program runs it: the thread  *)
(* handle_packet sends a SYN (tcp_first_step) and then passes every TCP    *)
(* segment it takes from the packet cache to tcptest.  The far end is an   *)
(* ordinary TCP server on the same Ethernet, outside this repository: the  *)
(* link keeps segments in order and may lose them, and the server          *)
(* retransmits.  The client has no timer and repeats nothing.              *)
(*                                                                         *)
(* Each call of tcptest is one action: one thread alone touches mylink,    *)
(* and what it sends goes out in the order of its calls.                   *)
(***************************************************************************)
EXTENDS Naturals, Sequences

CONSTANTS SEQ,         \* sequence numbers are modulo SEQ (2^32 in the code)
          HELLO,       \* strlen("hello world\n"), 12 in the code
          ISN,         \* the client's initial number, 0xf01c5780 in the code
          PeerISNs,    \* initial numbers the server may choose
          PeerData,    \* octets the server may say, 0 for a silent one
          MaxLost,     \* bound on the segments lost on their way to the client
          LinkCap      \* bound on the segments under way: while there are as
                       \* many, no timer fires and no frame is repeated

ASSUME TcpAssumption ==
  /\ SEQ \in Nat /\ HELLO \in Nat /\ PeerData \in Nat /\ MaxLost \in Nat
  /\ LinkCap \in Nat
  /\ HELLO > 0 /\ SEQ > 2 * (HELLO + PeerData + 4)
  /\ ISN \in 0 .. SEQ - 1
  /\ PeerISNs \subseteq 0 .. SEQ - 1

VARIABLES
  status, mynum, rmtnum,   \* mylink.status, .mynum, .rmtnum
  toPeer, toClient,        \* the segments under way, oldest first
  seen,                    \* the segments the packet cache has held
  peer,                    \* the server's connection
  stream,                  \* what the server's program has read
  lost,                    \* segments lost on their way to the client
  ourLoss                  \* a segment of the client's was lost

client == <<status, mynum, rmtnum>>
server == <<peer, stream>>
losses == <<lost, ourLoss>>
vars   == <<client, toPeer, toClient, seen, server, losses>>
linkUsed == Len(toPeer) + Len(toClient)

Numbers == 0 .. SEQ - 1
Flags   == {"syn", "ack", "fin", "rst"}
Segment == [flags : SUBSET Flags, seq : Numbers, ack : Numbers, len : 0 .. SEQ - 1]
Connection == [phase : {"LISTEN", "SYN_RCVD", "OPEN"},
               iss : Numbers, una : Numbers, nxt : Numbers, rcv : Numbers,
               spoken : BOOLEAN, finSent : BOOLEAN, finRcvd : BOOLEAN]

\* Mutant: numbers that do not wrap round.
UnwrappedPlus(n, k) == n + k

Plus(n, k) == (n + k) % SEQ

\* n lies between lo and hi, going up from lo.
Within(lo, n, hi) == (n + SEQ - lo) % SEQ <= (hi + SEQ - lo) % SEQ

TypeOK ==
  /\ status \in {"CLOSED", "SYN_SEND", "ESTABLISH"}
  /\ mynum \in Numbers /\ rmtnum \in Numbers
  /\ toPeer \in Seq(Segment) /\ toClient \in Seq(Segment)
  /\ seen \subseteq Segment
  /\ peer \in Connection
  /\ stream \in Seq({HELLO})
  /\ lost \in 0 .. MaxLost /\ ourLoss \in BOOLEAN

-----------------------------------------------------------------------------
(* The client *)

\* tcp_initial, which leaves the link closed; the server listens.
Init ==
  /\ status = "CLOSED" /\ mynum = ISN /\ rmtnum = 0
  /\ toPeer = <<>> /\ toClient = <<>> /\ seen = {}
  /\ \E iss \in PeerISNs :
       peer = [phase |-> "LISTEN", iss |-> iss, una |-> iss, nxt |-> iss,
               rcv |-> 0, spoken |-> FALSE, finSent |-> FALSE, finRcvd |-> FALSE]
  /\ stream = <<>>
  /\ lost = 0 /\ ourLoss = FALSE

\* The header tcp_pack leaves in the buffer: it clears what its caller had put
\* there, the acknowledgement rmtnum + 1 included, and fills in its arguments.
tcp_pack(flags, snum, acknum, len) ==
  [flags |-> flags, seq |-> snum, ack |-> acknum, len |-> len]

\* Mutant: the SYN takes up no number.
UncountedFirstStep ==
  /\ status = "CLOSED"
  /\ toPeer' = Append(toPeer, tcp_pack({"syn"}, mynum, 0, 0))
  /\ status' = "SYN_SEND"
  /\ UNCHANGED <<mynum, rmtnum, toClient, seen, server, losses>>

\* handle_packet opens the connection once, before it takes its first frame.
TcpFirstStep ==
  /\ status = "CLOSED"
  /\ toPeer' = Append(toPeer, tcp_pack({"syn"}, mynum, 0, 0))
  /\ status' = "SYN_SEND"
  /\ mynum' = Plus(mynum, 1)
  /\ UNCHANGED <<rmtnum, toClient, seen, server, losses>>

\* Mutant: any acknowledgement will do.
AcksAnything(seg) == "ack" \in seg.flags

AcksAll(seg) == "ack" \in seg.flags /\ seg.ack = mynum

\* Mutant: the acknowledgement the caller had put there, rmtnum + 1, is sent.
CallersAckGreet(seg) ==
  /\ toPeer' = toPeer \o
       << tcp_pack({"ack"}, mynum, Plus(seg.seq, 2), 0),
          tcp_pack({"ack"}, mynum, Plus(seg.seq, 1), HELLO),
          tcp_pack({"ack", "fin"}, Plus(mynum, HELLO), Plus(seg.seq, 1), 0) >>
  /\ status' = "ESTABLISH"
  /\ mynum' = Plus(mynum, HELLO + 1)
  /\ rmtnum' = seg.seq

\* Mutant: the message takes up no numbers.
UncountedGreet(seg) ==
  /\ toPeer' = toPeer \o
       << tcp_pack({"ack"}, mynum, Plus(seg.seq, 1), 0),
          tcp_pack({"ack"}, mynum, seg.seq, HELLO),
          tcp_pack({"ack", "fin"}, mynum, seg.seq, 0) >>
  /\ status' = "ESTABLISH"
  /\ mynum' = Plus(mynum, 1)
  /\ rmtnum' = seg.seq

\* The answer to the server's SYN: an ACK, the message, and at once the FIN.  The
\* first acknowledges the SYN; rmtnum then goes back to the SYN's own number,
\* and so do the acknowledgements of the other two.
Greet(seg) ==
  /\ toPeer' = toPeer \o
       << tcp_pack({"ack"}, mynum, Plus(seg.seq, 1), 0),
          tcp_pack({"ack"}, mynum, seg.seq, HELLO),
          tcp_pack({"ack", "fin"}, Plus(mynum, HELLO), seg.seq, 0) >>
  /\ status' = "ESTABLISH"
  /\ mynum' = Plus(mynum, HELLO + 1)
  /\ rmtnum' = seg.seq

\* The answer to the server's FIN.  The status stays as it is.
AnswerFin(seg) ==
  /\ toPeer' = Append(toPeer, tcp_pack({"ack"}, mynum, seg.seq, 0))
  /\ rmtnum' = seg.seq
  /\ UNCHANGED <<status, mynum>>

\* Whatever else arrives changes nothing (getmessage only prints).
Tcptest(seg) ==
  LET greet == status = "SYN_SEND" /\ "syn" \in seg.flags /\ AcksAll(seg)
      fin   == status = "ESTABLISH" /\ "fin" \in seg.flags /\ AcksAll(seg)
  IN  /\ \/ greet /\ Greet(seg)
         \/ fin /\ AnswerFin(seg)
         \/ ~greet /\ ~fin /\ UNCHANGED <<client, toPeer>>
      /\ seen' = seen \cup {seg}

\* The loop of handle_packet: the next frame is a TCP segment.
HandleSegment ==
  /\ status # "CLOSED" /\ toClient # <<>>
  /\ toClient' = Tail(toClient)
  /\ Tcptest(Head(toClient))
  /\ UNCHANGED <<server, losses>>

\* The packet cache hands over once more what one of its slots still holds.
HandleStaleSegment ==
  /\ linkUsed < LinkCap
  /\ \E seg \in seen : Tcptest(seg)
  /\ UNCHANGED <<toClient, server, losses>>

-----------------------------------------------------------------------------
(* The server: RFC 793, outside the repository *)

Say(segment) == toClient' = Append(toClient, segment)

PeerSegment(p, flags, n, len) ==
  [flags |-> flags, seq |-> n, ack |-> p.rcv, len |-> len]

PeerSyn(seg) ==
  /\ peer.phase = "LISTEN" /\ seg.flags = {"syn"}
  /\ LET p == [peer EXCEPT !.phase = "SYN_RCVD", !.rcv = Plus(seg.seq, 1),
                           !.nxt = Plus(peer.iss, 1)]
     IN  peer' = p /\ Say(PeerSegment(p, {"syn", "ack"}, p.iss, 0))
  /\ UNCHANGED stream

\* Before the server's SYN is acknowledged, any other acknowledgement is refused.
PeerRefuse(seg) ==
  /\ peer.phase = "SYN_RCVD" /\ seg.ack # peer.nxt
  /\ Say([flags |-> {"rst"}, seq |-> seg.ack, ack |-> 0, len |-> 0])
  /\ UNCHANGED server

\* The server takes what comes in order and acknowledges what it has.
PeerTake(seg) ==
  /\ peer.phase = "OPEN" \/ (peer.phase = "SYN_RCVD" /\ seg.ack = peer.nxt)
  /\ LET inOrder == seg.seq = peer.rcv /\ ~peer.finRcvd
         fin     == inOrder /\ "fin" \in seg.flags
         taken   == IF inOrder THEN seg.len + (IF fin THEN 1 ELSE 0) ELSE 0
         p == [peer EXCEPT !.phase = "OPEN",
                 !.una = IF Within(@, seg.ack, peer.nxt) THEN seg.ack ELSE @,
                 !.rcv = Plus(@, taken), !.finRcvd = @ \/ fin]
     IN  /\ peer' = p
         /\ stream' = IF inOrder /\ seg.len > 0 THEN Append(stream, seg.len) ELSE stream
         /\ IF taken > 0 \/ seg.seq # peer.rcv
              THEN Say(PeerSegment(p, {"ack"}, p.nxt, 0))
              ELSE UNCHANGED toClient

PeerReceive ==
  /\ toPeer # <<>>
  /\ toPeer' = Tail(toPeer)
  /\ LET seg == Head(toPeer) IN PeerSyn(seg) \/ PeerRefuse(seg) \/ PeerTake(seg)
  /\ UNCHANGED <<client, seen, losses>>

\* The server's program has something to say itself.
PeerSpeak ==
  /\ peer.phase = "OPEN" /\ PeerData > 0 /\ ~peer.spoken /\ ~peer.finSent
  /\ peer' = [peer EXCEPT !.spoken = TRUE, !.nxt = Plus(@, PeerData)]
  /\ Say(PeerSegment(peer, {"ack"}, peer.nxt, PeerData))
  /\ UNCHANGED <<client, toPeer, seen, stream, losses>>

\* It may close at any time, before the client's FIN or after.
PeerClose ==
  /\ peer.phase = "OPEN" /\ ~peer.finSent
  /\ peer' = [peer EXCEPT !.finSent = TRUE, !.nxt = Plus(@, 1)]
  /\ Say(PeerSegment(peer, {"ack", "fin"}, peer.nxt, 0))
  /\ UNCHANGED <<client, toPeer, seen, stream, losses>>

\* Its timer repeats the oldest segment that is not acknowledged.
PeerRetransmit ==
  /\ linkUsed < LinkCap
  /\ LET unspoken == peer.una = Plus(peer.iss, 1) /\ peer.spoken
         fin      == peer.finSent /\ peer.una # peer.nxt
     IN  \/ /\ peer.phase = "SYN_RCVD"
            /\ Say(PeerSegment(peer, {"syn", "ack"}, peer.iss, 0))
         \/ /\ peer.phase = "OPEN" /\ unspoken
            /\ Say(PeerSegment(peer, {"ack"}, peer.una, PeerData))
         \/ /\ peer.phase = "OPEN" /\ fin /\ ~unspoken
            /\ Say(PeerSegment(peer, {"ack", "fin"}, Plus(peer.nxt, SEQ - 1), 0))
  /\ UNCHANGED <<client, toPeer, seen, server, losses>>

-----------------------------------------------------------------------------
(* The link *)

LoseFromClient ==
  /\ toPeer # <<>>
  /\ toPeer' = Tail(toPeer)
  /\ ourLoss' = TRUE
  /\ UNCHANGED <<client, toClient, seen, server, lost>>

\* Lost on the network, or passed over in the packet cache, whose reader may come to
\* the slot again later.
LoseToClient ==
  /\ toClient # <<>> /\ lost < MaxLost
  /\ toClient' = Tail(toClient)
  /\ \/ UNCHANGED seen
     \/ seen' = seen \cup {Head(toClient)}
  /\ lost' = lost + 1
  /\ UNCHANGED <<client, toPeer, server, ourLoss>>

Next == \/ TcpFirstStep \/ HandleSegment \/ HandleStaleSegment
        \/ PeerReceive \/ PeerSpeak \/ PeerClose \/ PeerRetransmit
        \/ LoseFromClient \/ LoseToClient

Spec == Init /\ [][Next]_vars

\* handle_packet is scheduled, segments that are not lost arrive, and the
\* server's timer keeps running.
FairSpec == /\ Spec
            /\ WF_vars(TcpFirstStep) /\ WF_vars(HandleSegment)
            /\ WF_vars(PeerReceive) /\ WF_vars(PeerRetransmit)
=============================================================================
