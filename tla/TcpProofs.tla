----------------------------- MODULE TcpProofs -----------------------------
(***************************************************************************)
(* For every width of the sequence numbers, every length of the message,   *)
(* every initial number and any number of losses and repetitions: the      *)
(* server's program reads the message once and then the end of the stream, *)
(* the client answers a FIN only when both sides are done, and it never    *)
(* acknowledges what the server has not sent, nor ever the server's FIN.   *)
(***************************************************************************)
EXTENDS MCTcp, SequenceTheorems, TLAPS

\* The numbers of the message and of the client's FIN, and the one after.
First  == Plus(ISN, 1)
FinNum == Plus(ISN, HELLO + 1)
Done   == Plus(ISN, HELLO + 2)

-----------------------------------------------------------------------------
(* The inductive invariant *)

ClientCounts ==
  /\ status = "CLOSED" => mynum = ISN
  /\ status = "SYN_SEND" => mynum = First
  /\ status = "ESTABLISH" => mynum = Done

\* What the client sends: only the message has octets, only the FIN ends the
\* stream, and each has its number.
FromClient(seg) ==
  \/ seg.flags = {"syn"} /\ seg.seq = ISN /\ seg.len = 0
  \/ seg.flags = {"ack"} /\ seg.len = 0
  \/ seg.flags = {"ack"} /\ seg.seq = First /\ seg.len = HELLO
  \/ seg.flags = {"ack", "fin"} /\ seg.seq = FinNum /\ seg.len = 0

ClientSegments == \A k \in 1 .. Len(toPeer) : FromClient(toPeer[k])

\* The server's next expected number tells what its program has read.
StreamFollowsNumber ==
  \/ peer.phase = "LISTEN" /\ stream = <<>> /\ ~peer.finRcvd
  \/ peer.phase # "LISTEN" /\ peer.rcv = First /\ stream = <<>> /\ ~peer.finRcvd
  \/ peer.phase # "LISTEN" /\ peer.rcv = FinNum /\ stream = <<HELLO>> /\ ~peer.finRcvd
  \/ peer.phase # "LISTEN" /\ peer.rcv = Done /\ stream = <<HELLO>> /\ peer.finRcvd

\* What the server sends, however old: it acknowledges everything only after it
\* has read everything, and its SYN has its initial number.
FromServer(seg) ==
  /\ "ack" \in seg.flags /\ seg.ack = Done => peer.finRcvd
  /\ "fin" \in seg.flags => peer.finSent
  /\ "syn" \in seg.flags => seg.seq = peer.iss

ServerSegments == /\ \A k \in 1 .. Len(toClient) : FromServer(toClient[k])
                  /\ \A seg \in seen : FromServer(seg)

FinAnswered == status = "ESTABLISH" => rmtnum = peer.iss \/ (peer.finSent /\ peer.finRcvd)

IInv == /\ TypeOK
        /\ ClientCounts
        /\ ClientSegments
        /\ StreamFollowsNumber
        /\ ServerSegments
        /\ FinAnswered

-----------------------------------------------------------------------------
(* Sequence numbers *)

LEMMA PlusType == \A n \in Numbers, k \in Nat : Plus(n, k) \in Numbers
BY TcpAssumption DEF Plus, Numbers

LEMMA PlusWraps ==
  \A n \in Numbers, k \in 0 .. SEQ :
    Plus(n, k) = IF n + k < SEQ THEN n + k ELSE n + k - SEQ
BY TcpAssumption DEF Plus, Numbers

\* The client's numbers follow one another and differ.
LEMMA ClientNumbers ==
  /\ First \in Numbers /\ FinNum \in Numbers /\ Done \in Numbers
  /\ Plus(First, HELLO) = FinNum /\ Plus(First, HELLO + 1) = Done
  /\ Plus(FinNum, 1) = Done
  /\ ISN # First /\ ISN # FinNum /\ ISN # Done
  /\ First # FinNum /\ First # Done /\ FinNum # Done
<1>1. /\ HELLO \in Nat /\ HELLO > 0 /\ ISN \in Numbers
      /\ 1 \in 0 .. SEQ /\ HELLO \in 0 .. SEQ
      /\ HELLO + 1 \in 0 .. SEQ /\ HELLO + 2 \in 0 .. SEQ /\ HELLO + 2 < SEQ
  BY TcpAssumption DEF Numbers
<1>2. /\ First = IF ISN + 1 < SEQ THEN ISN + 1 ELSE ISN + 1 - SEQ
      /\ FinNum = IF ISN + HELLO + 1 < SEQ THEN ISN + HELLO + 1 ELSE ISN + HELLO + 1 - SEQ
      /\ Done = IF ISN + HELLO + 2 < SEQ THEN ISN + HELLO + 2 ELSE ISN + HELLO + 2 - SEQ
  BY <1>1, PlusWraps, TcpAssumption DEF First, FinNum, Done, Numbers
<1>3. First \in Numbers /\ FinNum \in Numbers /\ Done \in Numbers
  BY <1>1, <1>2, TcpAssumption DEF Numbers
<1>4. /\ Plus(First, HELLO) = FinNum /\ Plus(First, HELLO + 1) = Done
      /\ Plus(FinNum, 1) = Done
  <2>1. Plus(First, HELLO) =
          IF First + HELLO < SEQ THEN First + HELLO ELSE First + HELLO - SEQ
    BY <1>1, <1>3, PlusWraps
  <2>2. Plus(First, HELLO + 1) =
          IF First + (HELLO + 1) < SEQ THEN First + (HELLO + 1) ELSE First + (HELLO + 1) - SEQ
    BY <1>1, <1>3, PlusWraps
  <2>3. Plus(FinNum, 1) = IF FinNum + 1 < SEQ THEN FinNum + 1 ELSE FinNum + 1 - SEQ
    BY <1>1, <1>3, PlusWraps
  <2> QED
    BY <1>1, <1>2, <2>1, <2>2, <2>3, TcpAssumption DEF Numbers
<1> QED
  BY <1>1, <1>2, <1>3, <1>4, TcpAssumption DEF Numbers
-----------------------------------------------------------------------------
(* Type correctness *)

LEMMA SmallNumbers ==
  /\ 0 \in 0 .. SEQ - 1 /\ HELLO \in 0 .. SEQ - 1 /\ PeerData \in 0 .. SEQ - 1
  /\ 0 \in Numbers /\ ISN \in Numbers /\ SEQ - 1 \in Nat
BY TcpAssumption DEF Numbers

LEMMA PackType ==
  ASSUME NEW flags \in SUBSET Flags, NEW n \in Numbers, NEW a \in Numbers,
         NEW len \in 0 .. SEQ - 1
  PROVE  tcp_pack(flags, n, a, len) \in Segment
BY DEF tcp_pack, Segment

LEMMA TypeInit == Init => TypeOK
<1> SUFFICES ASSUME Init PROVE TypeOK
  OBVIOUS
<1>1. PICK iss \in PeerISNs :
        peer = [phase |-> "LISTEN", iss |-> iss, una |-> iss, nxt |-> iss, rcv |-> 0,
                spoken |-> FALSE, finSent |-> FALSE, finRcvd |-> FALSE]
  BY DEF Init
<1>2. iss \in Numbers
  BY TcpAssumption DEF Numbers
<1>3. peer \in Connection
  BY <1>1, <1>2, SmallNumbers DEF Connection
<1>4. /\ status = "CLOSED" /\ mynum = ISN /\ rmtnum = 0
      /\ toPeer = <<>> /\ toClient = <<>> /\ seen = {} /\ stream = <<>>
      /\ lost = 0 /\ ourLoss = FALSE
  BY DEF Init
<1>5. lost \in 0 .. MaxLost
  BY <1>4, TcpAssumption
<1>6. toPeer \in Seq(Segment) /\ toClient \in Seq(Segment) /\ stream \in Seq({HELLO})
  BY <1>4
<1>7. mynum \in Numbers /\ rmtnum \in Numbers
  BY <1>4, SmallNumbers
<1> QED
  BY <1>3, <1>4, <1>5, <1>6, <1>7 DEF TypeOK

LEMMA TcptestType ==
  ASSUME TypeOK, NEW seg \in Segment, Tcptest(seg)
  PROVE  /\ status' \in {"CLOSED", "SYN_SEND", "ESTABLISH"}
         /\ mynum' \in Numbers /\ rmtnum' \in Numbers
         /\ toPeer' \in Seq(Segment) /\ seen' \subseteq Segment
<1> USE DEF TypeOK
<1>1. seg.seq \in Numbers
  BY DEF Segment
<1>2. CASE Greet(seg)
  <2>1. /\ tcp_pack({"ack"}, mynum, Plus(seg.seq, 1), 0) \in Segment
        /\ tcp_pack({"ack"}, mynum, seg.seq, HELLO) \in Segment
        /\ tcp_pack({"ack", "fin"}, Plus(mynum, HELLO), seg.seq, 0) \in Segment
    <3>1. Plus(seg.seq, 1) \in Numbers /\ Plus(mynum, HELLO) \in Numbers
      BY <1>1, PlusType, TcpAssumption
    <3>2. {"ack"} \in SUBSET Flags /\ {"ack", "fin"} \in SUBSET Flags
      BY DEF Flags
    <3> QED
      BY <1>1, <3>1, <3>2, PackType, SmallNumbers
  <2>2. mynum' \in Numbers
    BY <1>2, PlusType, TcpAssumption DEF Greet
  <2>3. toPeer' \in Seq(Segment)
    BY <1>2, <2>1 DEF Greet
  <2> QED
    BY <1>1, <1>2, <2>2, <2>3 DEF Greet, Tcptest
<1>3. CASE AnswerFin(seg)
  <2>1. tcp_pack({"ack"}, mynum, seg.seq, 0) \in Segment
    BY <1>1, PackType, SmallNumbers DEF Flags
  <2> QED
    BY <1>1, <1>3, <2>1 DEF AnswerFin, Tcptest
<1>4. CASE UNCHANGED <<client, toPeer>>
  BY <1>4 DEF Tcptest, client
<1> QED
  BY <1>2, <1>3, <1>4 DEF Tcptest

LEMMA PeerSegmentType ==
  ASSUME NEW p, p.rcv \in Numbers, NEW flags \in SUBSET Flags,
         NEW n \in Numbers, NEW len \in 0 .. SEQ - 1
  PROVE  PeerSegment(p, flags, n, len) \in Segment
BY DEF PeerSegment, Segment

LEMMA SayType ==
  ASSUME TypeOK, NEW seg \in Segment, Say(seg)
  PROVE  toClient' \in Seq(Segment)
BY DEF TypeOK, Say

LEMMA PeerSynType ==
  ASSUME TypeOK, NEW seg \in Segment, PeerSyn(seg)
  PROVE  peer' \in Connection /\ toClient' \in Seq(Segment)
<1> DEFINE p == [peer EXCEPT !.phase = "SYN_RCVD", !.rcv = Plus(seg.seq, 1),
                             !.nxt = Plus(peer.iss, 1)]
<1>1. seg.seq \in Numbers /\ peer.iss \in Numbers
  BY DEF Segment, TypeOK, Connection
<1>2. Plus(seg.seq, 1) \in Numbers /\ Plus(peer.iss, 1) \in Numbers
  BY <1>1, PlusType
<1>3. p \in Connection /\ p.rcv \in Numbers /\ p.iss \in Numbers
  BY <1>2 DEF TypeOK, Connection
<1>4. peer' = p /\ Say(PeerSegment(p, {"syn", "ack"}, p.iss, 0))
  BY DEF PeerSyn
<1> HIDE DEF p
<1>5. PeerSegment(p, {"syn", "ack"}, p.iss, 0) \in Segment
  BY <1>3, PeerSegmentType, SmallNumbers DEF Flags
<1> QED
  BY <1>3, <1>4, <1>5, SayType

LEMMA PeerRefuseType ==
  ASSUME TypeOK, NEW seg \in Segment, PeerRefuse(seg)
  PROVE  toClient' \in Seq(Segment)
<1>1. [flags |-> {"rst"}, seq |-> seg.ack, ack |-> 0, len |-> 0] \in Segment
  BY SmallNumbers DEF Segment, Flags
<1> QED
  BY <1>1, SayType DEF PeerRefuse

LEMMA PeerTakeType ==
  ASSUME TypeOK, ClientSegments, NEW k \in 1 .. Len(toPeer), PeerTake(toPeer[k])
  PROVE  peer' \in Connection /\ toClient' \in Seq(Segment) /\ stream' \in Seq({HELLO})
<1> DEFINE seg     == toPeer[k]
           inOrder == seg.seq = peer.rcv /\ ~peer.finRcvd
           fin     == inOrder /\ "fin" \in seg.flags
           taken   == IF inOrder THEN seg.len + (IF fin THEN 1 ELSE 0) ELSE 0
           una     == IF Within(peer.una, seg.ack, peer.nxt) THEN seg.ack ELSE peer.una
           p == [peer EXCEPT !.phase = "OPEN", !.una = una,
                   !.rcv = Plus(@, taken), !.finRcvd = @ \/ fin]
<1>1. /\ seg \in Segment /\ seg.ack \in Numbers /\ seg.len \in 0 .. SEQ - 1
      /\ peer.una \in Numbers /\ peer.rcv \in Numbers /\ peer.nxt \in Numbers
  <2>1. toPeer[k] \in Segment
    BY DEF TypeOK
  <2> QED
    BY <2>1 DEF TypeOK, Segment, Connection
<1>2. taken \in Nat
  BY <1>1, SmallNumbers
<1>3. Plus(peer.rcv, taken) \in Numbers
  BY <1>1, <1>2, PlusType
<1>4. una \in Numbers
  BY <1>1
<1>5. peer' = p
  BY DEF PeerTake
<1>6. p \in Connection /\ p.rcv \in Numbers /\ p.nxt \in Numbers
  <2> HIDE DEF una, taken, fin
  <2>1. (peer.finRcvd \/ fin) \in BOOLEAN
    OBVIOUS
  <2> QED
    BY <1>3, <1>4, <2>1 DEF TypeOK, Connection
<1>7. PeerSegment(p, {"ack"}, p.nxt, 0) \in Segment
  <2> HIDE DEF p
  <2> QED
    BY <1>6, PeerSegmentType, SmallNumbers DEF Flags
<1>8. toClient' \in Seq(Segment)
  <2>1. Say(PeerSegment(p, {"ack"}, p.nxt, 0)) \/ UNCHANGED toClient
    BY DEF PeerTake
  <2> HIDE DEF p
  <2> QED
    BY <1>7, <2>1, SayType DEF TypeOK
<1>9. stream' \in Seq({HELLO})
  <2>1. seg.len > 0 => seg.len = HELLO
    BY <1>1, SmallNumbers DEF ClientSegments, FromClient
  <2>2. stream' = stream \/ (seg.len > 0 /\ stream' = Append(stream, seg.len))
    BY DEF PeerTake
  <2> QED
    BY <2>1, <2>2 DEF TypeOK
<1> QED
  BY <1>5, <1>6, <1>8, <1>9

\* The head of a sequence is one of its elements.
LEMMA HeadIsElement ==
  ASSUME NEW S, NEW s \in Seq(S), s # <<>>
  PROVE  /\ 1 \in 1 .. Len(s) /\ Head(s) = s[1] /\ Head(s) \in S
         /\ Tail(s) \in Seq(S) /\ Len(Tail(s)) = Len(s) - 1
         /\ \A k \in 1 .. Len(Tail(s)) : k + 1 \in 1 .. Len(s) /\ Tail(s)[k] = s[k + 1]
OBVIOUS

LEMMA TypeStep == TypeOK /\ ClientSegments /\ [Next]_vars => TypeOK'
<1> SUFFICES ASSUME TypeOK, ClientSegments, [Next]_vars PROVE TypeOK'
  OBVIOUS
<1> USE DEF client, server, losses
<1>1. CASE TcpFirstStep
  <2>1. tcp_pack({"syn"}, mynum, 0, 0) \in Segment
    BY PackType, SmallNumbers DEF Flags, TypeOK
  <2>2. Plus(mynum, 1) \in Numbers
    BY PlusType DEF TypeOK
  <2> QED
    BY <1>1, <2>1, <2>2 DEF TcpFirstStep, TypeOK
<1>2. CASE HandleSegment
  <2>1. Head(toClient) \in Segment /\ toClient' \in Seq(Segment)
    BY <1>2, HeadIsElement DEF HandleSegment, TypeOK
  <2> QED
    BY <1>2, <2>1, TcptestType DEF HandleSegment, TypeOK
<1>3. CASE HandleStaleSegment
  BY <1>3, TcptestType DEF HandleStaleSegment, TypeOK
<1>4. CASE PeerReceive
  <2>1. PICK k \in 1 .. Len(toPeer) :
          /\ toPeer[k] = Head(toPeer) /\ toPeer[k] \in Segment
          /\ toPeer' \in Seq(Segment)
    BY <1>4, HeadIsElement DEF PeerReceive, TypeOK
  <2>2. peer' \in Connection /\ toClient' \in Seq(Segment) /\ stream' \in Seq({HELLO})
    <3>1. CASE PeerSyn(toPeer[k])
      BY <2>1, <3>1, PeerSynType DEF PeerSyn, TypeOK
    <3>2. CASE PeerRefuse(toPeer[k])
      BY <2>1, <3>2, PeerRefuseType DEF PeerRefuse, TypeOK
    <3>3. CASE PeerTake(toPeer[k])
      BY <3>3, PeerTakeType
    <3> QED
      BY <1>4, <2>1, <3>1, <3>2, <3>3 DEF PeerReceive
  <2> QED
    BY <1>4, <2>1, <2>2 DEF PeerReceive, TypeOK
<1>5. CASE PeerSpeak
  <2>1. peer.nxt \in Numbers /\ peer.rcv \in Numbers /\ Plus(peer.nxt, PeerData) \in Numbers
    BY PlusType, TcpAssumption DEF TypeOK, Connection
  <2>2. PeerSegment(peer, {"ack"}, peer.nxt, PeerData) \in Segment
    BY <2>1, PeerSegmentType, SmallNumbers DEF Flags
  <2>3. peer' \in Connection
    BY <1>5, <2>1 DEF PeerSpeak, TypeOK, Connection
  <2> QED
    BY <1>5, <2>2, <2>3, SayType DEF PeerSpeak, TypeOK
<1>6. CASE PeerClose
  <2>1. peer.nxt \in Numbers /\ peer.rcv \in Numbers /\ Plus(peer.nxt, 1) \in Numbers
    BY PlusType DEF TypeOK, Connection
  <2>2. PeerSegment(peer, {"ack", "fin"}, peer.nxt, 0) \in Segment
    BY <2>1, PeerSegmentType, SmallNumbers DEF Flags
  <2>3. peer' \in Connection
    BY <1>6, <2>1 DEF PeerClose, TypeOK, Connection
  <2> QED
    BY <1>6, <2>2, <2>3, SayType DEF PeerClose, TypeOK
<1>7. CASE PeerRetransmit
  <2>1. /\ peer.iss \in Numbers /\ peer.una \in Numbers /\ peer.rcv \in Numbers
        /\ Plus(peer.nxt, SEQ - 1) \in Numbers
    BY PlusType, SmallNumbers DEF TypeOK, Connection
  <2>2. /\ PeerSegment(peer, {"syn", "ack"}, peer.iss, 0) \in Segment
        /\ PeerSegment(peer, {"ack"}, peer.una, PeerData) \in Segment
        /\ PeerSegment(peer, {"ack", "fin"}, Plus(peer.nxt, SEQ - 1), 0) \in Segment
    BY <2>1, PeerSegmentType, SmallNumbers DEF Flags
  <2>3. toClient' \in Seq(Segment)
    BY <1>7, <2>2, SayType DEF PeerRetransmit
  <2> QED
    BY <1>7, <2>3 DEF PeerRetransmit, TypeOK
<1>8. CASE LoseFromClient
  BY <1>8, HeadIsElement DEF LoseFromClient, TypeOK
<1>9. CASE LoseToClient
  BY <1>9, HeadIsElement, TcpAssumption DEF LoseToClient, TypeOK
<1>10. CASE UNCHANGED vars
  BY <1>10 DEF vars, TypeOK
<1> QED
  BY <1>1, <1>2, <1>3, <1>4, <1>5, <1>6, <1>7, <1>8, <1>9, <1>10 DEF Next

-----------------------------------------------------------------------------
(* The invariant *)

LEMMA InvInit == Init => IInv
<1> SUFFICES ASSUME Init PROVE IInv
  OBVIOUS
<1>1. /\ status = "CLOSED" /\ mynum = ISN /\ Len(toPeer) = 0 /\ Len(toClient) = 0
      /\ seen = {} /\ stream = <<>> /\ peer.phase = "LISTEN" /\ ~peer.finRcvd
  BY DEF Init
<1>2. ClientSegments /\ ServerSegments
  BY <1>1 DEF ClientSegments, ServerSegments
<1> QED
  BY <1>1, <1>2, TypeInit DEF IInv, ClientCounts, StreamFollowsNumber, FinAnswered

\* A call of tcptest.
LEMMA TcptestInv ==
  ASSUME IInv, NEW seg \in Segment, FromServer(seg), Tcptest(seg), TypeOK',
         UNCHANGED server
  PROVE  /\ ClientCounts' /\ ClientSegments' /\ FinAnswered'
         /\ \A s \in seen' : FromServer(s)'
<1>1. \A s : FromServer(s) => FromServer(s)'
  BY DEF FromServer, server
<1>2. seen' = seen \cup {seg}
  BY DEF Tcptest
<1>3. \A s \in seen' : FromServer(s)'
  BY <1>1, <1>2 DEF IInv, ServerSegments
<1>4. toPeer \in Seq(Segment)
  BY DEF IInv, TypeOK
<1>5. CASE status = "SYN_SEND" /\ "syn" \in seg.flags /\ AcksAll(seg) /\ Greet(seg)
  <2>1. mynum = First
    BY <1>5 DEF IInv, ClientCounts
  <2>2. Plus(mynum, HELLO) = FinNum /\ mynum' = Done
    BY <1>5, <2>1, ClientNumbers DEF Greet
  <2>3. ClientCounts'
    BY <1>5, <2>2 DEF ClientCounts, Greet
  <2>4. rmtnum' = peer'.iss
    BY <1>5 DEF Greet, FromServer, server
  <2> DEFINE s1 == tcp_pack({"ack"}, mynum, Plus(seg.seq, 1), 0)
             s2 == tcp_pack({"ack"}, mynum, seg.seq, HELLO)
             s3 == tcp_pack({"ack", "fin"}, Plus(mynum, HELLO), seg.seq, 0)
  <2>5. FromClient(s1) /\ FromClient(s2) /\ FromClient(s3)
    BY <2>1, <2>2 DEF FromClient, tcp_pack
  <2>6. toPeer' = toPeer \o <<s1, s2, s3>>
    BY <1>5 DEF Greet
  <2> HIDE DEF s1, s2, s3
  <2>7. \A k \in 1 .. Len(toPeer') :
          \/ k \in 1 .. Len(toPeer) /\ toPeer'[k] = toPeer[k]
          \/ toPeer'[k] \in {s1, s2, s3}
    BY <1>4, <2>6
  <2>8. ClientSegments'
    BY <2>5, <2>7 DEF ClientSegments, IInv, FromClient
  <2> QED
    BY <1>3, <2>3, <2>4, <2>8 DEF FinAnswered
<1>6. CASE status = "ESTABLISH" /\ "fin" \in seg.flags /\ AcksAll(seg) /\ AnswerFin(seg)
  <2>1. mynum = Done /\ mynum' = mynum /\ status' = status
    BY <1>6 DEF IInv, ClientCounts, AnswerFin
  <2>2. peer'.finSent /\ peer'.finRcvd
    BY <1>6, <2>1 DEF AcksAll, FromServer, server
  <2> DEFINE s1 == tcp_pack({"ack"}, mynum, seg.seq, 0)
  <2>3. FromClient(s1)
    BY DEF FromClient, tcp_pack
  <2>4. toPeer' = Append(toPeer, s1)
    BY <1>6 DEF AnswerFin
  <2> HIDE DEF s1
  <2>5. \A k \in 1 .. Len(toPeer') :
          \/ k \in 1 .. Len(toPeer) /\ toPeer'[k] = toPeer[k]
          \/ toPeer'[k] = s1
    BY <1>4, <2>4
  <2>6. ClientSegments'
    BY <2>3, <2>5 DEF ClientSegments, IInv, FromClient
  <2> QED
    BY <1>3, <1>6, <2>1, <2>2, <2>6 DEF FinAnswered, ClientCounts, IInv
<1>7. CASE UNCHANGED <<client, toPeer>>
  BY <1>3, <1>7 DEF client, server, IInv, ClientCounts, ClientSegments, FromClient, FinAnswered
<1> QED
  BY <1>5, <1>6, <1>7 DEF Tcptest

\* A segment the server takes: its number says what it adds to the stream.
LEMMA PeerTakeInv ==
  ASSUME IInv, NEW k \in 1 .. Len(toPeer), PeerTake(toPeer[k])
  PROVE  StreamFollowsNumber'
<1> DEFINE seg     == toPeer[k]
           inOrder == seg.seq = peer.rcv /\ ~peer.finRcvd
           fin     == inOrder /\ "fin" \in seg.flags
           taken   == IF inOrder THEN seg.len + (IF fin THEN 1 ELSE 0) ELSE 0
<1>1. /\ peer'.phase = "OPEN" /\ peer'.rcv = Plus(peer.rcv, taken)
      /\ peer'.finRcvd = (peer.finRcvd \/ fin)
      /\ stream' = IF inOrder /\ seg.len > 0 THEN Append(stream, seg.len) ELSE stream
  BY DEF PeerTake, IInv, TypeOK, Connection
<1>2. peer.phase # "LISTEN" /\ peer.rcv \in Numbers
  BY DEF PeerTake, IInv, TypeOK, Connection
<1>3. FromClient(seg)
  BY DEF IInv, ClientSegments
<1>4. Plus(peer.rcv, 0) = peer.rcv
  BY <1>2, TcpAssumption, PlusWraps DEF Numbers
<1>5. CASE ~inOrder \/ (seg.len = 0 /\ "fin" \notin seg.flags)
  <2>1. taken = 0 /\ stream' = stream /\ ~fin
    BY <1>1, <1>5
  <2> QED
    BY <1>1, <1>2, <1>4, <2>1 DEF IInv, StreamFollowsNumber
<1>6. CASE inOrder /\ seg.len = HELLO /\ seg.seq = First /\ seg.flags = {"ack"}
  <2>1. taken = HELLO /\ ~fin
    BY <1>6, TcpAssumption
  <2>2. peer.rcv = First /\ stream = <<>>
    BY <1>6, ClientNumbers DEF IInv, StreamFollowsNumber
  <2>3. stream' = <<HELLO>>
    BY <1>1, <1>6, <2>2, TcpAssumption
  <2> QED
    BY <1>1, <1>6, <2>1, <2>2, <2>3, ClientNumbers DEF StreamFollowsNumber
<1>7. CASE inOrder /\ seg.len = 0 /\ seg.seq = FinNum /\ seg.flags = {"ack", "fin"}
  <2>1. taken = 1 /\ fin
    BY <1>7
  <2>2. peer.rcv = FinNum /\ stream = <<HELLO>>
    BY <1>2, <1>7, ClientNumbers DEF IInv, StreamFollowsNumber
  <2>3. stream' = <<HELLO>>
    BY <1>1, <1>7, <2>2
  <2> QED
    BY <1>1, <2>1, <2>2, <2>3, ClientNumbers DEF StreamFollowsNumber
<1> QED
  BY <1>3, <1>5, <1>6, <1>7 DEF FromClient

\* What the server says is true of it from then on.
LEMMA PeerSegmentTrue ==
  ASSUME IInv, StreamFollowsNumber', NEW p, peer' = p, p.phase # "LISTEN",
         NEW flags, NEW n, NEW len,
         "fin" \in flags => p.finSent, "syn" \in flags => n = p.iss
  PROVE  FromServer(PeerSegment(p, flags, n, len))'
BY ClientNumbers DEF FromServer, PeerSegment, StreamFollowsNumber

LEMMA SayTrue ==
  ASSUME IInv, NEW s, Say(s), FromServer(s)', UNCHANGED seen,
         \A t : FromServer(t) => FromServer(t)'
  PROVE  ServerSegments'
<1>1. toClient \in Seq(Segment) /\ toClient' = Append(toClient, s)
  BY DEF IInv, TypeOK, Say
<1>2. \A k \in 1 .. Len(toClient') :
        toClient'[k] = s \/ (k \in 1 .. Len(toClient) /\ toClient'[k] = toClient[k])
  BY <1>1
<1>3. \A k \in 1 .. Len(toClient') : \E t : t = toClient'[k] /\ FromServer(t)'
  BY <1>2 DEF IInv, ServerSegments
<1>4. \A t \in seen' : FromServer(t)'
  BY DEF IInv, ServerSegments
<1> QED
  BY <1>3, <1>4 DEF ServerSegments, FromServer

LEMMA TakenFromClient ==
  ASSUME IInv, toPeer' = Tail(toPeer), toPeer # <<>>
  PROVE  ClientSegments'
<1>1. \A k \in 1 .. Len(toPeer') : k + 1 \in 1 .. Len(toPeer) /\ toPeer'[k] = toPeer[k + 1]
  BY HeadIsElement DEF IInv, TypeOK
<1> QED
  BY <1>1 DEF IInv, ClientSegments, FromClient

\* The server's part of the invariant, over what it does with one segment.
LEMMA PeerReceiveInv ==
  ASSUME IInv, PeerReceive
  PROVE  ClientSegments' /\ StreamFollowsNumber' /\ ServerSegments' /\ FinAnswered'
<1>1. PICK k \in 1 .. Len(toPeer) : toPeer[k] = Head(toPeer)
  BY HeadIsElement DEF PeerReceive, IInv, TypeOK
<1> DEFINE seg == toPeer[k]
<1>2. FromClient(seg)
  BY DEF IInv, ClientSegments
<1>3. UNCHANGED <<status, mynum, rmtnum, seen>> /\ ClientSegments'
  BY TakenFromClient DEF PeerReceive, client
<1>4. CASE PeerSyn(seg)
  <2>1. PICK p : p = [peer EXCEPT !.phase = "SYN_RCVD", !.rcv = Plus(seg.seq, 1),
                                  !.nxt = Plus(peer.iss, 1)]
    OBVIOUS
  <2>2. PICK s : s = PeerSegment(p, {"syn", "ack"}, p.iss, 0)
    OBVIOUS
  <2>3. peer' = p /\ Say(s) /\ stream' = stream /\ peer.phase = "LISTEN"
    BY <1>4, <2>1, <2>2 DEF PeerSyn
  <2>4. seg.seq = ISN
    BY <1>2, <1>4 DEF PeerSyn, FromClient
  <2>5. /\ p.phase = "SYN_RCVD" /\ p.rcv = First /\ p.iss = peer.iss
        /\ p.finSent = peer.finSent /\ p.finRcvd = peer.finRcvd
    BY <2>1, <2>4 DEF IInv, TypeOK, Connection, First
  <2>6. StreamFollowsNumber'
    BY <2>3, <2>5 DEF IInv, StreamFollowsNumber
  <2>7. FromServer(s)'
    BY <2>2, <2>3, <2>5, <2>6, PeerSegmentTrue
  <2>8. \A t : FromServer(t) => FromServer(t)'
    BY <2>3, <2>5 DEF FromServer
  <2>9. ServerSegments'
    BY <1>3, <2>3, <2>7, <2>8, SayTrue
  <2> QED
    BY <1>3, <2>3, <2>5, <2>6, <2>9 DEF IInv, FinAnswered
<1>5. CASE PeerRefuse(seg)
  <2>1. PICK s : s = [flags |-> {"rst"}, seq |-> seg.ack, ack |-> 0, len |-> 0]
    OBVIOUS
  <2>2. Say(s) /\ peer' = peer /\ stream' = stream
    BY <1>5, <2>1 DEF PeerRefuse, server
  <2>3. FromServer(s)' /\ \A t : FromServer(t) => FromServer(t)'
    BY <2>1, <2>2 DEF FromServer
  <2>4. ServerSegments'
    BY <1>3, <2>2, <2>3, SayTrue
  <2> QED
    BY <1>3, <2>2, <2>4 DEF IInv, StreamFollowsNumber, FinAnswered
<1>6. CASE PeerTake(seg)
  <2>1. StreamFollowsNumber'
    BY <1>6, PeerTakeInv
  <2>2. /\ peer'.iss = peer.iss /\ peer'.finSent = peer.finSent
        /\ peer.finRcvd => peer'.finRcvd
        /\ peer'.phase = "OPEN"
    BY <1>6 DEF PeerTake, IInv, TypeOK, Connection
  <2>3. \A t : FromServer(t) => FromServer(t)'
    BY <2>2 DEF FromServer
  <2>4. Say(PeerSegment(peer', {"ack"}, peer'.nxt, 0)) \/ UNCHANGED toClient
    BY <1>6 DEF PeerTake
  <2>5. ServerSegments'
    <3>1. CASE UNCHANGED toClient
      BY <1>3, <2>3, <3>1 DEF IInv, ServerSegments, FromServer
    <3>2. CASE Say(PeerSegment(peer', {"ack"}, peer'.nxt, 0))
      <4> PICK p : p = peer'
        OBVIOUS
      <4>1. FromServer(PeerSegment(p, {"ack"}, p.nxt, 0))'
        BY <2>1, <2>2, PeerSegmentTrue
      <4> QED
        BY <1>3, <2>3, <3>2, <4>1, SayTrue
    <3> QED
      BY <2>4, <3>1, <3>2
  <2> QED
    BY <1>3, <2>1, <2>2, <2>5 DEF IInv, FinAnswered
<1> QED
  BY <1>1, <1>4, <1>5, <1>6 DEF PeerReceive

LEMMA InvStep == IInv /\ [Next]_vars => IInv'
<1> SUFFICES ASSUME IInv, [Next]_vars PROVE IInv'
  OBVIOUS
<1>0. TypeOK /\ TypeOK'
  BY TypeStep DEF IInv
<1>1. CASE TcpFirstStep
  <2>1. /\ status = "CLOSED" /\ status' = "SYN_SEND" /\ mynum' = Plus(mynum, 1)
        /\ toPeer' = Append(toPeer, tcp_pack({"syn"}, mynum, 0, 0))
        /\ UNCHANGED <<rmtnum, toClient, seen, peer, stream>>
    BY <1>1 DEF TcpFirstStep, server
  <2>2. mynum = ISN /\ mynum' = First
    BY <2>1 DEF IInv, ClientCounts, First
  <2>3. FromClient(tcp_pack({"syn"}, mynum, 0, 0))
    BY <2>2 DEF FromClient, tcp_pack
  <2>4. \A k \in 1 .. Len(toPeer') :
          \/ toPeer'[k] = tcp_pack({"syn"}, mynum, 0, 0)
          \/ k \in 1 .. Len(toPeer) /\ toPeer'[k] = toPeer[k]
    BY <1>0, <2>1 DEF TypeOK
  <2>5. ClientSegments'
    BY <2>3, <2>4 DEF IInv, ClientSegments, FromClient
  <2>6. ServerSegments'
    BY <2>1 DEF IInv, ServerSegments, FromServer
  <2> QED
    BY <1>0, <2>1, <2>2, <2>5, <2>6
       DEF IInv, ClientCounts, StreamFollowsNumber, FinAnswered
<1>2. CASE HandleSegment
  <2>1. PICK seg \in Segment : /\ seg = Head(toClient) /\ FromServer(seg)
                               /\ toClient' = Tail(toClient) /\ Tcptest(seg)
    BY <1>0, <1>2, HeadIsElement DEF HandleSegment, TypeOK, IInv, ServerSegments
  <2>2. UNCHANGED server
    BY <1>2 DEF HandleSegment
  <2>3. /\ ClientCounts' /\ ClientSegments' /\ FinAnswered'
        /\ \A s \in seen' : FromServer(s)'
    BY <1>0, <2>1, <2>2, TcptestInv
  <2>4. \A k \in 1 .. Len(toClient') :
          k + 1 \in 1 .. Len(toClient) /\ toClient'[k] = toClient[k + 1]
    BY <1>0, <1>2, HeadIsElement DEF HandleSegment, TypeOK
  <2>5. ServerSegments'
    BY <2>2, <2>3, <2>4 DEF IInv, ServerSegments, FromServer, server
  <2> QED
    BY <1>0, <2>2, <2>3, <2>5 DEF IInv, StreamFollowsNumber, server
<1>3. CASE HandleStaleSegment
  <2>1. PICK seg \in Segment : FromServer(seg) /\ Tcptest(seg)
    BY <1>0, <1>3 DEF HandleStaleSegment, TypeOK, IInv, ServerSegments
  <2>2. UNCHANGED server /\ UNCHANGED toClient
    BY <1>3 DEF HandleStaleSegment
  <2>3. /\ ClientCounts' /\ ClientSegments' /\ FinAnswered'
        /\ \A s \in seen' : FromServer(s)'
    BY <1>0, <2>1, <2>2, TcptestInv
  <2>4. ServerSegments'
    BY <2>2, <2>3 DEF IInv, ServerSegments, FromServer, server
  <2> QED
    BY <1>0, <2>2, <2>3, <2>4 DEF IInv, StreamFollowsNumber, server
<1>4. CASE PeerReceive
  <2>1. ClientCounts'
    BY <1>4 DEF PeerReceive, client, IInv, ClientCounts
  <2> QED
    BY <1>0, <1>4, <2>1, PeerReceiveInv DEF IInv
<1>5. CASE PeerSpeak \/ PeerClose \/ PeerRetransmit
  <2>1. UNCHANGED <<status, mynum, rmtnum, toPeer, seen, stream>>
    BY <1>5 DEF PeerSpeak, PeerClose, PeerRetransmit, client, server
  <2>2. /\ peer'.phase = peer.phase /\ peer'.iss = peer.iss /\ peer'.rcv = peer.rcv
        /\ peer'.finRcvd = peer.finRcvd /\ (peer.finSent => peer'.finSent)
        /\ peer.phase # "LISTEN"
    BY <1>0, <1>5 DEF PeerSpeak, PeerClose, PeerRetransmit, TypeOK, Connection, server
  <2>3. PICK flags, n, len :
          /\ Say(PeerSegment(peer, flags, n, len))
          /\ "fin" \in flags => peer'.finSent
          /\ "syn" \in flags => n = peer.iss
    <3>1. CASE PeerSpeak
      BY <3>1 DEF PeerSpeak
    <3>2. CASE PeerClose
      BY <1>0, <3>2 DEF PeerClose, TypeOK, Connection
    <3>3. CASE PeerRetransmit
      BY <3>3 DEF PeerRetransmit, server
    <3> QED
      BY <1>5, <3>1, <3>2, <3>3
  <2>4. StreamFollowsNumber'
    BY <2>1, <2>2 DEF IInv, StreamFollowsNumber
  <2>5. PICK p, s : p = peer' /\ s = PeerSegment(peer, flags, n, len)
    OBVIOUS
  <2>6. s = PeerSegment(p, flags, n, len)
    BY <2>2, <2>5 DEF PeerSegment
  <2>7. FromServer(s)'
    BY <2>2, <2>3, <2>4, <2>5, <2>6, PeerSegmentTrue
  <2>8. \A t : FromServer(t) => FromServer(t)'
    BY <2>2 DEF FromServer
  <2>9. ServerSegments'
    BY <2>1, <2>3, <2>5, <2>7, <2>8, SayTrue
  <2> QED
    BY <1>0, <2>1, <2>2, <2>4, <2>9
       DEF IInv, ClientCounts, ClientSegments, FromClient, FinAnswered
<1>6. CASE LoseFromClient
  <2>1. ClientSegments'
    BY <1>6, TakenFromClient DEF LoseFromClient
  <2> QED
    BY <1>0, <1>6, <2>1 DEF LoseFromClient, client, server, IInv, ClientCounts,
       StreamFollowsNumber, ServerSegments, FromServer, FinAnswered
<1>7. CASE LoseToClient
  <2>1. \A k \in 1 .. Len(toClient') :
          k + 1 \in 1 .. Len(toClient) /\ toClient'[k] = toClient[k + 1]
    BY <1>0, <1>7, HeadIsElement DEF LoseToClient, TypeOK
  <2>2. UNCHANGED <<client, toPeer, server>>
    BY <1>7 DEF LoseToClient
  <2>3. seen' \subseteq seen \cup {toClient[1]}
    BY <1>0, <1>7, HeadIsElement DEF LoseToClient, TypeOK
  <2>4. Len(toClient) > 0 /\ Len(toClient) \in Nat
    BY <1>0, <1>7, HeadIsElement DEF LoseToClient, TypeOK
  <2>5. \A s \in seen' : FromServer(s)
    BY <2>3, <2>4 DEF IInv, ServerSegments
  <2>6. ServerSegments'
    BY <2>1, <2>2, <2>5 DEF server, IInv, ServerSegments, FromServer
  <2> QED
    BY <1>0, <2>2, <2>6 DEF client, server, IInv, ClientCounts, ClientSegments,
       FromClient, StreamFollowsNumber, FinAnswered
<1>8. CASE UNCHANGED vars
  BY <1>0, <1>8 DEF vars, client, server, IInv, ClientCounts, ClientSegments, FromClient,
     StreamFollowsNumber, ServerSegments, FromServer, FinAnswered
<1> QED
  BY <1>1, <1>2, <1>3, <1>4, <1>5, <1>6, <1>7, <1>8 DEF Next

LEMMA Invariance == Spec => []IInv
BY InvInit, InvStep, PTL DEF Spec

-----------------------------------------------------------------------------
(* The results *)

\* mylink stays well formed: both numbers of it are 32-bit numbers, and every
\* segment under way is one that fits the header tcp_pack fills in.
THEOREM TypeCorrect == Spec => []TypeOK
<1>1. IInv => TypeOK
  BY DEF IInv
<1> QED
  BY <1>1, Invariance, PTL

\* tcptest answers a FIN only when the server has closed and has read the message
\* and the client's FIN: the test of the acknowledgement against mylink.mynum
\* is enough to know it, however often the packet cache hands over old segments.
THEOREM CloseOnlyMutual == Spec => []CloseIsMutual
<1>1. IInv => CloseIsMutual
  <2> SUFFICES ASSUME IInv, status = "ESTABLISH", rmtnum # peer.iss
               PROVE  peer.finSent /\ peer.finRcvd /\ stream = <<HELLO>>
    BY DEF CloseIsMutual
  <2>1. peer.finSent /\ peer.finRcvd
    BY DEF IInv, FinAnswered
  <2> QED
    BY <2>1 DEF IInv, StreamFollowsNumber
<1> QED
  BY <1>1, Invariance, PTL

\* A segment the server takes delivers the message, ends the stream, or neither.
LEMMA TakeReads ==
  ASSUME IInv, NEW k \in 1 .. Len(toPeer), PeerTake(toPeer[k])
  PROVE  [Reading!Next]_<<stream, peer.finRcvd>>
<1> DEFINE seg     == toPeer[k]
           inOrder == seg.seq = peer.rcv /\ ~peer.finRcvd
           fin     == inOrder /\ "fin" \in seg.flags
<1>1. /\ peer'.finRcvd = (peer.finRcvd \/ fin)
      /\ stream' = IF inOrder /\ seg.len > 0 THEN Append(stream, seg.len) ELSE stream
  BY DEF PeerTake, IInv, TypeOK, Connection
<1>2. peer.phase # "LISTEN" /\ peer.finRcvd \in BOOLEAN
  BY DEF PeerTake, IInv, TypeOK, Connection
<1>3. FromClient(seg)
  BY DEF IInv, ClientSegments
<1>4. CASE ~inOrder \/ (seg.len = 0 /\ "fin" \notin seg.flags)
  BY <1>1, <1>2, <1>4
<1>5. CASE inOrder /\ seg.len = HELLO /\ seg.seq = First /\ seg.flags = {"ack"}
  <2>1. stream = <<>>
    BY <1>2, <1>5, ClientNumbers DEF IInv, StreamFollowsNumber
  <2>2. stream' = <<HELLO>> /\ peer'.finRcvd = peer.finRcvd
    BY <1>1, <1>2, <1>5, <2>1, TcpAssumption
  <2> QED
    BY <1>5, <2>1, <2>2 DEF Reading!Next, Reading!Deliver
<1>6. CASE inOrder /\ seg.len = 0 /\ seg.seq = FinNum /\ seg.flags = {"ack", "fin"}
  <2>1. stream = <<HELLO>>
    BY <1>2, <1>6, ClientNumbers DEF IInv, StreamFollowsNumber
  <2>2. stream' = stream
    BY <1>1, <1>6
  <2>3. fin
    BY <1>6
  <2>4. peer'.finRcvd = TRUE
    <3> HIDE DEF fin
    <3> QED
      BY <1>1, <2>3
  <2> QED
    BY <1>6, <2>1, <2>2, <2>4 DEF Reading!Next, Reading!End
<1> QED
  BY <1>3, <1>4, <1>5, <1>6 DEF FromClient

LEMMA StepReads == IInv /\ [Next]_vars => [Reading!Next]_<<stream, peer.finRcvd>>
<1> SUFFICES ASSUME IInv, [Next]_vars PROVE [Reading!Next]_<<stream, peer.finRcvd>>
  OBVIOUS
<1>1. CASE PeerReceive
  <2>1. PICK k \in 1 .. Len(toPeer) : toPeer[k] = Head(toPeer)
    BY <1>1, HeadIsElement DEF PeerReceive, IInv, TypeOK
  <2>2. CASE PeerSyn(toPeer[k]) \/ PeerRefuse(toPeer[k])
    BY <2>2 DEF PeerSyn, PeerRefuse, server, IInv, TypeOK, Connection
  <2>3. CASE PeerTake(toPeer[k])
    BY <2>3, TakeReads
  <2> QED
    BY <1>1, <2>1, <2>2, <2>3 DEF PeerReceive
<1>2. CASE ~PeerReceive
  BY <1>2 DEF Next, vars, TcpFirstStep, HandleSegment, HandleStaleSegment, PeerSpeak,
     PeerClose, PeerRetransmit, LoseFromClient, LoseToClient, server, IInv, TypeOK,
     Connection
<1> QED
  BY <1>1, <1>2

\* The server's program reads the message once and then the end of the stream,
\* whatever is lost, refused, or handed to tcptest again.
THEOREM MessageReadOnce == Spec => ReadsOneMessage
<1>1. Init => Reading!Init
  BY DEF Init, Reading!Init
<1> QED
  BY <1>1, StepReads, Invariance, PTL DEF Spec, ReadsOneMessage, Reading!Spec,
     Reading!messageVars

-----------------------------------------------------------------------------
(* The acknowledgements.  All the client acknowledges are numbers of the server's, and *)
(* those are counted from its initial one: its SYN and what it has said.  The one after *)
(* its FIN is none of them, since the client acknowledges a FIN with its own number.   *)

Said == (IF peer.phase = "LISTEN" THEN 0 ELSE 1) + (IF peer.spoken THEN PeerData ELSE 0)

Sent == Said + (IF peer.finSent THEN 1 ELSE 0)

OfServer(n) == \E k \in 0 .. Said : n = Plus(peer.iss, k)

ServerCounts ==
  /\ peer.nxt = Plus(peer.iss, Sent)
  /\ peer.phase = "LISTEN" => ~peer.spoken /\ ~peer.finSent

Acknowledges(seg) == "ack" \in seg.flags => OfServer(seg.ack)

\* What of the server's segments the client may acknowledge.
Numbered(seg) ==
  /\ "syn" \in seg.flags => seg.seq = peer.iss /\ peer.phase # "LISTEN"
  /\ "fin" \in seg.flags => OfServer(seg.seq)

AckClient    == status = "ESTABLISH" => OfServer(rmtnum)
AckServer    == OfServer(peer.una)
AckToPeer    == \A k \in 1 .. Len(toPeer) : Acknowledges(toPeer[k])
NumberedLink == \A k \in 1 .. Len(toClient) : Numbered(toClient[k])
NumberedSeen == \A seg \in seen : Numbered(seg)

AckInv == /\ ServerCounts /\ AckClient /\ AckServer /\ AckToPeer
          /\ NumberedLink /\ NumberedSeen

\* The SYN comes first and alone: whatever a server that has answered it takes is an
\* acknowledgement.
Opening ==
  /\ status = "CLOSED" => toPeer = <<>> /\ peer.phase = "LISTEN"
  /\ peer.phase = "LISTEN" => Len(toPeer) <= 1 /\ toClient = <<>> /\ seen = {}
  /\ peer.phase # "LISTEN" => \A k \in 1 .. Len(toPeer) : "ack" \in toPeer[k].flags

LEMMA SaidBound ==
  ASSUME TypeOK
  PROVE  /\ Said \in 0 .. PeerData + 1 /\ Said \in Nat
         /\ Sent \in Said .. Said + 1 /\ Sent \in Nat /\ Sent < SEQ - 1
<1>1. peer.spoken \in BOOLEAN /\ peer.finSent \in BOOLEAN
  BY DEF TypeOK, Connection
<1>2. Said \in 0 .. PeerData + 1
  BY <1>1, TcpAssumption DEF Said
<1>3. Sent \in Said .. Said + 1
  BY <1>1, <1>2, TcpAssumption DEF Sent
<1> QED
  BY <1>2, <1>3, TcpAssumption

\* Going on from a number of the server's, and coming back to the one before.
LEMMA PlusPlus ==
  ASSUME NEW n \in Numbers, NEW j \in 0 .. SEQ - 1, NEW k \in 0 .. SEQ - 1, j + k <= SEQ - 1
  PROVE  Plus(Plus(n, j), k) = Plus(n, j + k)
<1>1. /\ SEQ \in Nat /\ j \in 0 .. SEQ /\ k \in 0 .. SEQ /\ j + k \in 0 .. SEQ
  BY TcpAssumption
<1>2. Plus(n, j) = IF n + j < SEQ THEN n + j ELSE n + j - SEQ
  BY <1>1, PlusWraps
<1>3. Plus(n, j) \in Numbers
  BY <1>1, PlusType
<1>4. Plus(Plus(n, j), k) =
        IF Plus(n, j) + k < SEQ THEN Plus(n, j) + k ELSE Plus(n, j) + k - SEQ
  BY <1>1, <1>3, PlusWraps
<1>5. Plus(n, j + k) = IF n + (j + k) < SEQ THEN n + (j + k) ELSE n + (j + k) - SEQ
  BY <1>1, PlusWraps
<1> QED
  BY <1>1, <1>2, <1>4, <1>5 DEF Numbers

LEMMA PlusBack ==
  ASSUME NEW n \in Numbers, NEW j \in 1 .. SEQ - 1
  PROVE  Plus(Plus(n, j), SEQ - 1) = Plus(n, j - 1)
<1>1. /\ SEQ \in Nat /\ j \in 0 .. SEQ /\ j - 1 \in 0 .. SEQ /\ SEQ - 1 \in 0 .. SEQ
  BY TcpAssumption
<1>2. Plus(n, j) = IF n + j < SEQ THEN n + j ELSE n + j - SEQ
  BY <1>1, PlusWraps
<1>3. Plus(n, j) \in Numbers
  BY <1>1, PlusType
<1>4. Plus(Plus(n, j), SEQ - 1) =
        IF Plus(n, j) + (SEQ - 1) < SEQ THEN Plus(n, j) + (SEQ - 1)
        ELSE Plus(n, j) + (SEQ - 1) - SEQ
  BY <1>1, <1>3, PlusWraps
<1>5. Plus(n, j - 1) = IF n + (j - 1) < SEQ THEN n + (j - 1) ELSE n + (j - 1) - SEQ
  BY <1>1, PlusWraps
<1> QED
  BY <1>1, <1>2, <1>4, <1>5 DEF Numbers

LEMMA Offset ==
  ASSUME NEW n \in Numbers, NEW k \in 0 .. SEQ - 1
  PROVE  (Plus(n, k) + SEQ - n) % SEQ = k
<1>1. SEQ \in Nat \ {0} /\ k \in 0 .. SEQ /\ n \in 0 .. SEQ - 1
  BY TcpAssumption DEF Numbers
<1>2. Plus(n, k) = IF n + k < SEQ THEN n + k ELSE n + k - SEQ
  BY <1>1, PlusWraps
<1>3. k % SEQ = k /\ (k + SEQ) % SEQ = k
  BY <1>1
<1>4. Plus(n, k) + SEQ - n = k \/ Plus(n, k) + SEQ - n = k + SEQ
  BY <1>1, <1>2
<1> QED
  BY <1>3, <1>4

\* A number of the server's lies between its SYN and the next number it will use.
LEMMA OfServerWithin ==
  ASSUME TypeOK, ServerCounts, NEW n, OfServer(n)
  PROVE  Within(peer.iss, n, peer.nxt)
<1>1. PICK k \in 0 .. Said : n = Plus(peer.iss, k)
  BY DEF OfServer
<1>2. peer.iss \in Numbers /\ Sent \in 0 .. SEQ - 1 /\ k \in 0 .. SEQ - 1 /\ k <= Sent
  BY SaidBound, TcpAssumption DEF TypeOK, Connection
<1>3. (n + SEQ - peer.iss) % SEQ = k /\ (peer.nxt + SEQ - peer.iss) % SEQ = Sent
  BY <1>1, <1>2, Offset DEF ServerCounts
<1> QED
  BY <1>2, <1>3 DEF Within

-----------------------------------------------------------------------------

\* The server only adds to what it has said.
Grows == /\ peer'.iss = peer.iss /\ Said <= Said'
         /\ peer.phase # "LISTEN" => peer'.phase # "LISTEN"

LEMMA GrowsKeeps ==
  ASSUME TypeOK, TypeOK', Grows
  PROVE  /\ \A n : OfServer(n) => OfServer(n)'
         /\ \A seg : Acknowledges(seg) => Acknowledges(seg)'
         /\ \A seg : Numbered(seg) => Numbered(seg)'
<1>1. Said \in Nat /\ Said' \in Nat
  <2>1. peer'.spoken \in BOOLEAN
    BY DEF TypeOK, Connection
  <2> QED
    BY <2>1, SaidBound, TcpAssumption DEF Said
<1>2. \A n : OfServer(n) => OfServer(n)'
  <2> SUFFICES ASSUME NEW n, OfServer(n) PROVE OfServer(n)'
    OBVIOUS
  <2>1. PICK k \in 0 .. Said : n = Plus(peer.iss, k)
    BY DEF OfServer
  <2>2. k \in 0 .. Said' /\ n = Plus(peer'.iss, k)
    BY <1>1, <2>1 DEF Grows
  <2> QED
    BY <2>2 DEF AckClient, OfServer, Plus
<1> QED
  BY <1>2 DEF Acknowledges, Numbered, Grows

LEMMA SamePeer ==
  ASSUME TypeOK, peer' = peer, AckInv
  PROVE  Grows /\ ServerCounts' /\ AckServer'
<1>1. Said' = Said /\ Said \in Nat
  BY SaidBound DEF Said
<1> QED
  BY <1>1 DEF Grows, AckInv, ServerCounts, AckServer, OfServer, Sent, Plus

\* A call of tcptest.
LEMMA TcptestAcks ==
  ASSUME IInv, AckInv, NEW seg \in Segment, Numbered(seg), Tcptest(seg), peer' = peer, TypeOK'
  PROVE  AckClient' /\ AckToPeer'
<1>1. TypeOK /\ toPeer \in Seq(Segment) /\ peer.iss \in Numbers
  BY DEF IInv, TypeOK, Connection
<1>2. /\ \A n : OfServer(n) => OfServer(n)'
      /\ \A s : Acknowledges(s) => Acknowledges(s)'
  BY <1>1, SamePeer, GrowsKeeps
<1>3. CASE "syn" \in seg.flags /\ Greet(seg)
  <2>1. seg.seq = peer.iss /\ peer.phase # "LISTEN"
    BY <1>3 DEF Numbered
  <2>2. Said \in Nat /\ Said >= 1
    <3>1. peer.spoken \in BOOLEAN /\ peer.finSent \in BOOLEAN
      BY <1>1 DEF TypeOK, Connection
    <3> QED
      BY <2>1, <3>1, TcpAssumption DEF Said
  <2>3. Plus(peer.iss, 0) = peer.iss
    BY <1>1, PlusWraps, TcpAssumption DEF Numbers
  <2>4. OfServer(seg.seq) /\ OfServer(Plus(seg.seq, 1))
    BY <2>1, <2>2, <2>3 DEF OfServer
  <2> DEFINE s1 == tcp_pack({"ack"}, mynum, Plus(seg.seq, 1), 0)
             s2 == tcp_pack({"ack"}, mynum, seg.seq, HELLO)
             s3 == tcp_pack({"ack", "fin"}, Plus(mynum, HELLO), seg.seq, 0)
  <2>5. Acknowledges(s1) /\ Acknowledges(s2) /\ Acknowledges(s3)
    BY <2>4 DEF Acknowledges, tcp_pack
  <2>6. toPeer' = toPeer \o <<s1, s2, s3>> /\ rmtnum' = seg.seq
    BY <1>3 DEF Greet
  <2> HIDE DEF s1, s2, s3
  <2>7. \A k \in 1 .. Len(toPeer') :
          \/ k \in 1 .. Len(toPeer) /\ toPeer'[k] = toPeer[k]
          \/ toPeer'[k] \in {s1, s2, s3}
    BY <1>1, <2>6
  <2>8. \A k \in 1 .. Len(toPeer') : Acknowledges(toPeer'[k])
    BY <2>5, <2>7 DEF AckInv, AckToPeer
  <2>9. \A k \in 1 .. Len(toPeer') : \E s : s = toPeer'[k] /\ Acknowledges(s)'
    BY <1>2, <2>8
  <2>10. OfServer(rmtnum')
    BY <2>4, <2>6
  <2>11. \E n : n = rmtnum' /\ OfServer(n)'
    BY <1>2, <2>10
  <2>12. AckToPeer'
    BY <2>9 DEF AckToPeer, Acknowledges
  <2>13. AckClient'
    BY <2>11 DEF AckClient, OfServer
  <2> QED
    BY <2>12, <2>13
<1>4. CASE "fin" \in seg.flags /\ AnswerFin(seg)
  <2>1. OfServer(seg.seq)
    BY <1>4 DEF Numbered
  <2> DEFINE s1 == tcp_pack({"ack"}, mynum, seg.seq, 0)
  <2>2. Acknowledges(s1)
    BY <2>1 DEF Acknowledges, tcp_pack
  <2>3. toPeer' = Append(toPeer, s1) /\ rmtnum' = seg.seq
    BY <1>4 DEF AnswerFin
  <2> HIDE DEF s1
  <2>4. \A k \in 1 .. Len(toPeer') :
          \/ k \in 1 .. Len(toPeer) /\ toPeer'[k] = toPeer[k]
          \/ toPeer'[k] = s1
    BY <1>1, <2>3
  <2>5. \A k \in 1 .. Len(toPeer') : \E s : s = toPeer'[k] /\ Acknowledges(s)'
    BY <1>2, <2>2, <2>4 DEF AckInv, AckToPeer
  <2>6. \E n : n = rmtnum' /\ OfServer(n)'
    BY <1>2, <2>1, <2>3
  <2>7. AckToPeer'
    BY <2>5 DEF AckToPeer, Acknowledges
  <2>8. AckClient'
    BY <2>6 DEF AckClient, OfServer
  <2> QED
    BY <2>7, <2>8
<1>5. CASE UNCHANGED <<client, toPeer>>
  <2>1. \A k \in 1 .. Len(toPeer') : \E s : s = toPeer'[k] /\ Acknowledges(s)'
    BY <1>2, <1>5 DEF AckInv, AckToPeer
  <2>2. status' = "ESTABLISH" => \E n : n = rmtnum' /\ OfServer(n)'
    BY <1>2, <1>5 DEF AckInv, AckClient, client
  <2>3. AckToPeer'
    BY <2>1 DEF AckToPeer, Acknowledges
  <2>4. AckClient'
    BY <2>2 DEF AckClient, OfServer
  <2> QED
    BY <2>3, <2>4
<1> QED
  BY <1>3, <1>4, <1>5 DEF Tcptest

\* What stays under way, and what the server adds.
LEMMA AckToPeerKept ==
  ASSUME AckInv, \A s : Acknowledges(s) => Acknowledges(s)',
         \A k \in 1 .. Len(toPeer') : \E m \in 1 .. Len(toPeer) : toPeer'[k] = toPeer[m]
  PROVE  AckToPeer'
<1>1. \A k \in 1 .. Len(toPeer') : \E s : s = toPeer'[k] /\ Acknowledges(s)'
  BY DEF AckInv, AckToPeer
<1> QED
  BY <1>1 DEF AckToPeer, Acknowledges

LEMMA NumberedKept ==
  ASSUME AckInv, \A s : Numbered(s) => Numbered(s)', NEW new, Numbered(new)',
         \A k \in 1 .. Len(toClient') :
           toClient'[k] = new \/ \E m \in 1 .. Len(toClient) : toClient'[k] = toClient[m]
  PROVE  NumberedLink'
<1>1. \A k \in 1 .. Len(toClient') : \E s : s = toClient'[k] /\ Numbered(s)'
  BY DEF AckInv, NumberedLink
<1> QED
  BY <1>1 DEF NumberedLink, Numbered

LEMMA SayNumbered ==
  ASSUME TypeOK, AckInv, NEW s, Say(s), Numbered(s)', \A t : Numbered(t) => Numbered(t)',
         UNCHANGED seen
  PROVE  NumberedLink' /\ NumberedSeen'
<1>1. \A k \in 1 .. Len(toClient') :
        toClient'[k] = s \/ \E m \in 1 .. Len(toClient) : toClient'[k] = toClient[m]
  BY DEF Say, TypeOK
<1>2. NumberedLink'
  BY <1>1, NumberedKept
<1>3. NumberedSeen'
  BY DEF AckInv, NumberedSeen
<1> QED
  BY <1>2, <1>3

\* The server's own steps.
LEMMA SpeakAcks ==
  ASSUME TypeOK, TypeOK', AckInv, PeerSpeak \/ PeerClose \/ PeerRetransmit
  PROVE  Grows /\ ServerCounts' /\ AckServer' /\ NumberedLink' /\ NumberedSeen'
<1>1. /\ peer.iss \in Numbers /\ peer.nxt = Plus(peer.iss, Sent)
      /\ Said \in 0 .. PeerData + 1 /\ Said \in Nat /\ peer \in Connection
      /\ UNCHANGED seen
  BY SaidBound DEF TypeOK, Connection, AckInv, ServerCounts, PeerSpeak, PeerClose, PeerRetransmit
<1>2. PeerData + 4 < SEQ /\ PeerData \in Nat /\ SEQ \in Nat
  BY TcpAssumption
<1>3. ASSUME Grows, peer'.una = peer.una PROVE AckServer'
  <2>1. \E n : n = peer.una /\ OfServer(n)'
    BY <1>3, GrowsKeeps DEF AckInv, AckServer
  <2> QED
    BY <1>3, <2>1 DEF AckServer, OfServer
<1>4. CASE PeerSpeak
  <2>1. /\ peer' = [peer EXCEPT !.spoken = TRUE, !.nxt = Plus(peer.nxt, PeerData)]
        /\ peer.phase = "OPEN" /\ ~peer.spoken /\ ~peer.finSent
        /\ Say(PeerSegment(peer, {"ack"}, peer.nxt, PeerData))
    BY <1>4 DEF PeerSpeak
  <2>2. /\ peer'.phase = peer.phase /\ peer'.iss = peer.iss /\ peer'.finSent = peer.finSent
        /\ peer'.spoken /\ peer'.nxt = Plus(peer.nxt, PeerData) /\ peer'.una = peer.una
    BY <1>1, <2>1 DEF Connection
  <2>3. Said' = Said + PeerData /\ Sent' = Said' /\ Sent = Said /\ Said <= SEQ - 1 - PeerData
    BY <1>2, <2>1, <2>2, TcpAssumption DEF Said, Sent
  <2>4. peer'.nxt = Plus(peer.iss, Said + PeerData)
    BY <1>1, <1>2, <2>2, <2>3, PlusPlus
  <2>5. Grows /\ ServerCounts'
    BY <1>1, <1>2, <2>1, <2>2, <2>3, <2>4 DEF Grows, ServerCounts, Plus
  <2>6. PICK s : s = PeerSegment(peer, {"ack"}, peer.nxt, PeerData)
    OBVIOUS
  <2>7. Numbered(s)'
    BY <2>6 DEF Numbered, PeerSegment
  <2> QED
    BY <1>1, <2>1, <2>2, <2>5, <2>6, <2>7, <1>3, GrowsKeeps, SayNumbered
<1>5. CASE PeerClose
  <2>1. /\ peer' = [peer EXCEPT !.finSent = TRUE, !.nxt = Plus(peer.nxt, 1)]
        /\ peer.phase = "OPEN" /\ ~peer.finSent
        /\ Say(PeerSegment(peer, {"ack", "fin"}, peer.nxt, 0))
    BY <1>5 DEF PeerClose
  <2>2. /\ peer'.phase = peer.phase /\ peer'.iss = peer.iss /\ peer'.spoken = peer.spoken
        /\ peer'.finSent /\ peer'.nxt = Plus(peer.nxt, 1) /\ peer'.una = peer.una
    BY <1>1, <2>1 DEF Connection
  <2>3. Said' = Said /\ Sent' = Said + 1 /\ Sent = Said /\ Said <= SEQ - 2
    BY <1>1, <1>2, <2>1, <2>2, TcpAssumption DEF Said, Sent
  <2>4. peer'.nxt = Plus(peer.iss, Said + 1)
    BY <1>1, <1>2, <2>2, <2>3, PlusPlus
  <2>5. Grows /\ ServerCounts'
    BY <1>1, <1>2, <2>1, <2>2, <2>3, <2>4 DEF Grows, ServerCounts, Plus
  <2>6. PICK s : s = PeerSegment(peer, {"ack", "fin"}, peer.nxt, 0)
    OBVIOUS
  <2>7. s.flags = {"ack", "fin"} /\ s.seq = peer.nxt
    BY <2>6 DEF PeerSegment
  <2>8. OfServer(s.seq)
    BY <1>1, <2>3, <2>7 DEF OfServer
  <2>9. Numbered(s)
    BY <2>7, <2>8 DEF Numbered
  <2> QED
    BY <1>1, <2>1, <2>2, <2>5, <2>6, <2>9, <1>3, GrowsKeeps, SayNumbered
<1>6. CASE PeerRetransmit
  <2>1. peer' = peer
    BY <1>6 DEF PeerRetransmit, server
  <2>2. Grows /\ ServerCounts' /\ AckServer'
    BY <2>1, SamePeer
  <2>3. \E s : Say(s) /\ Numbered(s)
    <3>1. CASE peer.phase = "SYN_RCVD" /\ Say(PeerSegment(peer, {"syn", "ack"}, peer.iss, 0))
      <4>1. PICK s : s = PeerSegment(peer, {"syn", "ack"}, peer.iss, 0)
        OBVIOUS
      <4>2. Numbered(s)
        BY <3>1, <4>1 DEF Numbered, PeerSegment
      <4> QED
        BY <3>1, <4>1, <4>2
    <3>2. CASE Say(PeerSegment(peer, {"ack"}, peer.una, PeerData))
      <4>1. PICK s : s = PeerSegment(peer, {"ack"}, peer.una, PeerData)
        OBVIOUS
      <4>2. Numbered(s)
        BY <4>1 DEF Numbered, PeerSegment
      <4> QED
        BY <3>2, <4>1, <4>2
    <3>3. CASE /\ peer.finSent
               /\ Say(PeerSegment(peer, {"ack", "fin"}, Plus(peer.nxt, SEQ - 1), 0))
      <4>1. PICK s : s = PeerSegment(peer, {"ack", "fin"}, Plus(peer.nxt, SEQ - 1), 0)
        OBVIOUS
      <4>2. Sent = Said + 1 /\ Sent \in 1 .. SEQ - 1 /\ Sent - 1 = Said
        BY <1>1, <1>2, <3>3 DEF Sent
      <4>3. Plus(peer.nxt, SEQ - 1) = Plus(peer.iss, Said)
        BY <1>1, <4>2, PlusBack
      <4>4. OfServer(Plus(peer.nxt, SEQ - 1))
        BY <1>1, <4>3 DEF OfServer
      <4>5. Numbered(s)
        BY <4>1, <4>4 DEF Numbered, PeerSegment
      <4> QED
        BY <3>3, <4>1, <4>5
    <3> QED
      BY <1>6, <3>1, <3>2, <3>3 DEF PeerRetransmit
  <2>4. PICK s : Say(s) /\ Numbered(s)
    BY <2>3
  <2> QED
    BY <1>1, <2>2, <2>4, GrowsKeeps, SayNumbered
<1> QED
  BY <1>4, <1>5, <1>6

LEMMA ReceiveAcks ==
  ASSUME TypeOK, TypeOK', AckInv, NEW seg \in Segment, UNCHANGED seen,
         Acknowledges(seg), peer.phase # "LISTEN" => "ack" \in seg.flags,
         PeerSyn(seg) \/ PeerRefuse(seg) \/ PeerTake(seg)
  PROVE  Grows /\ ServerCounts' /\ AckServer' /\ NumberedLink' /\ NumberedSeen'
<1>1. /\ peer.iss \in Numbers /\ peer.nxt = Plus(peer.iss, Sent) /\ peer \in Connection
      /\ Said \in Nat
  BY SaidBound DEF TypeOK, Connection, AckInv, ServerCounts
<1>0. ASSUME Grows, OfServer(peer'.una) PROVE AckServer'
  <2>1. \E n : n = peer'.una /\ OfServer(n)'
    BY <1>0, GrowsKeeps
  <2> QED
    BY <2>1 DEF AckServer, OfServer
<1>2. CASE PeerSyn(seg)
  <2> DEFINE p == [peer EXCEPT !.phase = "SYN_RCVD", !.rcv = Plus(seg.seq, 1),
                               !.nxt = Plus(peer.iss, 1)]
  <2>1. peer' = p /\ peer.phase = "LISTEN" /\ Say(PeerSegment(p, {"syn", "ack"}, p.iss, 0))
    BY <1>2 DEF PeerSyn
  <2>2. /\ p.phase = "SYN_RCVD" /\ p.iss = peer.iss /\ p.nxt = Plus(peer.iss, 1)
        /\ p.spoken = peer.spoken /\ p.finSent = peer.finSent /\ p.una = peer.una
    BY <1>1 DEF Connection
  <2>3. ~peer.spoken /\ ~peer.finSent
    BY <2>1 DEF AckInv, ServerCounts
  <2>4. Said = 0 /\ Said' = 1 /\ Sent' = 1
    BY <2>1, <2>2, <2>3 DEF Said, Sent
  <2>5. Grows /\ ServerCounts'
    BY <2>1, <2>2, <2>4 DEF Grows, ServerCounts, Plus
  <2>6. PICK s : s = PeerSegment(p, {"syn", "ack"}, p.iss, 0)
    OBVIOUS
  <2>7. Numbered(s)'
    BY <2>1, <2>2, <2>6 DEF Numbered, PeerSegment
  <2>8. AckServer'
    BY <1>0, <2>1, <2>2, <2>5 DEF AckInv, AckServer
  <2> HIDE DEF p
  <2> QED
    BY <2>1, <2>5, <2>8, <2>6, <2>7, GrowsKeeps, SayNumbered
<1>3. CASE PeerRefuse(seg)
  <2>1. PICK s : s = [flags |-> {"rst"}, seq |-> seg.ack, ack |-> 0, len |-> 0]
    OBVIOUS
  <2>2. Say(s) /\ peer' = peer
    BY <1>3, <2>1 DEF PeerRefuse, server
  <2>3. Grows /\ ServerCounts' /\ AckServer'
    BY <2>2, SamePeer
  <2>4. Numbered(s)
    BY <2>1 DEF Numbered
  <2> QED
    BY <2>2, <2>3, <2>4, GrowsKeeps, SayNumbered
<1>4. CASE PeerTake(seg)
  <2>1. /\ peer'.phase = "OPEN" /\ peer.phase # "LISTEN" /\ peer'.iss = peer.iss
        /\ peer'.nxt = peer.nxt /\ peer'.spoken = peer.spoken /\ peer'.finSent = peer.finSent
    BY <1>1, <1>4 DEF PeerTake, Connection
  <2>2. Said' = Said /\ Sent' = Sent
    BY <2>1 DEF Said, Sent
  <2>3. Grows /\ ServerCounts'
    BY <1>1, <2>1, <2>2 DEF Grows, ServerCounts, Plus
  <2>7. peer'.una \in {peer.una, seg.ack} /\ "ack" \in seg.flags
    BY <1>1, <1>4, <2>1 DEF PeerTake, Connection
  <2>8. AckServer'
    BY <1>0, <2>3, <2>7 DEF AckInv, AckServer, Acknowledges
  <2>4. Say(PeerSegment(peer', {"ack"}, peer'.nxt, 0)) \/ UNCHANGED toClient
    BY <1>4 DEF PeerTake
  <2>5. CASE UNCHANGED toClient
    <3>1. \A t : Numbered(t) => Numbered(t)'
      BY <2>3, GrowsKeeps
    <3>2. \A k \in 1 .. Len(toClient') : \E s : s = toClient'[k] /\ Numbered(s)'
      BY <2>5, <3>1 DEF AckInv, NumberedLink
    <3>3. NumberedSeen' /\ NumberedLink'
      BY <3>1, <3>2 DEF AckInv, NumberedSeen, NumberedLink, Numbered
    <3> QED
      BY <2>3, <2>8, <3>3
  <2>6. CASE Say(PeerSegment(peer', {"ack"}, peer'.nxt, 0))
    <3>1. PICK s : s = PeerSegment(peer', {"ack"}, peer'.nxt, 0)
      OBVIOUS
    <3>2. Numbered(s)'
      BY <3>1 DEF Numbered, PeerSegment
    <3> QED
      BY <2>3, <2>6, <2>8, <3>1, <3>2, GrowsKeeps, SayNumbered
  <2> QED
    BY <2>4, <2>5, <2>6
<1> QED
  BY <1>2, <1>3, <1>4

LEMMA AckInit == Init => AckInv
<1> SUFFICES ASSUME Init PROVE AckInv
  OBVIOUS
<1>1. PICK iss \in PeerISNs :
        peer = [phase |-> "LISTEN", iss |-> iss, una |-> iss, nxt |-> iss, rcv |-> 0,
                spoken |-> FALSE, finSent |-> FALSE, finRcvd |-> FALSE]
  BY DEF Init
<1>2. iss \in Numbers /\ Said = 0 /\ Sent = 0
  BY <1>1, TcpAssumption DEF Numbers, Said, Sent
<1>3. Plus(iss, 0) = iss
  BY <1>2, PlusWraps, TcpAssumption DEF Numbers
<1>4. ServerCounts /\ AckServer
  BY <1>1, <1>2, <1>3 DEF ServerCounts, AckServer, OfServer
<1>5. /\ status = "CLOSED" /\ Len(toPeer) = 0 /\ Len(toClient) = 0 /\ seen = {}
  BY DEF Init
<1> QED
  BY <1>4, <1>5 DEF AckInv, AckClient, AckToPeer, NumberedLink, NumberedSeen

LEMMA OpeningInit == Init => Opening
  BY DEF Init, Opening

\* A call of tcptest sends nothing but acknowledgements.
LEMMA TcptestAcknowledges ==
  ASSUME toPeer \in Seq(Segment), NEW seg, Tcptest(seg)
  PROVE  \A k \in 1 .. Len(toPeer') :
           \/ k \in 1 .. Len(toPeer) /\ toPeer'[k] = toPeer[k]
           \/ "ack" \in toPeer'[k].flags
<1>1. CASE Greet(seg)
  <2> DEFINE s1 == tcp_pack({"ack"}, mynum, Plus(seg.seq, 1), 0)
             s2 == tcp_pack({"ack"}, mynum, seg.seq, HELLO)
             s3 == tcp_pack({"ack", "fin"}, Plus(mynum, HELLO), seg.seq, 0)
  <2>1. toPeer' = toPeer \o <<s1, s2, s3>>
    BY <1>1 DEF Greet
  <2>2. "ack" \in s1.flags /\ "ack" \in s2.flags /\ "ack" \in s3.flags
    BY DEF tcp_pack
  <2> HIDE DEF s1, s2, s3
  <2>3. \A k \in 1 .. Len(toPeer') :
          \/ k \in 1 .. Len(toPeer) /\ toPeer'[k] = toPeer[k]
          \/ toPeer'[k] \in {s1, s2, s3}
    BY <2>1
  <2> QED
    BY <2>2, <2>3
<1>2. CASE AnswerFin(seg)
  <2> DEFINE s1 == tcp_pack({"ack"}, mynum, seg.seq, 0)
  <2>1. toPeer' = Append(toPeer, s1) /\ "ack" \in s1.flags
    BY <1>2 DEF AnswerFin, tcp_pack
  <2> HIDE DEF s1
  <2> QED
    BY <2>1
<1>3. CASE toPeer' = toPeer
  BY <1>3
<1> QED
  BY <1>1, <1>2, <1>3 DEF Tcptest

LEMMA OpeningStep == IInv /\ Opening /\ [Next]_vars => Opening'
<1> SUFFICES ASSUME IInv, Opening, [Next]_vars PROVE Opening'
  OBVIOUS
<1>0. toPeer \in Seq(Segment) /\ toClient \in Seq(Segment) /\ peer \in Connection
  BY DEF IInv, TypeOK
<1>1. CASE TcpFirstStep
  <2>1. /\ toPeer = <<>> /\ peer.phase = "LISTEN" /\ status' = "SYN_SEND" /\ Len(toPeer') = 1
        /\ UNCHANGED <<toClient, seen, peer>>
    BY <1>1 DEF TcpFirstStep, server, Opening
  <2> QED
    BY <2>1 DEF Opening
<1>2. CASE HandleSegment \/ HandleStaleSegment
  <2>1. peer' = peer /\ peer.phase # "LISTEN" /\ status # "CLOSED"
    BY <1>2 DEF HandleSegment, HandleStaleSegment, server, Opening
  <2>2. PICK seg : Tcptest(seg)
    BY <1>2 DEF HandleSegment, HandleStaleSegment
  <2>3. status' # "CLOSED"
    BY <2>1, <2>2 DEF Tcptest, Greet, AnswerFin, client
  <2>4. \A k \in 1 .. Len(toPeer') : "ack" \in toPeer'[k].flags
    BY <1>0, <2>1, <2>2, TcptestAcknowledges DEF Opening
  <2> QED
    BY <2>1, <2>3, <2>4 DEF Opening
<1>3. CASE PeerReceive
  <2>1. toPeer # <<>> /\ toPeer' = Tail(toPeer) /\ UNCHANGED client
    BY <1>3 DEF PeerReceive
  <2>2. status' # "CLOSED"
    BY <2>1 DEF Opening, client
  <2>3. peer'.phase # "LISTEN"
    BY <1>0, <1>3 DEF PeerReceive, PeerSyn, PeerRefuse, PeerTake, server, Connection
  <2>4. \A k \in 1 .. Len(toPeer') :
          k + 1 \in 1 .. Len(toPeer) /\ toPeer'[k] = toPeer[k + 1]
    BY <1>0, <2>1
  <2>5. \A k \in 1 .. Len(toPeer') : "ack" \in toPeer'[k].flags
    BY <1>0, <2>4 DEF Opening
  <2> QED
    BY <2>2, <2>3, <2>5 DEF Opening
<1>4. CASE PeerSpeak \/ PeerClose \/ PeerRetransmit
  <2>1. /\ peer.phase # "LISTEN" /\ peer'.phase # "LISTEN"
        /\ UNCHANGED client /\ toPeer' = toPeer
    BY <1>0, <1>4 DEF PeerSpeak, PeerClose, PeerRetransmit, server, Connection
  <2> QED
    BY <2>1 DEF Opening, client
<1>5. CASE LoseFromClient
  <2>1. toPeer # <<>> /\ toPeer' = Tail(toPeer) /\ UNCHANGED <<client, toClient, seen, peer>>
    BY <1>5 DEF LoseFromClient, server
  <2>2. \A k \in 1 .. Len(toPeer') :
          k + 1 \in 1 .. Len(toPeer) /\ toPeer'[k] = toPeer[k + 1]
    BY <1>0, <2>1
  <2>3. Len(toPeer') <= Len(toPeer) /\ Len(toPeer) \in Nat /\ Len(toPeer') \in Nat
    BY <1>0, <2>1
  <2> QED
    BY <2>1, <2>2, <2>3 DEF Opening, client
<1>6. CASE LoseToClient \/ UNCHANGED vars
  <2>1. UNCHANGED <<client, toPeer, peer>>
    BY <1>6 DEF LoseToClient, vars, server
  <2>2. peer.phase = "LISTEN" => UNCHANGED <<toClient, seen>>
    BY <1>6 DEF LoseToClient, vars, Opening
  <2> QED
    BY <2>1, <2>2 DEF Opening, client
<1> QED
  BY <1>1, <1>2, <1>3, <1>4, <1>5, <1>6 DEF Next

LEMMA AckStep == IInv /\ IInv' /\ AckInv /\ Opening /\ [Next]_vars => AckInv'
<1> SUFFICES ASSUME IInv, IInv', AckInv, Opening, [Next]_vars PROVE AckInv'
  OBVIOUS
<1>0. TypeOK /\ TypeOK' /\ toPeer \in Seq(Segment) /\ toClient \in Seq(Segment)
  BY DEF IInv, TypeOK
<1>1. ASSUME Grows
      PROVE  /\ \A n : OfServer(n) => OfServer(n)'
             /\ \A s : Acknowledges(s) => Acknowledges(s)'
             /\ \A s : Numbered(s) => Numbered(s)'
  BY <1>0, <1>1, GrowsKeeps
<1>2. ASSUME Grows, UNCHANGED client PROVE AckClient'
  <2>1. status' = "ESTABLISH" => \E n : n = rmtnum' /\ OfServer(n)'
    BY <1>1, <1>2 DEF AckInv, AckClient, client
  <2> QED
    BY <2>1 DEF AckClient, OfServer
<1>3. CASE TcpFirstStep
  <2>1. peer' = peer /\ status' = "SYN_SEND" /\ UNCHANGED <<toClient, seen>>
    BY <1>3 DEF TcpFirstStep, server
  <2>2. Grows /\ ServerCounts' /\ AckServer'
    BY <1>0, <2>1, SamePeer
  <2> DEFINE new == tcp_pack({"syn"}, mynum, 0, 0)
  <2>3. toPeer' = Append(toPeer, new) /\ "ack" \notin new.flags
    BY <1>3 DEF TcpFirstStep, tcp_pack
  <2> HIDE DEF new
  <2>4. \A k \in 1 .. Len(toPeer') :
          \/ k \in 1 .. Len(toPeer) /\ toPeer'[k] = toPeer[k]
          \/ toPeer'[k] = new
    BY <1>0, <2>3
  <2>5. \A k \in 1 .. Len(toPeer') :
          \/ "ack" \notin toPeer'[k].flags
          \/ \E s : s = toPeer'[k] /\ Acknowledges(s)'
    BY <1>1, <2>2, <2>3, <2>4 DEF AckInv, AckToPeer
  <2>6. AckToPeer'
    BY <2>5 DEF AckToPeer, Acknowledges
  <2>7. \A k \in 1 .. Len(toClient') : \E m \in 1 .. Len(toClient) : toClient'[k] = toClient[m]
    BY <2>1
  <2>8. \A k \in 1 .. Len(toClient') : \E s : s = toClient'[k] /\ Numbered(s)'
    BY <1>1, <2>2, <2>7 DEF AckInv, NumberedLink
  <2>9. NumberedLink' /\ NumberedSeen'
    BY <1>1, <2>1, <2>2, <2>8 DEF AckInv, NumberedLink, NumberedSeen, Numbered
  <2> QED
    BY <2>1, <2>2, <2>6, <2>9 DEF AckInv, AckClient
<1>4. CASE HandleSegment \/ HandleStaleSegment
  <2>1. peer' = peer
    BY <1>4 DEF HandleSegment, HandleStaleSegment, server
  <2>2. Grows /\ ServerCounts' /\ AckServer'
    BY <1>0, <2>1, SamePeer
  <2>3. \A s : Numbered(s) => Numbered(s)'
    BY <1>1, <2>2
  <2>4. PICK seg \in Segment : Numbered(seg) /\ Tcptest(seg)
    BY <1>0, <1>4, HeadIsElement
       DEF HandleSegment, HandleStaleSegment, TypeOK, AckInv, NumberedLink, NumberedSeen
  <2>5. AckClient' /\ AckToPeer'
    BY <1>0, <2>1, <2>4, TcptestAcks
  <2>6. seen' = seen \cup {seg}
    BY <2>4 DEF Tcptest
  <2>7. \A k \in 1 .. Len(toClient') : \E m \in 1 .. Len(toClient) : toClient'[k] = toClient[m]
    BY <1>0, <1>4, HeadIsElement DEF HandleSegment, HandleStaleSegment
  <2>8. \A k \in 1 .. Len(toClient') : \E s : s = toClient'[k] /\ Numbered(s)'
    BY <2>3, <2>7 DEF AckInv, NumberedLink
  <2>9. NumberedLink' /\ NumberedSeen'
    BY <2>3, <2>4, <2>6, <2>8 DEF AckInv, NumberedLink, NumberedSeen, Numbered
  <2> QED
    BY <2>2, <2>5, <2>9 DEF AckInv
<1>5. CASE PeerReceive
  <2>1. PICK k \in 1 .. Len(toPeer) : toPeer[k] = Head(toPeer) /\ toPeer[k] \in Segment
    BY <1>0, <1>5, HeadIsElement DEF PeerReceive
  <2>2. /\ PeerSyn(toPeer[k]) \/ PeerRefuse(toPeer[k]) \/ PeerTake(toPeer[k])
        /\ UNCHANGED client /\ UNCHANGED seen
    BY <1>5, <2>1 DEF PeerReceive
  <2>3. Grows /\ ServerCounts' /\ AckServer' /\ NumberedLink' /\ NumberedSeen'
    BY <1>0, <2>1, <2>2, ReceiveAcks DEF AckInv, AckToPeer, Opening
  <2>4. \A m \in 1 .. Len(toPeer') : \E n \in 1 .. Len(toPeer) : toPeer'[m] = toPeer[n]
    BY <1>0, <1>5, HeadIsElement DEF PeerReceive
  <2> QED
    BY <1>1, <1>2, <2>2, <2>3, <2>4, AckToPeerKept DEF AckInv
<1>6. CASE PeerSpeak \/ PeerClose \/ PeerRetransmit
  <2>1. Grows /\ ServerCounts' /\ AckServer' /\ NumberedLink' /\ NumberedSeen'
    BY <1>0, <1>6, SpeakAcks
  <2>2. UNCHANGED client /\ toPeer' = toPeer
    BY <1>6 DEF PeerSpeak, PeerClose, PeerRetransmit
  <2>3. \A m \in 1 .. Len(toPeer') : \E n \in 1 .. Len(toPeer) : toPeer'[m] = toPeer[n]
    BY <2>2
  <2> QED
    BY <1>1, <1>2, <2>1, <2>2, <2>3, AckToPeerKept DEF AckInv
<1>7. CASE LoseFromClient \/ LoseToClient \/ UNCHANGED vars
  <2>1. peer' = peer /\ UNCHANGED client
    BY <1>7 DEF LoseFromClient, LoseToClient, vars, server
  <2>2. Grows /\ ServerCounts' /\ AckServer'
    BY <1>0, <2>1, SamePeer
  <2>3. \A m \in 1 .. Len(toPeer') : \E n \in 1 .. Len(toPeer) : toPeer'[m] = toPeer[n]
    BY <1>0, <1>7, HeadIsElement DEF LoseFromClient, LoseToClient, vars
  <2>4. \A m \in 1 .. Len(toClient') : \E n \in 1 .. Len(toClient) : toClient'[m] = toClient[n]
    <3>1. CASE LoseToClient
      <4>1. toClient # <<>> /\ toClient' = Tail(toClient)
        BY <3>1 DEF LoseToClient
      <4>2. \A m \in 1 .. Len(Tail(toClient)) :
              m + 1 \in 1 .. Len(toClient) /\ Tail(toClient)[m] = toClient[m + 1]
        BY <1>0, <4>1, HeadIsElement
      <4> QED
        BY <4>1, <4>2
    <3>2. CASE LoseFromClient \/ UNCHANGED vars
      <4>1. toClient' = toClient
        BY <3>2 DEF LoseFromClient, vars
      <4> QED
        BY <4>1
    <3> QED
      BY <1>7, <3>1, <3>2
  <2>5. \A s \in seen' : Numbered(s)
    BY <1>0, <1>7, HeadIsElement
       DEF LoseFromClient, LoseToClient, vars, AckInv, NumberedLink, NumberedSeen
  <2>6. \A s : Numbered(s) => Numbered(s)'
    BY <1>1, <2>2
  <2>7. \A k \in 1 .. Len(toClient') : \E s : s = toClient'[k] /\ Numbered(s)'
    BY <2>4, <2>6 DEF AckInv, NumberedLink
  <2>8. NumberedLink' /\ NumberedSeen'
    BY <2>5, <2>6, <2>7 DEF NumberedLink, NumberedSeen, Numbered
  <2> QED
    BY <1>1, <1>2, <2>1, <2>2, <2>3, <2>8, AckToPeerKept DEF AckInv
<1> QED
  BY <1>3, <1>4, <1>5, <1>6, <1>7 DEF Next

LEMMA AckInvariance == Spec => [](IInv /\ AckInv)
<1>1. Init => AckInv /\ Opening
  BY AckInit, OpeningInit
<1>2. IInv /\ IInv' /\ AckInv /\ Opening /\ [Next]_vars => AckInv' /\ Opening'
  BY AckStep, OpeningStep
<1> QED
  BY <1>1, <1>2, Invariance, PTL DEF Spec

\* The client never acknowledges an octet the server has not sent, wherever in the
\* numbers that is, whatever is lost and however often old segments come again.
THEOREM NeverAhead == Spec => []AckNotAhead
<1>1. IInv /\ AckInv => AckNotAhead
  <2> SUFFICES ASSUME IInv, AckInv PROVE AckNotAhead
    OBVIOUS
  <2>1. TypeOK /\ ServerCounts
    BY DEF IInv, AckInv
  <2>2. status = "ESTABLISH" => Within(peer.iss, rmtnum, peer.nxt)
    BY <2>1, OfServerWithin DEF AckInv, AckClient
  <2>3. \A k \in DOMAIN toPeer :
          "ack" \in toPeer[k].flags => Within(peer.iss, toPeer[k].ack, peer.nxt)
    BY <2>1, OfServerWithin DEF AckInv, AckToPeer, Acknowledges, TypeOK
  <2> QED
    BY <2>2, <2>3 DEF AckNotAhead
<1> QED
  BY <1>1, AckInvariance, PTL

\* A server that has closed is never told that its FIN has arrived, on any run: the
\* answer to a FIN acknowledges the number of the FIN itself, since tcp_pack clears
\* the rmtnum + 1 its caller has put into the header.
THEOREM FinNeverAcked == Spec => [](peer.finSent => peer.una # peer.nxt)
<1>1. IInv /\ AckInv => (peer.finSent => peer.una # peer.nxt)
  <2> SUFFICES ASSUME IInv, AckInv, peer.finSent PROVE peer.una # peer.nxt
    OBVIOUS
  <2>1. TypeOK /\ peer.iss \in Numbers
    BY DEF IInv, TypeOK, Connection
  <2>2. PICK k \in 0 .. Said : peer.una = Plus(peer.iss, k)
    BY DEF AckInv, AckServer, OfServer
  <2>3. peer.nxt = Plus(peer.iss, Sent) /\ Sent = Said + 1
    BY DEF AckInv, ServerCounts, Sent
  <2>4. k \in 0 .. SEQ - 1 /\ Sent \in 0 .. SEQ - 1 /\ k # Sent
    BY <2>1, <2>3, SaidBound, TcpAssumption
  <2>5. /\ (peer.una + SEQ - peer.iss) % SEQ = k
        /\ (peer.nxt + SEQ - peer.iss) % SEQ = Sent
    BY <2>1, <2>2, <2>3, <2>4, Offset
  <2> QED
    BY <2>4, <2>5
<1> QED
  BY <1>1, AckInvariance, PTL
=============================================================================
