------------------------------- MODULE MCTcp -------------------------------
(***************************************************************************)
(* What the TCP client achieves with a server that follows the standard.   *)
(***************************************************************************)
EXTENDS Tcp

\* The client never acknowledges an octet the server has not sent: every
\* acknowledgement under way, and mylink.rmtnum, lies between the server's SYN
\* and the next number the server will use, also where the numbers wrap round.
AckNotAhead ==
  /\ status = "ESTABLISH" => Within(peer.iss, rmtnum, peer.nxt)
  /\ \A k \in DOMAIN toPeer :
       "ack" \in toPeer[k].flags => Within(peer.iss, toPeer[k].ack, peer.nxt)

\* The client answers a FIN only when both sides are done: the server has closed,
\* and it has read the message and the client's own FIN.
CloseIsMutual ==
  status = "ESTABLISH" /\ rmtnum # peer.iss
    => peer.finSent /\ peer.finRcvd /\ stream = <<HELLO>>

\* The server's program reads the message once, then the end of the stream,
\* whatever is lost or repeated: the numbers of the client's segments say where
\* each belongs.
Reading == INSTANCE OneMessage WITH Message <- HELLO, ended <- peer.finRcvd
ReadsOneMessage == Reading!Spec

\* Segments lost on their way to the client are made up for: the message arrives
\* and the stream ends, unless a segment of the client's own was lost.
HelloArrives == <>(ourLoss \/ (stream = <<HELLO>> /\ peer.finRcvd))

-----------------------------------------------------------------------------
(* What the code says of itself *)

\* The answer to the server's FIN is given the acknowledgement mylink.rmtnum + 1,
\* one more than the FIN's number: unless something is lost, a server that has
\* closed is told so.
PeerCloses == peer.finSent ~> (ourLoss \/ lost > 0 \/ peer.una = peer.nxt)
=============================================================================
