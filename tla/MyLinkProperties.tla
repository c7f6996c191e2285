-------------------------- MODULE MyLinkProperties --------------------------
(***************************************************************************)
(* What mylink keeps although two threads change it without a lock.        *)
(***************************************************************************)
EXTENDS MyLink

\* However the threads interleave, the link is established, and a greeting begun, at
\* most once for each time it began to wait for an answer: also when answers
\* are repeated, and when mtsyscal closes the link or connects it again between
\* tcptest's look at the status and its change.
GreetedOnce == owed >= 0

\* As long as no two functions have run at once, each segment sent begins where the one
\* before it ended, or at the initial number after a tcp_initial, whichever calls
\* are made between the segments of the far end.
NumbersContiguous ==
  [][\A t \in Threads : apart /\ Transmit(t) => frame.seq = upTo]_vars

\* As long as that is so, the answer to a SYN finds the link ready for it from the
\* moment the SYN leaves until another function begins.
AnswerFits == apart /\ expected # -1 => status = "SYN_SEND" /\ mynum = expected
=============================================================================
