----------------------------- MODULE OneMessage -----------------------------
(***************************************************************************)
(* What the TCP client of tcp/tcp.c promises the program at the far end:   *)
(* it reads the one message the client has to say, then the end of the     *)
(* stream, and nothing else.                                               *)
(***************************************************************************)
EXTENDS Sequences

CONSTANT Message

VARIABLES stream,      \* what the far program has read
          ended        \* it has read the end of the stream

messageVars == <<stream, ended>>

Init == stream = <<>> /\ ended = FALSE

Deliver == stream = <<>> /\ ~ended /\ stream' = <<Message>> /\ UNCHANGED ended
End     == stream = <<Message>> /\ ~ended /\ ended' = TRUE /\ UNCHANGED stream

Next == Deliver \/ End

Spec == Init /\ [][Next]_messageVars
=============================================================================
