--------------------------- MODULE MCSystemCalls ---------------------------
(* Two runs of mytest, and a client that makes the other calls. *)
EXTENDS SystemCallsProperties

MCProgram == [mytest1 |-> <<"socket", "connect">>, mytest2 |-> <<"socket", "connect">>,
              other |-> <<"send", "close">>]
=============================================================================
