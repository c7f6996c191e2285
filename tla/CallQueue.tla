----------------------------- MODULE CallQueue -----------------------------
(***************************************************************************)
(* What the message queue of message/message.c promises the programs that  *)
(* call the router through it: calls are executed in the order in which    *)
(* they were sent, each once, until the queue is removed; there are at     *)
(* most Capacity of them in it.                                            *)
(***************************************************************************)
EXTENDS Naturals, Sequences

CONSTANTS Call, Capacity

VARIABLES pending,     \* calls sent and not yet executed, oldest first
          executed     \* calls executed so far

Init == pending = <<>> /\ executed = <<>>

\* A sender waits for room.
Send ==
  /\ Len(pending) < Capacity
  /\ \E c \in Call : pending' = Append(pending, c)
  /\ UNCHANGED executed

Execute ==
  /\ pending # <<>>
  /\ executed' = Append(executed, Head(pending))
  /\ pending' = Tail(pending)

\* The queue is removed with what is in it.
Remove == pending' = <<>> /\ UNCHANGED executed

Next == Send \/ Execute \/ Remove

Spec == Init /\ [][Next]_<<pending, executed>>
=============================================================================
