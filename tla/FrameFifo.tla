----------------------------- MODULE FrameFifo -----------------------------
(***************************************************************************)
(* What the packet cache of include/multithread.h promises the two threads *)
(* that share it: a bounded first-in first-out queue of frames.  The       *)
(* frames are named by their order of arrival (1, 2, 3, ...), so a frame   *)
(* that is lost, duplicated, torn or overtaken shows up as a wrong number. *)
(***************************************************************************)
EXTENDS Naturals, Sequences

CONSTANT Capacity      \* the most frames the queue holds at a time

VARIABLES queue,       \* the frames stored, oldest first
          handled      \* every frame handed to the reader so far, in order

fifoVars == <<queue, handled>>

Init == queue = <<>> /\ handled = <<>>

\* Store the next frame to have arrived.
Put ==
  /\ Len(queue) < Capacity
  /\ queue' = Append(queue, Len(handled) + Len(queue) + 1)
  /\ UNCHANGED handled

\* Hand the oldest frame to the reader.
Take ==
  /\ queue # <<>>
  /\ handled' = Append(handled, Head(queue))
  /\ queue' = Tail(queue)

Next == Put \/ Take

Spec == Init /\ [][Next]_fifoVars

=============================================================================
