----------------------- MODULE SystemCallsProperties -----------------------
(***************************************************************************)
(* What the clients of the message queue get, and what mtsyscal says of    *)
(* itself and does not keep.                                               *)
(***************************************************************************)
EXTENDS SystemCalls

AllCalls == UNION {{Message(c, n) : n \in 1 .. Len(Program[c])} : c \in Clients}

Executed(m) == \E k \in 1 .. Len(executed) : executed[k] = m
InQueue(m)  == \E k \in 1 .. Len(queue.calls) : queue.calls[k] = m

Calling == INSTANCE CallQueue WITH
  Call <- AllCalls, Capacity <- QueueSize, pending <- queue.calls

\* Until a receive fails the queue and mtsyscal implement CallQueue: whichever clients
\* send, wait for room, and remove the queue, in between, no call is executed twice, out
\* of turn or made up, and none goes into a full queue.
CallsInTurn ==
  Calling!Init /\ [][failed' \/ Calling!Next \/ UNCHANGED <<queue.calls, executed>>]_vars

\* Until then a client's call is executed only after the client's calls before it: no
\* connect without its own socket, although another client may remove the queue
\* between the two and a third one make it anew.
InProgramOrder ==
  ~failed => \A k \in 1 .. Len(executed) :
    executed[k].n > 1 => \E j \in 1 .. k - 1 :
      executed[j].client = executed[k].client /\ executed[j].n + 1 = executed[k].n

\* A call in the queue that mtsyscal reads is executed, unless the queue is removed.
ServedUnlessRemoved ==
  \A m \in AllCalls :
    (queue.id # 0 /\ queue.id = server.msgid /\ InQueue(m))
      ~> (Executed(m) \/ queue.id # server.msgid)

-----------------------------------------------------------------------------
(* What the code says of itself *)

\* mtsyscal reports "message recv error" of a receive that brought no call: what it
\* executes are calls that were sent, each once.
CalledOnce ==
  \A k \in 1 .. Len(executed) :
    /\ executed[k].client # "nobody"
    /\ \A j \in 1 .. k - 1 : executed[j] # executed[k]
=============================================================================
