---------------------------- MODULE SystemCalls ----------------------------
(***************************************************************************)
(* The "system calls" of the router: client programs (mytest.c, or others  *)
(* with the functions of message/message.c) put calls into a System V      *)
(* queue, and the thread mtsyscal of tcp/tcp.c takes them out and executes *)
(* them.  Any client may remove the queue while others use it.  The        *)
(* program as shipped starts no thread mtsyscal; the model does.           *)
(*                                                                         *)
(* What the calls do to mylink is the subject of MyLink, where mtsyscal    *)
(* makes any calls in any order.                                           *)
(***************************************************************************)
EXTENDS Naturals, Sequences

CONSTANTS Clients,       \* the programs that call the router
          Program,       \* the calls each of them makes, in order
          QueueSize,     \* calls the kernel keeps in a queue
          MaxQueues,     \* bound on the queues made one after another
          MaxRuns        \* bound on the calls mtsyscal executes

Ops == {"socket", "connect", "send", "recv", "close"}

ASSUME SystemCallsAssumption ==
  /\ "nobody" \notin Clients
  /\ Program \in [Clients -> Seq(Ops)]
  /\ QueueSize \in Nat \ {0} /\ MaxQueues \in Nat /\ MaxRuns \in Nat

VARIABLES
  queue,                 \* the kernel's queue: its id, 0 for none, and its calls
  made,                  \* queues made so far
  client,                \* per client: its next call, and its msgid
  server,                \* mtsyscal: where it is, and its msgid
  msg,                   \* mtsyscal's msg, whoever wrote it
  executed,              \* history: the calls mtsyscal executed
  failed                 \* history: a msgrcv of mtsyscal has failed

kernel == <<queue, made>>
vars   == <<kernel, client, server, msg, executed, failed>>

\* msgtype.buffer holds the number of the call; whose call it is and which, in the
\* order of its program, is kept for the properties.
Calls == [client : Clients \cup {"nobody"}, n : Nat, op : Ops \cup {"other"}]
Message(c, n) == [client |-> c, n |-> n, op |-> Program[c][n]]
NoQueue == [id |-> 0, calls |-> <<>>]

TypeOK ==
  /\ queue \in [id : 0 .. MaxQueues, calls : Seq(Calls)]
  /\ made \in 0 .. MaxQueues
  /\ client \in [Clients -> [next : Nat \ {0}, msgid : 0 .. MaxQueues]]
  /\ server \in [at : {"start", "recv", "busy", "gone"}, msgid : 0 .. MaxQueues]
  /\ msg \in Calls /\ executed \in Seq(Calls) /\ failed \in BOOLEAN

\* mtsyscal's msg is on its stack and holds anything.
Init ==
  /\ queue = NoQueue /\ made = 0
  /\ client = [c \in Clients |-> [next |-> 1, msgid |-> 0]]
  /\ server = [at |-> "start", msgid |-> 0]
  /\ \E op \in Ops \cup {"other"} : msg = [client |-> "nobody", n |-> 0, op |-> op]
  /\ executed = <<>> /\ failed = FALSE

-----------------------------------------------------------------------------
(* Clients and the kernel's queue *)

\* msgget with IPC_CREAT: the queue there is, or a new one; an id never comes back.
Msgget(id) ==
  \/ queue.id # 0 /\ id = queue.id /\ UNCHANGED kernel
  \/ /\ queue.id = 0 /\ made < MaxQueues /\ id = made + 1
     /\ queue' = [id |-> id, calls |-> <<>>] /\ made' = id

\* A client whose ftok or msgget fails returns, and takes no further step.
ClientOpens(c) ==
  /\ client[c] = [next |-> 1, msgid |-> 0]
  /\ \E id \in 1 .. MaxQueues : Msgget(id) /\ client' = [client EXCEPT ![c].msgid = id]
  /\ UNCHANGED <<server, msg, executed, failed>>

\* Mutant: every call looks the queue up again and uses the one there is.
ReopeningClientSends(c) ==
  /\ client[c].msgid # 0 /\ client[c].next <= Len(Program[c])
  /\ Len(queue.calls) < QueueSize
  /\ queue' = IF queue.id = 0 THEN queue
              ELSE [queue EXCEPT !.calls = Append(@, Message(c, client[c].next))]
  /\ client' = [client EXCEPT ![c].next = @ + 1]
  /\ UNCHANGED <<made, server, msg, executed, failed>>

\* msgsnd, which waits while the queue is full, to a queue another client may have removed,
\* before or while it waits; a failure is printed and the next call is made all the same.
ClientSends(c) ==
  /\ client[c].msgid # 0 /\ client[c].next <= Len(Program[c])
  /\ queue.id = client[c].msgid => Len(queue.calls) < QueueSize
  /\ queue' = IF queue.id # client[c].msgid THEN queue
              ELSE [queue EXCEPT !.calls = Append(@, Message(c, client[c].next))]
  /\ client' = [client EXCEPT ![c].next = @ + 1]
  /\ UNCHANGED <<made, server, msg, executed, failed>>

\* When its user has typed something, the client removes its queue if it is there.
ClientRemoves(c) ==
  /\ client[c].msgid # 0 /\ client[c].next = Len(Program[c]) + 1
  /\ queue' = IF queue.id = client[c].msgid THEN NoQueue ELSE queue
  /\ client' = [client EXCEPT ![c].next = @ + 1]
  /\ UNCHANGED <<made, server, msg, executed, failed>>

-----------------------------------------------------------------------------
(* mtsyscal *)

ServerOpens ==
  /\ server.at = "start"
  /\ \E id \in 1 .. MaxQueues : Msgget(id) /\ server' = [at |-> "recv", msgid |-> id]
  /\ UNCHANGED <<client, msg, executed, failed>>

\* Mutant: the thread goes on with the id -1.
UntestedServerGivesUp ==
  /\ server.at = "start"
  /\ server' = [at |-> "recv", msgid |-> 0 - 1]
  /\ UNCHANGED <<kernel, client, msg, executed, failed>>

\* ftok or msgget failed: the thread returns.
ServerGivesUp ==
  /\ server.at = "start"
  /\ server' = [server EXCEPT !.at = "gone"]
  /\ UNCHANGED <<kernel, client, msg, executed, failed>>

\* The switch, which does what msg says.
Dispatch(m) ==
  /\ Len(executed) < MaxRuns
  /\ msg' = m
  /\ executed' = Append(executed, m)
  /\ server' = [server EXCEPT !.at = "busy"]

\* Mutant: the call is copied out of the queue and stays in it.
CopyingReceive ==
  /\ server.at = "recv" /\ queue.id = server.msgid /\ queue.calls # <<>>
  /\ Dispatch(Head(queue.calls))
  /\ UNCHANGED <<kernel, client, failed>>

\* msgrcv waits for a call and takes the oldest.
Receive ==
  /\ server.at = "recv" /\ queue.id = server.msgid /\ queue.calls # <<>>
  /\ queue' = [queue EXCEPT !.calls = Tail(@)]
  /\ Dispatch(Head(queue.calls))
  /\ UNCHANGED <<made, client, failed>>

\* The queue is gone: msgrcv fails, which is printed, and what msg holds is executed.
ReceiveFails ==
  /\ server.at = "recv" /\ queue.id # server.msgid
  /\ failed' = TRUE
  /\ Dispatch(msg)
  /\ UNCHANGED <<kernel, client>>

\* Mutant: the thread ends after its first call.
LeavingReturns ==
  /\ server.at = "busy"
  /\ server' = [server EXCEPT !.at = "gone"]
  /\ UNCHANGED <<kernel, client, msg, executed, failed>>

\* The call is done, and the loop goes round.
Returns ==
  /\ server.at = "busy"
  /\ server' = [server EXCEPT !.at = "recv"]
  /\ UNCHANGED <<kernel, client, msg, executed, failed>>

Serve == Receive \/ ReceiveFails \/ Returns

-----------------------------------------------------------------------------

Next == \/ \E c \in Clients : ClientOpens(c) \/ ClientSends(c) \/ ClientRemoves(c)
        \/ ServerOpens \/ ServerGivesUp \/ Serve

Spec == Init /\ [][Next]_vars

\* mtsyscal is run whenever it can run; nothing is assumed of the clients.
FairSpec == Spec /\ WF_vars(Serve)
=============================================================================
