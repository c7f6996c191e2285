------------------------- MODULE SystemCallsProofs -------------------------
(***************************************************************************)
(* For any number of clients with any programs: until a receive fails,     *)
(* mtsyscal executes each client's calls in their order, and the queue     *)
(* with mtsyscal implements CallQueue, whoever removes the queue when;     *)
(* after that mtsyscal executes nothing but the call it holds.             *)
(***************************************************************************)
EXTENDS SystemCallsProperties, SequenceTheorems, TLAPS

(* The inductive invariant *)

\* Where there is no queue there are no calls, and no client has the id of a queue that
\* has not been made.
IdsMade ==
  /\ queue.id = 0 => queue.calls = <<>>
  /\ queue.id <= made
  /\ \A c \in Clients : client[c].msgid <= made

\* A call that was made is in the queue or has been executed.
Done(m) == Executed(m) \/ InQueue(m)

\* The call a client has made last is not lost while the client's queue is there.
LastCallKept ==
  \A c \in Clients :
    client[c].msgid # 0 /\ client[c].msgid = queue.id /\ client[c].next > 1
      => client[c].next - 1 \in 1 .. Len(Program[c]) /\ Done(Message(c, client[c].next - 1))

\* What is in the queue is a client's call, behind the call before it.
QueueInOrder ==
  \A k \in 1 .. Len(queue.calls) :
    \E c \in Clients : \E n \in 1 .. Len(Program[c]) :
      /\ queue.calls[k] = Message(c, n)
      /\ n > 1 => \/ Executed(Message(c, n - 1))
                  \/ \E j \in 1 .. k - 1 : queue.calls[j] = Message(c, n - 1)

IInv == TypeOK /\ IdsMade /\ LastCallKept /\ QueueInOrder /\ InProgramOrder

-----------------------------------------------------------------------------
(* Sequences *)

LEMMA AppendIs ==
  ASSUME NEW S, NEW s \in Seq(S), NEW x \in S
  PROVE  /\ Append(s, x) \in Seq(S) /\ Len(Append(s, x)) = Len(s) + 1 /\ Len(s) \in Nat
         /\ \A k \in 1 .. Len(s) : Append(s, x)[k] = s[k]
         /\ Append(s, x)[Len(s) + 1] = x
OBVIOUS

LEMMA TailIs ==
  ASSUME NEW S, NEW s \in Seq(S), s # <<>>
  PROVE  /\ Head(s) = s[1] /\ Head(s) \in S /\ Len(s) \in Nat /\ Len(s) > 0
         /\ Tail(s) \in Seq(S) /\ Len(Tail(s)) = Len(s) - 1
         /\ \A k \in 1 .. Len(s) - 1 : Tail(s)[k] = s[k + 1]
OBVIOUS

LEMMA MessageType ==
  ASSUME NEW c \in Clients, NEW n \in 1 .. Len(Program[c])
  PROVE  Message(c, n) \in Calls /\ Message(c, n) \in AllCalls
<1>1. Program[c] \in Seq(Ops)
  BY SystemCallsAssumption
<1>2. Program[c][n] \in Ops /\ n \in Nat
  BY <1>1
<1>3. QED
  BY <1>2 DEF Message, Calls, AllCalls

-----------------------------------------------------------------------------
(* Type correctness *)

ClientState == [next : Nat \ {0}, msgid : 0 .. MaxQueues]

\* What a client's step does to it.
LEMMA ClientGoes ==
  ASSUME TypeOK, NEW c \in Clients
  PROVE  /\ client[c].next \in Nat \ {0} /\ client[c].msgid \in 0 .. MaxQueues
         /\ [client EXCEPT ![c].next = @ + 1] \in [Clients -> ClientState]
         /\ \A id \in 0 .. MaxQueues :
              [client EXCEPT ![c].msgid = id] \in [Clients -> ClientState]
<1>1. client \in [Clients -> ClientState]
  BY DEF TypeOK, ClientState
<1>2. client[c].next \in Nat \ {0} /\ client[c].msgid \in 0 .. MaxQueues
  BY <1>1 DEF ClientState
<1>3. [client[c] EXCEPT !.next = @ + 1] \in ClientState
  BY <1>1, <1>2 DEF ClientState
<1>4. \A id \in 0 .. MaxQueues : [client[c] EXCEPT !.msgid = id] \in ClientState
  BY <1>1, <1>2 DEF ClientState
<1>5. QED
  BY <1>1, <1>2, <1>3, <1>4

LEMMA TypeInit == Init => TypeOK
<1> SUFFICES ASSUME Init PROVE TypeOK
  OBVIOUS
<1>1. queue \in [id : 0 .. MaxQueues, calls : Seq(Calls)]
  BY SystemCallsAssumption DEF Init, NoQueue
<1>2. msg \in Calls /\ executed \in Seq(Calls)
  BY DEF Init, Calls
<1>3. client \in [Clients -> ClientState]
  BY SystemCallsAssumption DEF Init, ClientState
<1>4. server \in [at : {"start", "recv", "busy", "gone"}, msgid : 0 .. MaxQueues]
  BY SystemCallsAssumption DEF Init
<1>5. QED
  BY <1>1, <1>2, <1>3, <1>4, SystemCallsAssumption DEF Init, TypeOK, ClientState

\* What msgget does to the kernel's queue.
LEMMA MsggetIs ==
  ASSUME TypeOK, NEW id \in 1 .. MaxQueues, Msgget(id)
  PROVE  /\ queue' \in [id : 0 .. MaxQueues, calls : Seq(Calls)]
         /\ made' \in 0 .. MaxQueues /\ made <= made'
         /\ queue'.id = id
         /\ \/ queue' = queue
            \/ queue.id = 0 /\ queue'.calls = <<>> /\ id = made + 1 /\ made' = id
<1>1. queue \in [id : 0 .. MaxQueues, calls : Seq(Calls)] /\ made \in 0 .. MaxQueues
  BY DEF TypeOK
<1>2. CASE queue.id # 0 /\ id = queue.id /\ UNCHANGED kernel
  BY <1>1, <1>2 DEF kernel
<1>3. CASE /\ queue.id = 0 /\ made < MaxQueues /\ id = made + 1
           /\ queue' = [id |-> id, calls |-> <<>>] /\ made' = id
  BY <1>1, <1>3, SystemCallsAssumption
<1>4. QED
  BY <1>2, <1>3 DEF Msgget

\* What msgsnd does to it.
LEMMA SendIs ==
  ASSUME TypeOK, NEW c \in Clients, ClientSends(c)
  PROVE  /\ client[c].next \in 1 .. Len(Program[c])
         /\ queue'.id = queue.id
         /\ queue' \in [id : 0 .. MaxQueues, calls : Seq(Calls)]
         /\ IF queue.id # client[c].msgid THEN queue'.calls = queue.calls
            ELSE queue'.calls = Append(queue.calls, Message(c, client[c].next))
<1>1. client[c].next \in 1 .. Len(Program[c])
  <2>1. client[c].next \in Nat \ {0} /\ Program[c] \in Seq(Ops)
    BY ClientGoes, SystemCallsAssumption
  <2>2. QED
    BY <2>1 DEF ClientSends
<1>2. Message(c, client[c].next) \in Calls
  BY <1>1, MessageType
<1>3. queue.calls \in Seq(Calls) /\ queue.id \in 0 .. MaxQueues
  BY DEF TypeOK
<1>4. CASE queue.id # client[c].msgid
  BY <1>1, <1>3, <1>4 DEF ClientSends, TypeOK
<1>5. CASE queue.id = client[c].msgid
  <2>1. queue' = [queue EXCEPT !.calls = Append(@, Message(c, client[c].next))]
    BY <1>5 DEF ClientSends
  <2>2. Append(queue.calls, Message(c, client[c].next)) \in Seq(Calls)
    BY <1>2, <1>3, AppendIs
  <2>3. QED
    BY <1>1, <1>3, <1>5, <2>1, <2>2 DEF TypeOK
<1>6. QED
  BY <1>4, <1>5

LEMMA TypeStep == TypeOK /\ [Next]_vars => TypeOK'
<1> SUFFICES ASSUME TypeOK, [Next]_vars PROVE TypeOK'
  OBVIOUS
<1>1. ASSUME NEW c \in Clients, ClientOpens(c) PROVE TypeOK'
  <2>1. PICK id \in 1 .. MaxQueues : Msgget(id) /\ client' = [client EXCEPT ![c].msgid = id]
    BY <1>1 DEF ClientOpens
  <2>2. client' \in [Clients -> [next : Nat \ {0}, msgid : 0 .. MaxQueues]]
    <3>1. id \in 0 .. MaxQueues
      BY SystemCallsAssumption
    <3>2. QED
      BY <2>1, <3>1, ClientGoes DEF ClientState
  <2>3. QED
    BY <1>1, <2>1, <2>2, MsggetIs DEF ClientOpens, TypeOK
<1>2. ASSUME NEW c \in Clients, ClientSends(c) PROVE TypeOK'
  <2>1. client' \in [Clients -> [next : Nat \ {0}, msgid : 0 .. MaxQueues]]
    BY <1>2, ClientGoes DEF ClientSends, ClientState
  <2>2. QED
    BY <1>2, <2>1, SendIs DEF ClientSends, TypeOK
<1>3. ASSUME NEW c \in Clients, ClientRemoves(c) PROVE TypeOK'
  <2>1. client' \in [Clients -> [next : Nat \ {0}, msgid : 0 .. MaxQueues]]
    BY <1>3, ClientGoes DEF ClientRemoves, ClientState
  <2>2. NoQueue \in [id : 0 .. MaxQueues, calls : Seq(Calls)]
    BY SystemCallsAssumption DEF NoQueue
  <2>3. QED
    BY <1>3, <2>1, <2>2 DEF ClientRemoves, TypeOK
<1>4. CASE ServerOpens
  <2>1. PICK id \in 1 .. MaxQueues : Msgget(id) /\ server' = [at |-> "recv", msgid |-> id]
    BY <1>4 DEF ServerOpens
  <2>2. server' \in [at : {"start", "recv", "busy", "gone"}, msgid : 0 .. MaxQueues]
    BY <2>1, SystemCallsAssumption
  <2>3. QED
    BY <1>4, <2>1, <2>2, MsggetIs DEF ServerOpens, TypeOK
<1>5. CASE ServerGivesUp
  BY <1>5 DEF ServerGivesUp, TypeOK, kernel
<1>6. CASE Receive
  <2>1. Head(queue.calls) \in Calls /\ Tail(queue.calls) \in Seq(Calls)
    BY <1>6, TailIs DEF Receive, TypeOK
  <2>2. Append(executed, Head(queue.calls)) \in Seq(Calls)
    BY <2>1, AppendIs DEF TypeOK
  <2>3. queue' \in [id : 0 .. MaxQueues, calls : Seq(Calls)]
    BY <1>6, <2>1 DEF Receive, TypeOK
  <2>4. QED
    BY <1>6, <2>1, <2>2, <2>3 DEF Receive, Dispatch, TypeOK
<1>7. CASE ReceiveFails
  <2>1. Append(executed, msg) \in Seq(Calls)
    BY AppendIs DEF TypeOK
  <2>2. QED
    BY <1>7, <2>1 DEF ReceiveFails, Dispatch, TypeOK, kernel
<1>8. CASE Returns
  BY <1>8 DEF Returns, TypeOK, kernel
<1>9. CASE UNCHANGED vars
  BY <1>9 DEF vars, TypeOK, kernel
<1>10. QED
  BY <1>1, <1>2, <1>3, <1>4, <1>5, <1>6, <1>7, <1>8, <1>9 DEF Next, Serve

-----------------------------------------------------------------------------
(* The order of the calls *)

LEMMA Initially == Init => IInv
<1> SUFFICES ASSUME Init PROVE IInv
  OBVIOUS
<1>1. TypeOK
  BY TypeInit
<1>2. IdsMade /\ LastCallKept /\ QueueInOrder /\ InProgramOrder
  BY DEF Init, NoQueue, IdsMade, LastCallKept, QueueInOrder, InProgramOrder
<1>3. QED
  BY <1>1, <1>2 DEF IInv

\* Steps that leave the calls alone.
LEMMA CallsUnchanged ==
  ASSUME IInv, UNCHANGED <<queue, made, client, executed>>, failed' = failed
  PROVE  IdsMade' /\ LastCallKept' /\ QueueInOrder' /\ InProgramOrder'
BY DEF IInv, IdsMade, LastCallKept, Done, InQueue, Executed, QueueInOrder, InProgramOrder

\* The calls in a queue stay in order while nothing is taken out of it.
LEMMA OrderKept ==
  ASSUME QueueInOrder, queue'.calls = queue.calls \/ queue'.calls = <<>>, executed' = executed
  PROVE  QueueInOrder'
<1>1. CASE queue'.calls = queue.calls
  <2>1. \A m : Executed(m)' <=> Executed(m)
    BY DEF Executed
  <2>2. \A k \in 1 .. Len(queue.calls) :
          \E c \in Clients : \E n \in 1 .. Len(Program[c]) :
            /\ queue.calls[k] = Message(c, n)
            /\ n > 1 => \/ Executed(Message(c, n - 1))'
                        \/ \E j \in 1 .. k - 1 : queue.calls[j] = Message(c, n - 1)
    BY <2>1 DEF QueueInOrder
  <2>3. QED
    BY <1>1, <2>2 DEF QueueInOrder, Executed
<1>2. CASE queue'.calls = <<>>
  BY <1>2 DEF QueueInOrder
<1>3. QED
  BY <1>1, <1>2

\* No client's queue is one that has not been made.
LEMMA IdsKnown ==
  ASSUME IInv, NEW c \in Clients
  PROVE  /\ client[c].next \in Nat \ {0} /\ client[c].msgid \in Nat
         /\ made \in Nat /\ client[c].msgid <= made
<1>1. TypeOK /\ IdsMade
  BY DEF IInv
<1>2. client[c].next \in Nat \ {0} /\ client[c].msgid \in 0 .. MaxQueues
  BY <1>1, ClientGoes
<1>3. QED
  BY <1>1, <1>2, SystemCallsAssumption DEF TypeOK, IdsMade

\* LastCallKept, spelt out for the next state.
LEMMA LastCallIs ==
  ASSUME \A d \in Clients : \A k :
           client'[d].msgid # 0 /\ client'[d].msgid = queue'.id /\ client'[d].next > 1
           /\ k = client'[d].next - 1
             => k \in 1 .. Len(Program[d]) /\ Done(Message(d, k))'
  PROVE  LastCallKept'
BY DEF LastCallKept, Done, Executed, InQueue, Message

LEMMA OpenStep ==
  ASSUME IInv, NEW c \in Clients, ClientOpens(c)
  PROVE  IdsMade' /\ LastCallKept' /\ QueueInOrder' /\ InProgramOrder'
<1>1. PICK id \in 1 .. MaxQueues : Msgget(id) /\ client' = [client EXCEPT ![c].msgid = id]
  BY DEF ClientOpens
<1>2. /\ made <= made' /\ queue'.id = id /\ made \in Nat /\ made' \in Nat
      /\ \/ queue' = queue
         \/ queue.id = 0 /\ queue'.calls = <<>> /\ id = made + 1 /\ made' = id
  BY <1>1, MsggetIs DEF IInv, TypeOK
<1>3. client \in [Clients -> ClientState]
  BY DEF IInv, TypeOK, ClientState
<1>4. /\ client'[c].next = 1 /\ client'[c].msgid = id
      /\ \A d \in Clients : d # c => client'[d] = client[d]
  BY <1>1, <1>3 DEF ClientOpens, ClientState
<1>5. IdsMade'
  <2>1. \A d \in Clients : client[d].msgid \in Nat /\ client[d].msgid <= made
    BY IdsKnown
  <2>2. queue'.id <= made' /\ queue'.id # 0
    BY <1>2 DEF IInv, IdsMade
  <2>3. \A d \in Clients : client'[d].msgid <= made'
    BY <1>2, <1>4, <2>1, <2>2
  <2>4. QED
    BY <2>2, <2>3 DEF IdsMade
<1>6. LastCallKept'
  <2> SUFFICES ASSUME NEW d \in Clients, NEW k, client'[d].msgid # 0,
                      client'[d].msgid = queue'.id, client'[d].next > 1,
                      k = client'[d].next - 1
               PROVE  k \in 1 .. Len(Program[d]) /\ Done(Message(d, k))'
    BY LastCallIs
  <2>1. d # c /\ client'[d] = client[d]
    BY <1>4
  <2>2. queue' = queue
    <3>1. client[d].msgid <= made /\ client[d].msgid \in Nat
      BY IdsKnown
    <3>2. QED
      BY <1>2, <2>1, <3>1
  <2>3. executed' = executed
    BY DEF ClientOpens
  <2>4. k \in 1 .. Len(Program[d]) /\ Done(Message(d, k))
    BY <2>1, <2>2 DEF IInv, LastCallKept
  <2>5. QED
    BY <2>2, <2>3, <2>4 DEF Done, Executed, InQueue
<1>7. QueueInOrder' /\ InProgramOrder'
  BY <1>2, OrderKept DEF IInv, ClientOpens, InProgramOrder
<1>8. QED
  BY <1>5, <1>6, <1>7

LEMMA SendStep ==
  ASSUME IInv, NEW c \in Clients, ClientSends(c)
  PROVE  IdsMade' /\ LastCallKept' /\ QueueInOrder' /\ InProgramOrder'
<1>0. PICK n : n = client[c].next
  OBVIOUS
<1>1. /\ n \in 1 .. Len(Program[c]) /\ queue'.id = queue.id
      /\ IF queue.id # client[c].msgid THEN queue'.calls = queue.calls
         ELSE queue'.calls = Append(queue.calls, Message(c, n))
  BY <1>0, SendIs DEF IInv
<1>2. client \in [Clients -> ClientState]
  BY DEF IInv, TypeOK, ClientState
<1>3. /\ client'[c].next = n + 1 /\ client'[c].msgid = client[c].msgid
      /\ \A d \in Clients : d # c => client'[d] = client[d]
  BY <1>0, <1>2 DEF ClientSends, ClientState
<1>4. executed' = executed /\ made' = made /\ failed' = failed
  BY DEF ClientSends
<1>5. client[c].msgid # 0
  BY DEF ClientSends
<1>6. queue.calls \in Seq(Calls) /\ Message(c, n) \in Calls
  BY <1>1, MessageType DEF IInv, TypeOK
<1>7. IdsMade'
  <2>1. queue.id = 0 => queue'.calls = <<>>
    BY <1>1, <1>5 DEF IInv, IdsMade
  <2>2. QED
    BY <1>1, <1>3, <1>4, <2>1 DEF IInv, IdsMade
<1>8. /\ \A k \in 1 .. Len(queue.calls) :
           k \in 1 .. Len(queue'.calls) /\ queue'.calls[k] = queue.calls[k]
      /\ queue.id = client[c].msgid =>
           /\ Len(queue'.calls) = Len(queue.calls) + 1
           /\ queue'.calls[Len(queue.calls) + 1] = Message(c, n)
      /\ Len(queue.calls) \in Nat
  BY <1>1, <1>6, AppendIs
<1>9. \A m : Done(m) => Done(m)'
  BY <1>4, <1>8 DEF Done, Executed, InQueue
<1>10. LastCallKept'
  <2> SUFFICES ASSUME NEW d \in Clients, NEW k, client'[d].msgid # 0,
                      client'[d].msgid = queue'.id, client'[d].next > 1,
                      k = client'[d].next - 1
               PROVE  k \in 1 .. Len(Program[d]) /\ Done(Message(d, k))'
    BY LastCallIs
  <2>1. CASE d = c
    <3>1. k = n /\ queue.id = client[c].msgid
      BY <1>1, <1>3, <2>1
    <3>2. Done(Message(c, n))'
      BY <1>8, <3>1 DEF Done, InQueue
    <3>3. QED
      BY <1>1, <2>1, <3>1, <3>2
  <2>2. CASE d # c
    <3>1. k \in 1 .. Len(Program[d]) /\ Done(Message(d, k))
      BY <1>1, <1>3, <2>2 DEF IInv, LastCallKept
    <3>2. QED
      BY <1>9, <3>1
  <2>3. QED
    BY <2>1, <2>2
<1>11. QueueInOrder'
  <2>1. CASE queue.id # client[c].msgid
    BY <1>1, <1>4, <2>1, OrderKept DEF IInv
  <2>2. CASE queue.id = client[c].msgid
    <3> SUFFICES ASSUME NEW k \in 1 .. Len(queue'.calls)
                 PROVE  \E d \in Clients : \E j \in 1 .. Len(Program[d]) :
                          /\ queue'.calls[k] = Message(d, j)
                          /\ j > 1 => \/ Executed(Message(d, j - 1))'
                                      \/ \E i \in 1 .. k - 1 :
                                           queue'.calls[i] = Message(d, j - 1)
      BY DEF QueueInOrder
    <3>1. CASE k \in 1 .. Len(queue.calls)
      <4>1. \A i \in 1 .. k : queue'.calls[i] = queue.calls[i]
        BY <1>8, <3>1
      <4>2. QED
        BY <1>4, <3>1, <4>1 DEF IInv, QueueInOrder, Executed
    <3>2. CASE k = Len(queue.calls) + 1
      <4>1. queue'.calls[k] = Message(c, n)
        BY <1>8, <2>2, <3>2
      <4>2. n > 1 => Done(Message(c, n - 1))
        BY <1>0, <1>1, <1>5, <2>2 DEF IInv, LastCallKept
      <4>3. InQueue(Message(c, n - 1)) => \E i \in 1 .. k - 1 :
                                            queue'.calls[i] = Message(c, n - 1)
        BY <1>8, <3>2 DEF InQueue
      <4>4. QED
        BY <1>1, <1>4, <4>1, <4>2, <4>3 DEF Done, Executed
    <3>3. QED
      BY <1>8, <2>2, <3>1, <3>2
  <2>3. QED
    BY <2>1, <2>2
<1>12. InProgramOrder'
  BY <1>4 DEF IInv, InProgramOrder
<1>13. QED
  BY <1>7, <1>10, <1>11, <1>12

LEMMA RemoveStep ==
  ASSUME IInv, NEW c \in Clients, ClientRemoves(c)
  PROVE  IdsMade' /\ LastCallKept' /\ QueueInOrder' /\ InProgramOrder'
<1>1. client \in [Clients -> ClientState]
  BY DEF IInv, TypeOK, ClientState
<1>2. /\ client'[c].msgid = client[c].msgid
      /\ \A d \in Clients : d # c => client'[d] = client[d]
  BY <1>1 DEF ClientRemoves, ClientState
<1>3. executed' = executed /\ made' = made /\ failed' = failed
  BY DEF ClientRemoves
<1>4. \/ queue.id # client[c].msgid /\ queue' = queue
      \/ queue'.id = 0 /\ queue'.calls = <<>>
  BY DEF ClientRemoves, NoQueue
<1>5. IdsMade'
  BY <1>2, <1>3, <1>4, IdsKnown DEF IInv, IdsMade
<1>6. LastCallKept'
  <2> SUFFICES ASSUME NEW d \in Clients, NEW k, client'[d].msgid # 0,
                      client'[d].msgid = queue'.id, client'[d].next > 1,
                      k = client'[d].next - 1
               PROVE  k \in 1 .. Len(Program[d]) /\ Done(Message(d, k))'
    BY LastCallIs
  <2>1. queue' = queue /\ d # c /\ client'[d] = client[d]
    BY <1>2, <1>4
  <2>2. k \in 1 .. Len(Program[d]) /\ Done(Message(d, k))
    BY <2>1 DEF IInv, LastCallKept
  <2>3. QED
    BY <1>3, <2>1, <2>2 DEF Done, Executed, InQueue
<1>7. QueueInOrder'
  BY <1>3, <1>4, OrderKept DEF IInv
<1>8. InProgramOrder'
  BY <1>3 DEF IInv, InProgramOrder
<1>9. QED
  BY <1>5, <1>6, <1>7, <1>8

LEMMA ServerOpenStep ==
  ASSUME IInv, ServerOpens
  PROVE  IdsMade' /\ LastCallKept' /\ QueueInOrder' /\ InProgramOrder'
<1>1. PICK id \in 1 .. MaxQueues : Msgget(id)
  BY DEF ServerOpens
<1>2. /\ made <= made' /\ queue'.id = id /\ made \in Nat /\ made' \in Nat
      /\ \/ queue' = queue
         \/ queue.id = 0 /\ queue'.calls = <<>> /\ id = made + 1 /\ made' = id
  BY <1>1, MsggetIs DEF IInv, TypeOK
<1>3. client' = client /\ executed' = executed /\ failed' = failed
  BY DEF ServerOpens
<1>4. IdsMade'
  BY <1>2, <1>3, IdsKnown DEF IInv, IdsMade
<1>5. LastCallKept'
  <2> SUFFICES ASSUME NEW d \in Clients, NEW k, client'[d].msgid # 0,
                      client'[d].msgid = queue'.id, client'[d].next > 1,
                      k = client'[d].next - 1
               PROVE  k \in 1 .. Len(Program[d]) /\ Done(Message(d, k))'
    BY LastCallIs
  <2>1. queue' = queue
    BY <1>2, <1>3, IdsKnown
  <2>2. k \in 1 .. Len(Program[d]) /\ Done(Message(d, k))
    BY <1>3, <2>1 DEF IInv, LastCallKept
  <2>3. QED
    BY <1>3, <2>1, <2>2 DEF Done, Executed, InQueue
<1>6. QueueInOrder'
  BY <1>2, <1>3, OrderKept DEF IInv
<1>7. InProgramOrder'
  BY <1>3 DEF IInv, InProgramOrder
<1>8. QED
  BY <1>4, <1>5, <1>6, <1>7

\* The call taken is the oldest; the one before it was executed before.
LEMMA ReceiveStep ==
  ASSUME IInv, Receive
  PROVE  IdsMade' /\ LastCallKept' /\ QueueInOrder' /\ InProgramOrder'
<1>1. /\ queue.calls \in Seq(Calls) /\ executed \in Seq(Calls)
      /\ queue.calls # <<>> /\ queue.id \in Nat
  BY DEF IInv, TypeOK, Receive
<1>2. PICK m : m = queue.calls[1]
  OBVIOUS
<1>3. /\ Head(queue.calls) = m /\ m \in Calls
      /\ Len(queue.calls) \in Nat /\ Len(queue.calls) > 0
      /\ Tail(queue.calls) \in Seq(Calls) /\ Len(Tail(queue.calls)) = Len(queue.calls) - 1
      /\ \A k \in 1 .. Len(queue.calls) - 1 : Tail(queue.calls)[k] = queue.calls[k + 1]
  BY <1>1, <1>2, TailIs
<1>4. /\ queue'.id = queue.id /\ queue'.calls = Tail(queue.calls)
      /\ executed' = Append(executed, m)
      /\ client' = client /\ made' = made /\ failed' = failed
  BY <1>3 DEF Receive, Dispatch, IInv, TypeOK
<1>5. /\ Len(executed') = Len(executed) + 1 /\ Len(executed) \in Nat
      /\ \A k \in 1 .. Len(executed) : executed'[k] = executed[k]
      /\ executed'[Len(executed) + 1] = m
  BY <1>1, <1>3, <1>4, AppendIs
<1>6. \A x : Executed(x) => Executed(x)'
  BY <1>5 DEF Executed
<1>7. Executed(m)'
  BY <1>5 DEF Executed
<1>8. \A x : InQueue(x) => x = m \/ InQueue(x)'
  <2> SUFFICES ASSUME NEW x, NEW k \in 1 .. Len(queue.calls), queue.calls[k] = x, x # m
               PROVE  InQueue(x)'
    BY DEF InQueue
  <2>1. k # 1 /\ k - 1 \in 1 .. Len(queue.calls) - 1
    BY <1>2, <1>3
  <2>2. Tail(queue.calls)[k - 1] = x
    BY <1>3, <2>1
  <2>3. QED
    BY <1>3, <1>4, <2>1, <2>2 DEF InQueue
<1>9. IdsMade'
  <2>1. queue.id # 0
    BY <1>1 DEF IInv, IdsMade
  <2>2. QED
    BY <1>4, <2>1 DEF IInv, IdsMade
<1>10. LastCallKept'
  <2> SUFFICES ASSUME NEW d \in Clients, NEW k, client'[d].msgid # 0,
                      client'[d].msgid = queue'.id, client'[d].next > 1,
                      k = client'[d].next - 1
               PROVE  k \in 1 .. Len(Program[d]) /\ Done(Message(d, k))'
    BY LastCallIs
  <2>1. k \in 1 .. Len(Program[d]) /\ Done(Message(d, k))
    BY <1>4 DEF IInv, LastCallKept
  <2>2. QED
    BY <1>6, <1>7, <1>8, <2>1 DEF Done
<1>11. QueueInOrder'
  <2> SUFFICES ASSUME NEW k \in 1 .. Len(queue'.calls)
               PROVE  \E d \in Clients : \E j \in 1 .. Len(Program[d]) :
                        /\ queue'.calls[k] = Message(d, j)
                        /\ j > 1 => \/ Executed(Message(d, j - 1))'
                                    \/ \E i \in 1 .. k - 1 :
                                         queue'.calls[i] = Message(d, j - 1)
    BY DEF QueueInOrder
  <2>1. k + 1 \in 1 .. Len(queue.calls) /\ queue'.calls[k] = queue.calls[k + 1]
    BY <1>3, <1>4
  <2>2. PICK d \in Clients : \E j \in 1 .. Len(Program[d]) :
               /\ queue.calls[k + 1] = Message(d, j)
               /\ j > 1 => \/ Executed(Message(d, j - 1))
                           \/ \E i \in 1 .. (k + 1) - 1 : queue.calls[i] = Message(d, j - 1)
    BY <2>1 DEF IInv, QueueInOrder
  <2>3. PICK j \in 1 .. Len(Program[d]) :
               /\ queue.calls[k + 1] = Message(d, j)
               /\ j > 1 => \/ Executed(Message(d, j - 1))
                           \/ \E i \in 1 .. (k + 1) - 1 : queue.calls[i] = Message(d, j - 1)
    BY <2>2
  <2>4. ASSUME NEW i \in 1 .. (k + 1) - 1, queue.calls[i] = Message(d, j - 1)
        PROVE  \/ Executed(Message(d, j - 1))'
               \/ \E h \in 1 .. k - 1 : queue'.calls[h] = Message(d, j - 1)
    <3>1. CASE i = 1
      BY <1>2, <1>7, <2>4, <3>1
    <3>2. CASE i # 1
      <4>1. i - 1 \in 1 .. k - 1 /\ i - 1 \in 1 .. Len(queue.calls) - 1
        BY <2>1, <3>2
      <4>2. queue'.calls[i - 1] = queue.calls[i]
        BY <1>3, <1>4, <4>1
      <4>3. QED
        BY <2>4, <4>1, <4>2
    <3>3. QED
      BY <3>1, <3>2
  <2>5. QED
    BY <1>6, <2>1, <2>3, <2>4
<1>12. InProgramOrder'
  <2> SUFFICES ASSUME ~failed, NEW k \in 1 .. Len(executed'), executed'[k].n > 1
               PROVE  \E j \in 1 .. k - 1 : executed'[j].client = executed'[k].client
                                            /\ executed'[j].n + 1 = executed'[k].n
    BY <1>4 DEF InProgramOrder
  <2>1. CASE k \in 1 .. Len(executed)
    BY <1>5, <2>1 DEF IInv, InProgramOrder
  <2>2. CASE k = Len(executed) + 1
    <3>1. PICK d \in Clients : \E i \in 1 .. Len(Program[d]) :
                 m = Message(d, i) /\ (i > 1 => Executed(Message(d, i - 1)))
      BY <1>2, <1>3 DEF IInv, QueueInOrder
    <3>2. PICK i \in 1 .. Len(Program[d]) :
                 m = Message(d, i) /\ (i > 1 => Executed(Message(d, i - 1)))
      BY <3>1
    <3>3. executed'[k].client = d /\ executed'[k].n = i
      BY <1>5, <2>2, <3>2 DEF Message
    <3>4. PICK j \in 1 .. Len(executed) : executed[j] = Message(d, i - 1)
      BY <3>3, <3>2 DEF Executed
    <3>5. executed'[j].client = d /\ executed'[j].n = i - 1 /\ j \in 1 .. k - 1
      BY <1>5, <2>2, <3>4 DEF Message
    <3>6. i \in Nat
      OBVIOUS
    <3>7. QED
      BY <3>3, <3>5, <3>6
  <2>3. QED
    BY <1>5, <2>1, <2>2
<1>13. QED
  BY <1>9, <1>10, <1>11, <1>12

LEMMA FailStep ==
  ASSUME IInv, ReceiveFails
  PROVE  IdsMade' /\ LastCallKept' /\ QueueInOrder' /\ InProgramOrder'
<1>1. queue' = queue /\ made' = made /\ client' = client /\ failed'
  BY DEF ReceiveFails, kernel
<1>2. executed' = Append(executed, msg) /\ executed \in Seq(Calls) /\ msg \in Calls
  BY DEF ReceiveFails, Dispatch, IInv, TypeOK
<1>3. /\ Len(executed') = Len(executed) + 1 /\ Len(executed) \in Nat
      /\ \A k \in 1 .. Len(executed) : executed'[k] = executed[k]
  BY <1>2, AppendIs
<1>4. \A x : Executed(x) => Executed(x)'
  BY <1>3 DEF Executed
<1>5. IdsMade'
  BY <1>1 DEF IInv, IdsMade
<1>6. LastCallKept'
  <2>1. \A x : Done(x) => Done(x)'
    BY <1>1, <1>4 DEF Done, InQueue
  <2>2. QED
    BY <1>1, <2>1, LastCallIs DEF IInv, LastCallKept
<1>7. QueueInOrder'
  BY <1>1, <1>4 DEF IInv, QueueInOrder
<1>8. InProgramOrder'
  BY <1>1 DEF InProgramOrder
<1>9. QED
  BY <1>5, <1>6, <1>7, <1>8

LEMMA Inductive == IInv /\ [Next]_vars => IInv'
<1> SUFFICES ASSUME IInv, [Next]_vars PROVE IInv'
  OBVIOUS
<1>1. TypeOK'
  BY TypeStep DEF IInv
<1>2. IdsMade' /\ LastCallKept' /\ QueueInOrder' /\ InProgramOrder'
  <2>1. ASSUME NEW c \in Clients, ClientOpens(c) \/ ClientSends(c) \/ ClientRemoves(c)
        PROVE  IdsMade' /\ LastCallKept' /\ QueueInOrder' /\ InProgramOrder'
    BY <2>1, OpenStep, SendStep, RemoveStep
  <2>2. CASE ServerOpens
    BY <2>2, ServerOpenStep
  <2>3. CASE Receive \/ ReceiveFails
    BY <2>3, ReceiveStep, FailStep
  <2>4. CASE ServerGivesUp \/ Returns \/ UNCHANGED vars
    BY <2>4, CallsUnchanged DEF ServerGivesUp, Returns, vars, kernel
  <2>5. QED
    BY <2>1, <2>2, <2>3, <2>4 DEF Next, Serve
<1>3. QED
  BY <1>1, <1>2 DEF IInv

LEMMA Invariance == Spec => []IInv
BY Initially, Inductive, PTL DEF Spec

\* What clients and mtsyscal hold stays well formed: ids of queues that were made, calls
\* that clients make or what was on the stack.
THEOREM TypeCorrect == Spec => []TypeOK
<1>1. IInv => TypeOK
  BY DEF IInv
<1>2. QED
  BY Invariance, <1>1, PTL

\* Until a receive fails no client's call is executed before the client's calls before
\* it, whichever client removes the queue and makes it anew.
THEOREM ProgramsInOrder == Spec => []InProgramOrder
<1>1. IInv => InProgramOrder
  BY DEF IInv
<1>2. QED
  BY Invariance, <1>1, PTL

-----------------------------------------------------------------------------
(* The queue and mtsyscal implement CallQueue *)

LEMMA StepCalls ==
  ASSUME IInv, [Next]_vars
  PROVE  [failed' \/ Calling!Next \/ UNCHANGED <<queue.calls, executed>>]_vars
<1>1. ASSUME NEW id \in 1 .. MaxQueues, Msgget(id) PROVE queue'.calls = queue.calls
  BY <1>1, MsggetIs DEF IInv, IdsMade
<1>2. ASSUME NEW c \in Clients, ClientOpens(c) PROVE UNCHANGED <<queue.calls, executed>>
  BY <1>1, <1>2 DEF ClientOpens
<1>3. ASSUME NEW c \in Clients, ClientSends(c)
      PROVE  Calling!Next \/ UNCHANGED <<queue.calls, executed>>
  <2>1. /\ client[c].next \in 1 .. Len(Program[c])
        /\ IF queue.id # client[c].msgid THEN queue'.calls = queue.calls
           ELSE queue'.calls = Append(queue.calls, Message(c, client[c].next))
        /\ queue.id = client[c].msgid => Len(queue.calls) < QueueSize
    BY <1>3, SendIs DEF IInv, ClientSends
  <2>2. Message(c, client[c].next) \in AllCalls
    BY <2>1, MessageType
  <2>3. executed' = executed
    BY <1>3 DEF ClientSends
  <2>4. QED
    BY <2>1, <2>2, <2>3 DEF Calling!Next, Calling!Send
<1>4. ASSUME NEW c \in Clients, ClientRemoves(c)
      PROVE  Calling!Next \/ UNCHANGED <<queue.calls, executed>>
  BY <1>4 DEF ClientRemoves, NoQueue, Calling!Next, Calling!Remove
<1>5. CASE ServerOpens
  BY <1>1, <1>5 DEF ServerOpens
<1>6. CASE Receive
  <2>1. /\ queue'.calls = Tail(queue.calls) /\ queue.calls # <<>>
        /\ executed' = Append(executed, Head(queue.calls))
    BY <1>6 DEF Receive, Dispatch, IInv, TypeOK
  <2>2. QED
    BY <2>1 DEF Calling!Next, Calling!Execute
<1>7. CASE ReceiveFails
  BY <1>7 DEF ReceiveFails
<1>8. CASE ServerGivesUp \/ Returns \/ UNCHANGED vars
  BY <1>8 DEF ServerGivesUp, Returns, vars, kernel
<1>9. QED
  BY <1>2, <1>3, <1>4, <1>5, <1>6, <1>7, <1>8 DEF Next, Serve

\* Until a receive fails, calls are executed in the order in which they were sent, each
\* once, by any number of clients.
THEOREM QueueIsCalls == Spec => CallsInTurn
<1>1. Init => Calling!Init
  BY DEF Init, NoQueue, Calling!Init
<1>2. QED
  BY <1>1, StepCalls, Invariance, PTL DEF Spec, CallsInTurn

-----------------------------------------------------------------------------
(* After a failed receive *)

\* The queue mtsyscal has the id of is gone, and ids do not come back.
QueueLost ==
  /\ server.msgid <= made
  /\ server.at \in {"recv", "busy"} => server.msgid # 0
  /\ failed => server.at \in {"recv", "busy"} /\ queue.id # server.msgid

LEMMA LostInit == Init => QueueLost
  BY DEF Init, QueueLost

LEMMA LostStep == IInv /\ QueueLost /\ [Next]_vars => QueueLost'
<1> SUFFICES ASSUME IInv, QueueLost, [Next]_vars PROVE QueueLost'
  OBVIOUS
<1>1. /\ made \in Nat /\ made <= made' /\ made' \in Nat
      /\ server.msgid \in Nat /\ queue.id \in Nat
      /\ server \in [at : {"start", "recv", "busy", "gone"}, msgid : 0 .. MaxQueues]
      /\ queue \in [id : 0 .. MaxQueues, calls : Seq(Calls)]
  <2>1. made <= made'
    <3>1. \A id \in 1 .. MaxQueues : Msgget(id) => made <= made'
      BY MsggetIs DEF IInv
    <3>2. made \in Nat
      BY SystemCallsAssumption DEF IInv, TypeOK
    <3> QED
      BY <3>1, <3>2 DEF Next, vars, kernel, ClientOpens, ClientSends, ClientRemoves,
         ServerOpens, ServerGivesUp, Serve, Receive, ReceiveFails, Returns
  <2>2. TypeOK /\ TypeOK'
    BY TypeStep DEF IInv
  <2> QED
    BY <2>1, <2>2, SystemCallsAssumption DEF TypeOK
<1>2. CASE UNCHANGED <<queue, server, failed>>
  BY <1>1, <1>2 DEF QueueLost
<1>3. ASSUME NEW c \in Clients, ClientOpens(c) PROVE QueueLost'
  <2>1. PICK id \in 1 .. MaxQueues : Msgget(id)
    BY <1>3 DEF ClientOpens
  <2>2. server' = server /\ failed' = failed
    BY <1>3 DEF ClientOpens
  <2>3. queue' = queue \/ (queue'.id = made + 1)
    BY <2>1, MsggetIs DEF IInv
  <2> QED
    BY <1>1, <2>2, <2>3 DEF QueueLost
<1>4. ASSUME NEW c \in Clients, ClientSends(c) PROVE QueueLost'
  <2>1. server' = server /\ failed' = failed /\ queue'.id = queue.id
    BY <1>1, <1>4 DEF ClientSends
  <2> QED
    BY <1>1, <2>1 DEF QueueLost
<1>5. ASSUME NEW c \in Clients, ClientRemoves(c) PROVE QueueLost'
  <2>1. server' = server /\ failed' = failed /\ made' = made
    BY <1>5 DEF ClientRemoves
  <2>2. failed => server.msgid # 0
    BY DEF QueueLost
  <2> QED
    BY <1>1, <1>5, <2>1, <2>2 DEF QueueLost, ClientRemoves, NoQueue
<1>6. CASE ServerOpens
  <2>1. PICK id \in 1 .. MaxQueues : Msgget(id) /\ server' = [at |-> "recv", msgid |-> id]
    BY <1>6 DEF ServerOpens
  <2>2. server'.at = "recv" /\ server'.msgid = id /\ id # 0
    BY <2>1
  <2>3. failed' = FALSE
    BY <1>6 DEF ServerOpens, QueueLost, IInv, TypeOK
  <2>4. id <= made'
    BY <2>1 DEF Msgget, kernel, IInv, IdsMade
  <2> QED
    BY <2>2, <2>3, <2>4 DEF QueueLost
<1>7. CASE ServerGivesUp
  <2>1. server.at = "start" /\ UNCHANGED <<queue, failed>> /\ server' = [server EXCEPT !.at = "gone"]
    BY <1>7 DEF ServerGivesUp, kernel
  <2>2. server'.at = "gone" /\ server'.msgid = server.msgid /\ failed' = failed
    BY <1>1, <2>1
  <2> QED
    BY <1>1, <2>1, <2>2 DEF QueueLost
<1>8. CASE Receive
  <2>1. /\ server.at = "recv" /\ queue'.id = queue.id /\ failed' = failed
        /\ server'.at = "busy" /\ server'.msgid = server.msgid
    BY <1>1, <1>8 DEF Receive, Dispatch
  <2> QED
    BY <1>1, <2>1 DEF QueueLost
<1>9. CASE ReceiveFails
  <2>1. /\ server.at = "recv" /\ queue.id # server.msgid /\ queue' = queue
        /\ server'.at = "busy" /\ server'.msgid = server.msgid
    BY <1>1, <1>9 DEF ReceiveFails, Dispatch, kernel
  <2> QED
    BY <1>1, <2>1 DEF QueueLost
<1>10. CASE Returns
  <2>1. /\ server.at = "busy" /\ queue' = queue /\ failed' = failed
        /\ server'.at = "recv" /\ server'.msgid = server.msgid
    BY <1>1, <1>10 DEF Returns, kernel
  <2> QED
    BY <1>1, <2>1 DEF QueueLost
<1> QED
  BY <1>2, <1>3, <1>4, <1>5, <1>6, <1>7, <1>8, <1>9, <1>10 DEF Next, vars, kernel, Serve

\* Once a receive has failed, no other succeeds: whoever makes the queue anew and sends
\* to it, mtsyscal is not there, and all it executes from then on is the call it holds.
THEOREM LastCallForEver ==
  ASSUME NEW m
  PROVE  Spec => [](failed /\ msg = m
                      => [][executed' # executed => executed' = Append(executed, m)]_vars)
<1> DEFINE Stuck  == failed /\ msg = m
           Repeats == executed' # executed => executed' = Append(executed, m)
<1>1. QueueLost /\ Stuck /\ [Next]_vars => Stuck' /\ [Repeats]_vars
  <2> SUFFICES ASSUME QueueLost, Stuck, [Next]_vars PROVE Stuck' /\ Repeats
    OBVIOUS
  <2>1. ~Receive
    BY DEF QueueLost, Receive
  <2> QED
    BY <2>1 DEF Next, vars, ClientOpens, ClientSends, ClientRemoves, ServerOpens,
       ServerGivesUp, Serve, ReceiveFails, Dispatch, Returns
<1>2. Spec => []QueueLost
  BY LostInit, LostStep, Invariance, PTL DEF Spec
<1> HIDE DEF Stuck, Repeats
<1>3. Spec => [](Stuck => [][Repeats]_vars)
  BY <1>1, <1>2, PTL DEF Spec
<1> QED
  BY <1>3 DEF Stuck, Repeats
=============================================================================
