------------------------------- MODULE MyLink -------------------------------
(***************************************************************************)
(* mylink of tcp/tcp.c with the two threads that change it without a lock: *)
(* handle_packet (tcp_first_step, then tcptest) and mtsyscal, which makes  *)
(* constructsocket, myconnect, mysendtcp and closesocket in any order.     *)
(* Of those mtsyscal's switch calls the first two; the places of the other *)
(* two, case 3 and 5, have the calls left out, and the model puts them in. *)
(*                                                                         *)
(* A function that sends packs a segment with the link's number, adds to   *)
(* the number (a load and a store), has ip_sed_process copy the packet     *)
(* into a static buffer, and sends what that buffer holds: one action      *)
(* each.  Numbers are counted from the initial one; Tcp has them wrap      *)
(* round, and says what the far end does with what is sent.                *)
(***************************************************************************)
EXTENDS Integers

CONSTANTS HELLO,         \* strlen("hello world\n")
          MaxCalls       \* bound on the calls of mtsyscal

ASSUME MyLinkAssumption == HELLO \in Nat \ {0} /\ MaxCalls \in Nat

VARIABLES
  status, mynum,         \* mylink.status, .mynum
  thread,                \* per thread: its function on mylink and its locals
  frame,                 \* the static buffer of ip_sed_process
  answers,               \* acknowledgements the far end may send
  made,                  \* calls mtsyscal has made
  owed,                  \* history: how often the link began to wait for an
                         \* answer, less how often it was established
  apart,                 \* history: no two functions have run at once
  upTo,                  \* history, while apart: the number after the last
                         \* segment sent since tcp_initial
  expected               \* history, while apart: the answer to the SYN that
                         \* was sent last, -1 once another function has begun

history == <<owed, apart, upTo, expected>>
vars    == <<status, mynum, thread, frame, answers, made, history>>

Threads   == {"handle_packet", "mtsyscal"}
Called    == {"socket", "connect", "send", "close"}
Greeting  == {"ack", "hello", "fin"}
Functions == Called \cup Greeting \cup {"none", "answer"}
Places    == {"rest", "compare", "establish", "closed", "number", "pack",
              "waits", "load", "store", "copy", "transmit"}

TypeOK ==
  /\ status \in {"CLOSED", "SYN_SEND", "ESTABLISH"} /\ mynum \in Nat
  /\ thread \in [Threads -> [doing : Functions, at : Places, seq : Nat, num : Nat]]
  /\ frame \in [kind : Functions, seq : Nat]
  /\ answers \subseteq Nat
  /\ made \in 0 .. MaxCalls
  /\ owed \in Int /\ apart \in BOOLEAN /\ upTo \in Nat /\ expected \in Nat \cup {-1}

Idle == [doing |-> "none", at |-> "rest", seq |-> 0, num |-> 0]

\* initial() has called tcp_initial, and handle_packet begins with tcp_first_step.
Init ==
  /\ status = "CLOSED" /\ mynum = 0
  /\ thread = [t \in Threads |-> IF t = "mtsyscal" THEN Idle
                                 ELSE [Idle EXCEPT !.doing = "connect", !.at = "pack"]]
  /\ frame = [kind |-> "none", seq |-> 0]
  /\ answers = {} /\ made = 0
  /\ owed = 0 /\ apart = TRUE /\ upTo = 0 /\ expected = -1

-----------------------------------------------------------------------------
(* A thread's function, one access to what is shared at a time *)

At(t, place)   == thread[t].at = place
Goes(t, place) == thread' = [thread EXCEPT ![t].at = place]
Busy(t)        == thread[t].doing # "none"

\* What a segment takes up of the link's numbers.
Takes(kind) == CASE kind \in {"connect", "fin", "close"} -> 1
                 [] kind \in {"hello", "send"} -> HELLO
                 [] OTHER -> 0

\* tcp_pack with mylink.mynum, and ip_pack.
Pack(t) ==
  /\ At(t, "pack")
  /\ thread' = [thread EXCEPT ![t].seq = mynum,
       ![t].at = IF thread[t].doing = "connect" THEN "waits"
                 ELSE IF Takes(thread[t].doing) = 0 THEN "copy" ELSE "load"]
  /\ UNCHANGED <<status, mynum, frame, answers, made, history>>

\* Mutant: the SYN takes up no number.
UncountedWaits(t) ==
  /\ At(t, "waits")
  /\ status' = "SYN_SEND"
  /\ owed' = owed + 1
  /\ Goes(t, "copy")
  /\ UNCHANGED <<mynum, frame, answers, made, apart, upTo, expected>>

\* tcp_first_step and myconnect: mylink.status = TCP_SYN_SEND.
Waits(t) ==
  /\ At(t, "waits")
  /\ status' = "SYN_SEND"
  /\ owed' = owed + 1
  /\ Goes(t, "load")
  /\ UNCHANGED <<mynum, frame, answers, made, apart, upTo, expected>>

Load(t) ==
  /\ At(t, "load")
  /\ thread' = [thread EXCEPT ![t].num = mynum, ![t].at = "store"]
  /\ UNCHANGED <<status, mynum, frame, answers, made, history>>

\* Mutant: the number is counted down.
DownwardStore(t) ==
  /\ At(t, "store")
  /\ mynum' = thread[t].num - Takes(thread[t].doing)
  /\ Goes(t, "copy")
  /\ UNCHANGED <<status, frame, answers, made, history>>

\* Mutant: only one is ever added.
ShortStore(t) ==
  /\ At(t, "store")
  /\ mynum' = thread[t].num + 1
  /\ Goes(t, "copy")
  /\ UNCHANGED <<status, frame, answers, made, history>>

\* mylink.mynum += 1, or += 12.
Store(t) ==
  /\ At(t, "store")
  /\ mynum' = thread[t].num + Takes(thread[t].doing)
  /\ Goes(t, "copy")
  /\ UNCHANGED <<status, frame, answers, made, history>>

\* ip_sed_process copies the packet into its buffer.
Copy(t) ==
  /\ At(t, "copy")
  /\ frame' = [kind |-> thread[t].doing, seq |-> thread[t].seq]
  /\ Goes(t, "transmit")
  /\ UNCHANGED <<status, mynum, answers, made, history>>

\* The greeting is three segments: the hello follows the ack, and the fin the hello.
Following(kind) == CASE kind = "ack" -> "hello" [] kind = "hello" -> "fin"
                     [] OTHER -> "none"

Continue(t) ==
  LET next == Following(thread[t].doing)
  IN  thread' = [thread EXCEPT ![t] =
        IF next = "none" THEN Idle ELSE [@ EXCEPT !.doing = next, !.at = "pack"]]

\* ip_sed_process sends what its buffer holds.
Transmit(t) ==
  LET next == frame.seq + Takes(frame.kind)
  IN  /\ At(t, "transmit")
      /\ answers' = answers \cup {next}
      /\ upTo' = IF apart THEN next ELSE 0
      /\ expected' = IF apart /\ frame.kind = "connect" THEN next ELSE -1
      /\ Continue(t)
      /\ UNCHANGED <<status, mynum, frame, made, owed, apart>>

\* tcp_initial: the status, then the number.
Closed(t) ==
  /\ At(t, "closed")
  /\ status' = "CLOSED"
  /\ Goes(t, "number")
  /\ UNCHANGED <<mynum, frame, answers, made, history>>

Renumber(t) ==
  /\ At(t, "number")
  /\ mynum' = 0
  /\ upTo' = 0
  /\ Continue(t)
  /\ UNCHANGED <<status, frame, answers, made, owed, apart, expected>>

Access(t) == \/ Pack(t) \/ Waits(t) \/ Load(t) \/ Store(t) \/ Copy(t)
             \/ Transmit(t) \/ Closed(t) \/ Renumber(t)

-----------------------------------------------------------------------------
(* mtsyscal *)

Call(op) ==
  /\ ~Busy("mtsyscal") /\ made < MaxCalls
  /\ made' = made + 1
  /\ thread' = [thread EXCEPT !["mtsyscal"] =
       [Idle EXCEPT !.doing = op, !.at = IF op = "socket" THEN "closed" ELSE "pack"]]
  /\ apart' = (apart /\ ~Busy("handle_packet"))
  /\ expected' = -1
  /\ UNCHANGED <<status, mynum, frame, answers, owed, upTo>>

-----------------------------------------------------------------------------
(* handle_packet: tcptest *)

\* The switch, for a SYN|ACK while the link waits for one or a FIN|ACK once it is
\* established; num keeps the segment's acknowledgement.  Segments of the far end
\* come late, repeated and in any order.  Any other changes nothing.
TakeSegment ==
  /\ ~Busy("handle_packet") /\ status # "CLOSED"
  /\ \E ack \in answers :
       thread' = [thread EXCEPT !["handle_packet"] =
         [Idle EXCEPT !.doing = IF status = "SYN_SEND" THEN "ack" ELSE "answer",
                      !.at = "compare", !.num = ack]]
  /\ apart' = (apart /\ ~Busy("mtsyscal"))
  /\ UNCHANGED <<status, mynum, frame, answers, made, owed, upTo, expected>>

\* The comparison with mylink.mynum; after it the switch is not looked at again.
Compare(place) ==
  LET t == "handle_packet"
  IN  /\ At(t, "compare")
      /\ thread' = [thread EXCEPT ![t] =
           IF @.num # mynum THEN Idle ELSE [@ EXCEPT !.at = place]]
      /\ expected' = IF thread[t].num # mynum THEN expected ELSE -1
      /\ UNCHANGED <<status, mynum, frame, answers, made, owed, apart, upTo>>

CompareSynAck == thread["handle_packet"].doing = "ack" /\ Compare("establish")

CompareFinAck == thread["handle_packet"].doing # "ack" /\ Compare("pack")

\* Mutant: the link goes on waiting for an answer.
WaitingEstablish ==
  /\ At("handle_packet", "establish")
  /\ owed' = owed - 1
  /\ Goes("handle_packet", "pack")
  /\ UNCHANGED <<status, mynum, frame, answers, made, apart, upTo, expected>>

\* mylink.status = TCP_ESTABLISH
Establish ==
  /\ At("handle_packet", "establish")
  /\ status' = "ESTABLISH"
  /\ owed' = owed - 1
  /\ Goes("handle_packet", "pack")
  /\ UNCHANGED <<mynum, frame, answers, made, apart, upTo, expected>>

-----------------------------------------------------------------------------

Next == \/ \E t \in Threads : Access(t)
        \/ \E op \in Called : Call(op)
        \/ TakeSegment \/ CompareSynAck \/ CompareFinAck \/ Establish

Spec == Init /\ [][Next]_vars
=============================================================================
