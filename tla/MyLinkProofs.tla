---------------------------- MODULE MyLinkProofs ----------------------------
(***************************************************************************)
(* For any number of calls, any length of the hello and any interleaving   *)
(* of the two threads' accesses to mylink: the link greets no more often   *)
(* than it waited for an answer, and as long as no two functions overlap   *)
(* the numbers sent are contiguous and the answer to a SYN fits.           *)
(***************************************************************************)
EXTENDS MyLinkProperties, TLAPS

HP == "handle_packet"

(* The inductive invariant *)

\* Which function is at which place.
PlaceFits(t) ==
  /\ At(t, "rest") <=> ~Busy(t)
  /\ At(t, "compare") => t = HP /\ thread[t].doing \in {"ack", "answer"}
  /\ At(t, "establish") => t = HP /\ thread[t].doing = "ack"
  /\ At(t, "waits") => thread[t].doing = "connect"
  /\ At(t, "closed") \/ At(t, "number") => thread[t].doing = "socket"

PlacesFit == \A t \in Threads : PlaceFits(t)

\* tcptest has found the link waiting and has not changed the status yet.
Answering == thread[HP].doing = "ack" /\ (At(HP, "compare") \/ At(HP, "establish"))

\* A link that waits, or is about to be established, still has its greeting to come.
GreetingOwed == owed >= 0 /\ (status = "SYN_SEND" \/ Answering => owed >= 1)

\* How far a function that runs alone has come with mylink's number.
Counting(t) ==
  /\ At(t, "pack") \/ At(t, "compare") \/ At(t, "establish") \/ At(t, "closed")
       \/ At(t, "number") => mynum = upTo
  /\ At(t, "waits") \/ At(t, "load") \/ At(t, "store")
       => mynum = upTo /\ thread[t].seq = upTo
  /\ At(t, "store") => thread[t].num = upTo
  /\ At(t, "copy") \/ At(t, "transmit")
       => thread[t].seq = upTo /\ mynum = upTo + Takes(thread[t].doing)
  /\ At(t, "transmit") => frame = [kind |-> thread[t].doing, seq |-> upTo]
  /\ thread[t].doing = "connect" /\ ~At(t, "pack") /\ ~At(t, "waits")
       => status = "SYN_SEND"

OneAtATime ==
  apart => /\ \A t, u \in Threads : t # u => ~Busy(t) \/ ~Busy(u)
           /\ \A t \in Threads : Busy(t) => Counting(t)
           /\ (\A t \in Threads : ~Busy(t)) => mynum = upTo
           /\ expected # -1 => \A t \in Threads : ~Busy(t) \/ At(t, "compare")

IInv == TypeOK /\ PlacesFit /\ GreetingOwed /\ OneAtATime /\ AnswerFits

-----------------------------------------------------------------------------
(* Threads and what they do *)

ThreadState == [doing : Functions, at : Places, seq : Nat, num : Nat]

LEMMA TwoThreads == Threads = {HP, "mtsyscal"} /\ HP # "mtsyscal"
BY DEF Threads, HP

LEMMA TakesNat == \A kind : Takes(kind) \in Nat
BY MyLinkAssumption DEF Takes

LEMMA ThreadType ==
  ASSUME TypeOK, NEW t \in Threads
  PROVE  /\ thread \in [Threads -> ThreadState]
         /\ thread[t].doing \in Functions /\ thread[t].at \in Places
         /\ thread[t].seq \in Nat /\ thread[t].num \in Nat
BY DEF TypeOK, ThreadState

\* The functions' names are no two alike.
LEMMA FunctionNames ==
  /\ "none" \in Functions /\ "answer" \in Functions
  /\ Called \subseteq Functions /\ Greeting \subseteq Functions
BY DEF Functions, Called, Greeting

LEMMA FollowingIs ==
  ASSUME NEW kind \in Functions
  PROVE  /\ Following(kind) \in Functions
         /\ Following(kind) # "none" => kind \in {"ack", "hello"} /\ Following(kind) \in {"hello", "fin"}
BY DEF Following, Functions, Greeting

\* A step of t leaves the other thread alone and t in one of its states.
Moved(t) == /\ thread' \in [Threads -> ThreadState]
            /\ \A u \in Threads : u # t => thread'[u] = thread[u]

\* What remains of t when only its place changes.
Same(t) == /\ thread'[t].doing = thread[t].doing /\ thread'[t].seq = thread[t].seq
           /\ thread'[t].num = thread[t].num

LEMMA Becomes ==
  ASSUME TypeOK, NEW t \in Threads, NEW r \in ThreadState, thread' = [thread EXCEPT ![t] = r]
  PROVE  Moved(t) /\ thread'[t] = r
BY ThreadType DEF Moved

LEMMA GoesIs ==
  ASSUME TypeOK, NEW t \in Threads, NEW p \in Places, Goes(t, p)
  PROVE  Moved(t) /\ Same(t) /\ thread'[t].at = p
<1>1. thread[t] \in ThreadState
  BY ThreadType
<1>2. [thread[t] EXCEPT !.at = p] \in ThreadState
  BY <1>1 DEF ThreadState
<1>3. thread' = [thread EXCEPT ![t] = [thread[t] EXCEPT !.at = p]]
  BY DEF Goes
<1>4. Moved(t) /\ thread'[t] = [thread[t] EXCEPT !.at = p]
  BY <1>2, <1>3, Becomes
<1>5. QED
  BY <1>1, <1>4 DEF Same, ThreadState

LEMMA PackIs ==
  ASSUME TypeOK, NEW t \in Threads, Pack(t)
  PROVE  /\ Moved(t)
         /\ \E p \in {"waits", "copy", "load"} :
              /\ thread'[t].at = p /\ thread'[t].seq = mynum
              /\ thread'[t].doing = thread[t].doing
              /\ p = "waits" <=> thread[t].doing = "connect"
              /\ p = "copy" => Takes(thread[t].doing) = 0
<1>1. thread[t] \in ThreadState /\ mynum \in Nat
  BY ThreadType DEF TypeOK
<1>2. PICK p \in {"waits", "copy", "load"} :
           /\ p = IF thread[t].doing = "connect" THEN "waits"
                  ELSE IF Takes(thread[t].doing) = 0 THEN "copy" ELSE "load"
           /\ thread' = [thread EXCEPT ![t] = [thread[t] EXCEPT !.seq = mynum, !.at = p]]
  BY DEF Pack
<1>3. p \in Places
  BY DEF Places
<1>4. [thread[t] EXCEPT !.seq = mynum, !.at = p] \in ThreadState
  BY <1>1, <1>3 DEF ThreadState
<1>5. Moved(t) /\ thread'[t] = [thread[t] EXCEPT !.seq = mynum, !.at = p]
  BY <1>2, <1>4, Becomes
<1>6. /\ thread'[t].at = p /\ thread'[t].seq = mynum
      /\ thread'[t].doing = thread[t].doing
  BY <1>1, <1>5 DEF ThreadState
<1>7. QED
  BY <1>2, <1>5, <1>6

LEMMA LoadIs ==
  ASSUME TypeOK, NEW t \in Threads, Load(t)
  PROVE  /\ Moved(t) /\ thread'[t].at = "store" /\ thread'[t].num = mynum
         /\ thread'[t].doing = thread[t].doing /\ thread'[t].seq = thread[t].seq
<1>1. thread[t] \in ThreadState /\ mynum \in Nat
  BY ThreadType DEF TypeOK
<1>2. [thread[t] EXCEPT !.num = mynum, !.at = "store"] \in ThreadState
  BY <1>1 DEF ThreadState, Places
<1>3. thread' = [thread EXCEPT ![t] = [thread[t] EXCEPT !.num = mynum, !.at = "store"]]
  BY DEF Load
<1>4. Moved(t) /\ thread'[t] = [thread[t] EXCEPT !.num = mynum, !.at = "store"]
  BY <1>2, <1>3, Becomes
<1>5. QED
  BY <1>1, <1>4 DEF ThreadState

LEMMA IdleState == Idle \in ThreadState
BY FunctionNames DEF Idle, ThreadState, Places

LEMMA ContinueIs ==
  ASSUME TypeOK, NEW t \in Threads, Continue(t)
  PROVE  /\ Moved(t)
         /\ \/ thread'[t].doing = "none" /\ thread'[t].at = "rest"
            \/ /\ thread[t].doing \in {"ack", "hello"} /\ thread'[t].doing \in {"hello", "fin"}
               /\ thread'[t].at = "pack"
<1> DEFINE f == Following(thread[t].doing)
           r == IF f = "none" THEN Idle ELSE [thread[t] EXCEPT !.doing = f, !.at = "pack"]
<1>1. thread[t] \in ThreadState /\ thread[t].doing \in Functions
  BY ThreadType
<1>2. /\ f \in Functions
      /\ f # "none" => thread[t].doing \in {"ack", "hello"} /\ f \in {"hello", "fin"}
  BY <1>1, FollowingIs
<1>3. thread' = [thread EXCEPT ![t] = r]
  <2>1. CASE f = "none"
    BY <2>1 DEF Continue
  <2>2. CASE f # "none"
    BY <2>2 DEF Continue
  <2>3. QED
    BY <2>1, <2>2
<1> HIDE DEF f
<1>4. [thread[t] EXCEPT !.doing = f, !.at = "pack"] \in ThreadState
  BY <1>1, <1>2 DEF ThreadState, Places
<1>5. r \in ThreadState
  BY <1>4, IdleState
<1>6. Moved(t) /\ thread'[t] = r
  BY <1>3, <1>5, Becomes
<1>7. CASE f = "none"
  BY <1>6, <1>7 DEF Idle
<1>8. CASE f # "none"
  BY <1>1, <1>2, <1>6, <1>8 DEF ThreadState
<1>9. QED
  BY <1>7, <1>8

LEMMA CallIs ==
  ASSUME TypeOK, NEW op \in Called, Call(op)
  PROVE  /\ Moved("mtsyscal")
         /\ thread'["mtsyscal"].doing = op
         /\ thread'["mtsyscal"].at \in {"closed", "pack"}
         /\ thread'["mtsyscal"].at = "closed" <=> op = "socket"
<1> DEFINE p == IF op = "socket" THEN "closed" ELSE "pack"
           r == [Idle EXCEPT !.doing = op, !.at = p]
<1>1. op \in Functions /\ p \in Places
  BY FunctionNames DEF Places
<1>2. p \in {"closed", "pack"} /\ (p = "closed" <=> op = "socket")
  OBVIOUS
<1>3. thread' = [thread EXCEPT !["mtsyscal"] = r]
  BY DEF Call
<1> HIDE DEF p
<1>4. r \in ThreadState /\ r.doing = op /\ r.at = p
  BY <1>1, IdleState DEF Idle, ThreadState
<1> HIDE DEF r
<1>5. Moved("mtsyscal") /\ thread'["mtsyscal"] = r
  BY <1>3, <1>4, Becomes, TwoThreads
<1>6. QED
  BY <1>2, <1>4, <1>5

LEMMA TakeIs ==
  ASSUME TypeOK, TakeSegment
  PROVE  /\ Moved(HP)
         /\ thread'[HP].at = "compare"
         /\ thread'[HP].doing = IF status = "SYN_SEND" THEN "ack" ELSE "answer"
<1>1. PICK ack \in answers :
        thread' = [thread EXCEPT ![HP] =
          [Idle EXCEPT !.doing = IF status = "SYN_SEND" THEN "ack" ELSE "answer",
                       !.at = "compare", !.num = ack]]
  BY DEF TakeSegment, HP
<1> DEFINE d == IF status = "SYN_SEND" THEN "ack" ELSE "answer"
           r == [Idle EXCEPT !.doing = d, !.at = "compare", !.num = ack]
<1>2. thread' = [thread EXCEPT ![HP] = r]
  BY <1>1
<1>3. d \in Functions /\ "compare" \in Places /\ ack \in Nat
  BY FunctionNames DEF TypeOK, Places, Greeting
<1> HIDE DEF d
<1>4. r = [Idle EXCEPT !.doing = d, !.at = "compare", !.num = ack]
  OBVIOUS
<1> HIDE DEF r
<1>5. r \in ThreadState /\ r.doing = d /\ r.at = "compare"
  BY <1>3, <1>4, IdleState DEF Idle, ThreadState
<1>6. Moved(HP) /\ thread'[HP] = r
  BY <1>2, <1>5, Becomes, TwoThreads
<1>7. QED
  BY <1>5, <1>6 DEF d

\* tcptest's comparison, in either case of its switch.
Comparing == CompareSynAck \/ CompareFinAck

LEMMA CompareIs ==
  ASSUME TypeOK, Comparing
  PROVE  /\ At(HP, "compare") /\ Moved(HP)
         /\ \/ thread[HP].num # mynum /\ thread'[HP].doing = "none" /\ thread'[HP].at = "rest"
               /\ expected' = expected
            \/ /\ thread[HP].num = mynum /\ expected' = -1
               /\ thread'[HP].doing = thread[HP].doing
               /\ thread'[HP].at \in {"establish", "pack"}
               /\ thread'[HP].at = "establish" <=> thread[HP].doing = "ack"
<1> DEFINE p == IF thread[HP].doing = "ack" THEN "establish" ELSE "pack"
           r == IF thread[HP].num # mynum THEN Idle ELSE [thread[HP] EXCEPT !.at = p]
<1>1. thread[HP] \in ThreadState
  BY ThreadType, TwoThreads
<1>2. /\ At(HP, "compare") /\ thread' = [thread EXCEPT ![HP] = r]
      /\ expected' = IF thread[HP].num # mynum THEN expected ELSE -1
  BY DEF Comparing, CompareSynAck, CompareFinAck, Compare, HP
<1>3. p \in {"establish", "pack"} /\ (p = "establish" <=> thread[HP].doing = "ack")
  OBVIOUS
<1> HIDE DEF p
<1>4. r \in ThreadState
  BY <1>1, <1>3, IdleState DEF ThreadState, Places
<1>5. Moved(HP) /\ thread'[HP] = r
  BY <1>2, <1>4, Becomes, TwoThreads
<1>6. CASE thread[HP].num # mynum
  BY <1>2, <1>5, <1>6 DEF Idle
<1>7. CASE thread[HP].num = mynum
  BY <1>1, <1>2, <1>3, <1>5, <1>7 DEF ThreadState
<1>8. QED
  BY <1>6, <1>7

LEMMA EstablishIs ==
  ASSUME TypeOK, Establish
  PROVE  /\ At(HP, "establish") /\ Moved(HP) /\ Same(HP) /\ thread'[HP].at = "pack"
BY GoesIs, TwoThreads DEF Establish, HP, Places

LEMMA TypeInit == Init => TypeOK
<1> SUFFICES ASSUME Init PROVE TypeOK
  OBVIOUS
<1>1. Idle \in ThreadState /\ [Idle EXCEPT !.doing = "connect", !.at = "pack"] \in ThreadState
  BY DEF Idle, ThreadState, Functions, Called, Places
<1>2. thread \in [Threads -> ThreadState]
  BY <1>1 DEF Init
<1>3. frame \in [kind : Functions, seq : Nat]
  BY FunctionNames DEF Init
<1>4. QED
  BY <1>2, <1>3, MyLinkAssumption DEF Init, TypeOK, ThreadState

\* Every step but a stutter is one of a thread.
LEMMA SomeoneMoves ==
  ASSUME TypeOK, Next
  PROVE  thread' \in [Threads -> ThreadState]
<1>1. ASSUME NEW t \in Threads, Access(t) PROVE Moved(t)
  <2>1. \A p \in Places : Goes(t, p) => Moved(t)
    BY GoesIs
  <2>2. {"load", "copy", "transmit", "number"} \subseteq Places
    BY DEF Places
  <2>3. QED
    BY <1>1, <2>1, <2>2, PackIs, LoadIs, ContinueIs
       DEF Access, Waits, Store, Copy, Transmit, Closed, Renumber
<1>2. QED
  BY <1>1, CallIs, TakeIs, CompareIs, EstablishIs DEF Next, Comparing, Moved

LEMMA TypeStep == TypeOK /\ [Next]_vars => TypeOK'
<1> SUFFICES ASSUME TypeOK, [Next]_vars PROVE TypeOK'
  OBVIOUS
<1> USE DEF history
<1>1. CASE Next
  <2>1. thread' \in [Threads -> ThreadState]
    BY <1>1, SomeoneMoves
  <2>2. ASSUME NEW t \in Threads, Access(t) PROVE TypeOK'
    <3>1. mynum' \in Nat
      BY <2>2, ThreadType, TakesNat DEF TypeOK, Access, Pack, Waits, Load, Store, Copy, Transmit,
         Closed, Renumber
    <3>2. frame' \in [kind : Functions, seq : Nat]
      BY <2>2, ThreadType DEF TypeOK, Access, Pack, Waits, Load, Store, Copy, Transmit,
         Closed, Renumber
    <3>3. frame.seq + Takes(frame.kind) \in Nat
      BY TakesNat DEF TypeOK
    <3>4. QED
      BY <2>1, <2>2, <3>1, <3>2, <3>3 DEF TypeOK, ThreadState, Access, Pack, Waits, Load, Store,
         Copy, Transmit, Closed, Renumber
  <2>3. ASSUME NEW op \in Called, Call(op) PROVE TypeOK'
    BY <2>1, <2>3, MyLinkAssumption DEF Call, TypeOK, ThreadState
  <2>4. CASE TakeSegment
    BY <2>1, <2>4 DEF TakeSegment, TypeOK, ThreadState
  <2>5. CASE Comparing
    BY <2>1, <2>5, CompareIs DEF Comparing, CompareSynAck, CompareFinAck, Compare, TypeOK, ThreadState
  <2>6. CASE Establish
    BY <2>1, <2>6 DEF Establish, TypeOK, ThreadState
  <2>7. QED
    BY <1>1, <2>2, <2>3, <2>4, <2>5, <2>6 DEF Next, Comparing
<1>2. CASE UNCHANGED vars
  BY <1>2 DEF vars, TypeOK
<1>3. QED
  BY <1>1, <1>2

-----------------------------------------------------------------------------
(* Which function is at which place *)

\* Only the thread that moves can come out of place.
LEMMA FitsAll ==
  ASSUME PlacesFit, NEW t \in Threads, Moved(t), PlaceFits(t)'
  PROVE  PlacesFit'
<1>1. ASSUME NEW u \in Threads, u # t PROVE PlaceFits(u)'
  BY <1>1 DEF PlacesFit, PlaceFits, Moved, At, Busy
<1>2. QED
  BY <1>1 DEF PlacesFit

LEMMA FitsStep ==
  ASSUME TypeOK, PlacesFit, [Next]_vars
  PROVE  PlacesFit'
<1>1. ASSUME NEW t \in Threads, Access(t) PROVE PlacesFit'
  <2>1. PlaceFits(t)
    BY DEF PlacesFit
  <2>2. CASE Pack(t)
    BY <2>1, <2>2, PackIs, FitsAll DEF PlaceFits, At, Busy, Pack
  <2>3. CASE Waits(t) \/ Store(t) \/ Copy(t)
    <3>1. PICK p \in {"load", "copy", "transmit"} : Goes(t, p)
      BY <2>3 DEF Waits, Store, Copy
    <3>2. Moved(t) /\ Same(t) /\ thread'[t].at = p
      BY <3>1, GoesIs DEF Places
    <3>3. thread[t].doing # "none"
      BY <2>1, <2>3 DEF PlaceFits, At, Busy, Waits, Store, Copy
    <3>4. PlaceFits(t)'
      BY <3>1, <3>2, <3>3 DEF PlaceFits, At, Busy, Same
    <3>5. QED
      BY <3>2, <3>4, FitsAll
  <2>4. CASE Load(t)
    BY <2>1, <2>4, LoadIs, FitsAll DEF PlaceFits, At, Busy, Load
  <2>5. CASE Transmit(t) \/ Renumber(t)
    BY <2>5, ContinueIs, FitsAll DEF PlaceFits, At, Busy, Transmit, Renumber
  <2>6. CASE Closed(t)
    <3>1. Moved(t) /\ Same(t) /\ thread'[t].at = "number"
      BY <2>6, GoesIs DEF Closed, Places
    <3>2. PlaceFits(t)'
      BY <2>1, <2>6, <3>1 DEF PlaceFits, At, Busy, Same, Closed
    <3>3. QED
      BY <3>1, <3>2, FitsAll
  <2>7. QED
    BY <1>1, <2>2, <2>3, <2>4, <2>5, <2>6 DEF Access
<1>2. ASSUME NEW op \in Called, Call(op) PROVE PlacesFit'
  <2>1. PlaceFits("mtsyscal")'
    BY <1>2, CallIs, TwoThreads DEF PlaceFits, At, Busy, Called
  <2>2. QED
    BY <1>2, <2>1, CallIs, FitsAll, TwoThreads
<1>3. CASE TakeSegment
  BY <1>3, TakeIs, FitsAll, TwoThreads DEF PlaceFits, At, Busy
<1>4. CASE Comparing
  <2>1. PlaceFits(HP)'
    BY <1>4, CompareIs, TwoThreads DEF PlacesFit, PlaceFits, At, Busy
  <2>2. QED
    BY <1>4, <2>1, CompareIs, FitsAll, TwoThreads
<1>5. CASE Establish
  <2>1. PlaceFits(HP)'
    BY <1>5, EstablishIs, TwoThreads DEF PlacesFit, PlaceFits, At, Busy, Same
  <2>2. QED
    BY <1>5, <2>1, EstablishIs, FitsAll, TwoThreads
<1>6. CASE UNCHANGED vars
  BY <1>6 DEF vars, PlacesFit, PlaceFits, At, Busy
<1>7. QED
  BY <1>1, <1>2, <1>3, <1>4, <1>5, <1>6 DEF Next, Comparing

-----------------------------------------------------------------------------
(* The greeting *)

\* Only a segment tcptest takes up while the link waits makes it answer.
LEMMA AnsweringStays ==
  ASSUME TypeOK, NEW t \in Threads, Moved(t), thread'[t].at \notin {"compare", "establish"}
  PROVE  Answering' => Answering
BY TwoThreads DEF Answering, At, Moved

LEMMA OwedStep ==
  ASSUME TypeOK, PlacesFit, GreetingOwed, [Next]_vars
  PROVE  GreetingOwed'
<1> USE DEF history
<1>0. owed \in Int
  BY DEF TypeOK
<1>1. ASSUME NEW t \in Threads, Access(t) PROVE GreetingOwed'
  <2>1. CASE Waits(t)
    BY <1>0, <2>1 DEF Waits, GreetingOwed
  <2>2. CASE Access(t) /\ ~Waits(t)
    <3>1. Moved(t) /\ thread'[t].at \notin {"compare", "establish"}
      <4>1. \A p \in {"copy", "transmit", "number"} :
              Goes(t, p) => Moved(t) /\ thread'[t].at = p
        BY GoesIs DEF Places
      <4>2. Pack(t) => Moved(t) /\ thread'[t].at \in {"waits", "copy", "load"}
        BY PackIs
      <4>3. Load(t) => Moved(t) /\ thread'[t].at = "store"
        BY LoadIs
      <4>4. Continue(t) => Moved(t) /\ thread'[t].at \in {"rest", "pack"}
        BY ContinueIs
      <4>5. QED
        BY <2>2, <4>1, <4>2, <4>3, <4>4 DEF Access, Store, Copy, Transmit, Closed, Renumber
    <3>2. Answering' => Answering
      BY <3>1, AnsweringStays
    <3>3. owed' = owed /\ (status' = status \/ status' = "CLOSED")
      BY <2>2 DEF Access, Pack, Load, Store, Copy, Transmit, Closed, Renumber
    <3>4. QED
      BY <3>2, <3>3 DEF GreetingOwed
  <2>3. QED
    BY <1>1, <2>1, <2>2
<1>2. ASSUME NEW op \in Called, Call(op) PROVE GreetingOwed'
  <2>1. Answering' => Answering
    BY <1>2, CallIs, AnsweringStays, TwoThreads
  <2>2. QED
    BY <1>2, <2>1 DEF Call, GreetingOwed
<1>3. CASE TakeSegment
  <2>1. Answering' => status = "SYN_SEND"
    BY <1>3, TakeIs DEF Answering
  <2>2. QED
    BY <1>3, <2>1 DEF TakeSegment, GreetingOwed
<1>4. CASE Comparing
  <2>1. Answering' => Answering
    BY <1>4, CompareIs DEF Answering, At
  <2>2. QED
    BY <1>4, <2>1 DEF Comparing, CompareSynAck, CompareFinAck, Compare, GreetingOwed
<1>5. CASE Establish
  <2>1. Answering /\ ~Answering'
    BY <1>5, EstablishIs, TwoThreads DEF Answering, At, PlacesFit, PlaceFits
  <2>2. status' = "ESTABLISH" /\ owed' = owed - 1
    BY <1>5 DEF Establish
  <2>3. QED
    BY <1>0, <2>1, <2>2 DEF GreetingOwed
<1>6. CASE UNCHANGED vars
  BY <1>6 DEF vars, GreetingOwed, Answering, At
<1>7. QED
  BY <1>1, <1>2, <1>3, <1>4, <1>5, <1>6 DEF Next, Comparing

-----------------------------------------------------------------------------
(* One function at a time *)

\* While one thread runs alone it is enough to follow that one.
LEMMA CountsAll ==
  ASSUME NEW t \in Threads, Moved(t), \A u \in Threads : u # t => ~Busy(u),
         Busy(t)' => Counting(t)', ~Busy(t)' => (mynum = upTo)',
         (expected # -1 => ~Busy(t) \/ At(t, "compare"))'
  PROVE  OneAtATime'
<1>1. \A u \in Threads : u # t => ~Busy(u)'
  BY DEF Busy, Moved
<1>2. (\A u \in Threads : ~Busy(u)') => (mynum = upTo)'
  OBVIOUS
<1>3. (expected # -1)' => \A u \in Threads : ~Busy(u)' \/ At(u, "compare")'
  BY <1>1
<1>4. \A u, w \in Threads : u # w => ~Busy(u)' \/ ~Busy(w)'
  BY <1>1
<1>5. \A u \in Threads : Busy(u)' => Counting(u)'
  BY <1>1
<1>6. QED
  BY <1>2, <1>3, <1>4, <1>5 DEF OneAtATime

LEMMA OneStep ==
  ASSUME TypeOK, PlacesFit, OneAtATime, AnswerFits, [Next]_vars, apart'
  PROVE  OneAtATime' /\ AnswerFits'
<1> USE DEF history
<1>1. ASSUME NEW t \in Threads, Access(t) PROVE OneAtATime' /\ AnswerFits'
  <2>1. apart /\ Busy(t)
    BY <1>1 DEF Access, Pack, Waits, Load, Store, Copy, Transmit, Closed, Renumber, At, Busy,
       PlacesFit, PlaceFits
  <2>2. Counting(t) /\ \A u \in Threads : u # t => ~Busy(u)
    BY <2>1 DEF OneAtATime
  <2>3. mynum \in Nat /\ upTo \in Nat /\ thread[t].num \in Nat /\ thread[t].seq \in Nat
    BY ThreadType DEF TypeOK
  <2>4. expected = -1
    BY <1>1, <2>1 DEF OneAtATime, Access, Pack, Waits, Load, Store, Copy, Transmit, Closed,
       Renumber, At
  <2>5. CASE Pack(t)
    <3>1. /\ Moved(t) /\ expected' = -1 /\ mynum' = mynum /\ upTo' = upTo
          /\ mynum = upTo
      BY <2>2, <2>4, <2>5, PackIs DEF Pack, Counting
    <3>2. Counting(t)' /\ Busy(t)'
      BY <2>1, <2>2, <2>3, <2>5, <3>1, PackIs DEF Counting, At, Busy
    <3>3. QED
      BY <2>2, <3>1, <3>2, CountsAll DEF AnswerFits
  <2>6. CASE Waits(t)
    <3>1. Moved(t) /\ Same(t) /\ thread'[t].at = "load"
      BY <2>6, GoesIs DEF Waits, Places
    <3>2. expected' = -1 /\ mynum' = mynum /\ upTo' = upTo /\ status' = "SYN_SEND"
      BY <2>4, <2>6 DEF Waits
    <3>3. Counting(t)' /\ Busy(t)'
      BY <2>1, <2>2, <2>6, <3>1, <3>2 DEF Counting, At, Busy, Same, Waits
    <3>4. QED
      BY <2>2, <3>1, <3>2, <3>3, CountsAll DEF AnswerFits
  <2>7. CASE Load(t)
    <3>1. /\ Moved(t) /\ expected' = -1 /\ mynum' = mynum /\ upTo' = upTo
          /\ status' = status
      BY <2>4, <2>7, LoadIs DEF Load
    <3>2. Counting(t)' /\ Busy(t)'
      BY <2>1, <2>2, <2>7, <3>1, LoadIs DEF Counting, At, Busy, Load
    <3>3. QED
      BY <2>2, <3>1, <3>2, CountsAll DEF AnswerFits
  <2>8. CASE Store(t)
    <3>1. Moved(t) /\ Same(t) /\ thread'[t].at = "copy"
      BY <2>8, GoesIs DEF Store, Places
    <3>2. /\ expected' = -1 /\ upTo' = upTo /\ status' = status
          /\ mynum' = upTo + Takes(thread[t].doing)
      BY <2>2, <2>4, <2>8 DEF Store, Counting
    <3>3. Counting(t)' /\ Busy(t)'
      BY <2>1, <2>2, <2>8, <3>1, <3>2 DEF Counting, At, Busy, Same, Store
    <3>4. QED
      BY <2>2, <3>1, <3>2, <3>3, CountsAll DEF AnswerFits
  <2>9. CASE Copy(t)
    <3>1. Moved(t) /\ Same(t) /\ thread'[t].at = "transmit"
      BY <2>9, GoesIs DEF Copy, Places
    <3>2. /\ expected' = -1 /\ upTo' = upTo /\ status' = status /\ mynum' = mynum
          /\ frame' = [kind |-> thread[t].doing, seq |-> thread[t].seq]
      BY <2>4, <2>9 DEF Copy
    <3>3. Counting(t)' /\ Busy(t)'
      BY <2>1, <2>2, <2>9, <3>1, <3>2 DEF Counting, At, Busy, Same, Copy
    <3>4. QED
      BY <2>2, <3>1, <3>2, <3>3, CountsAll DEF AnswerFits
  <2>10. CASE Transmit(t)
    <3>1. /\ frame = [kind |-> thread[t].doing, seq |-> upTo]
          /\ mynum = upTo + Takes(thread[t].doing)
      BY <2>2, <2>10 DEF Transmit, Counting
    <3>2. /\ mynum' = mynum /\ upTo' = mynum /\ status' = status
          /\ expected' = IF thread[t].doing = "connect" THEN mynum ELSE -1
      BY <2>1, <2>10, <3>1 DEF Transmit
    <3>3. /\ Moved(t)
          /\ \/ thread'[t].doing = "none"
             \/ /\ thread[t].doing # "connect" /\ thread'[t].doing \in {"hello", "fin"}
                /\ thread'[t].at = "pack"
      BY <2>10, ContinueIs DEF Transmit
    <3>4. Busy(t)' => Counting(t)'
      BY <3>2, <3>3 DEF Counting, At, Busy
    <3>5. expected' # -1 => ~Busy(t)'
      BY <3>2, <3>3 DEF Busy
    <3>6. thread[t].doing = "connect" => status = "SYN_SEND"
      BY <2>2, <2>10 DEF Counting, Transmit, At
    <3>7. AnswerFits'
      BY <3>2, <3>6 DEF AnswerFits
    <3>8. QED
      BY <2>2, <3>2, <3>3, <3>4, <3>5, <3>7, CountsAll
  <2>11. CASE Closed(t)
    <3>1. Moved(t) /\ Same(t) /\ thread'[t].at = "number"
      BY <2>11, GoesIs DEF Closed, Places
    <3>2. expected' = -1 /\ upTo' = upTo /\ mynum' = mynum /\ mynum = upTo
      BY <2>2, <2>4, <2>11 DEF Closed, Counting
    <3>3. thread[t].doing = "socket"
      BY <2>11 DEF Closed, PlacesFit, PlaceFits
    <3>4. Counting(t)' /\ Busy(t)'
      BY <3>1, <3>2, <3>3 DEF Counting, At, Busy, Same
    <3>5. QED
      BY <2>2, <3>1, <3>2, <3>4, CountsAll DEF AnswerFits
  <2>12. CASE Renumber(t)
    <3>1. thread[t].doing = "socket"
      BY <2>12 DEF Renumber, PlacesFit, PlaceFits
    <3>2. Moved(t) /\ ~Busy(t)'
      BY <2>12, <3>1, ContinueIs DEF Renumber, Busy
    <3>3. mynum' = upTo' /\ expected' = -1
      BY <2>4, <2>12 DEF Renumber
    <3>4. QED
      BY <2>2, <3>2, <3>3, CountsAll DEF AnswerFits
  <2>13. QED
    BY <1>1, <2>5, <2>6, <2>7, <2>8, <2>9, <2>10, <2>11, <2>12 DEF Access
<1>2. ASSUME NEW op \in Called, Call(op) PROVE OneAtATime' /\ AnswerFits'
  <2>1. /\ apart /\ ~Busy("mtsyscal") /\ ~Busy(HP)
        /\ expected' = -1 /\ mynum' = mynum /\ upTo' = upTo
    BY <1>2 DEF Call, HP
  <2>2. (\A u \in Threads : ~Busy(u)) /\ mynum = upTo
    BY <2>1, TwoThreads DEF OneAtATime
  <2>3. Moved("mtsyscal") /\ Counting("mtsyscal")' /\ Busy("mtsyscal")'
    BY <1>2, <2>1, <2>2, CallIs DEF Counting, At, Busy, Called
  <2>4. QED
    BY <2>1, <2>2, <2>3, CountsAll, TwoThreads DEF AnswerFits
<1>3. CASE TakeSegment
  <2>1. /\ apart /\ ~Busy("mtsyscal") /\ ~Busy(HP)
        /\ expected' = expected /\ mynum' = mynum /\ upTo' = upTo /\ status' = status
    BY <1>3 DEF TakeSegment, HP
  <2>2. (\A u \in Threads : ~Busy(u)) /\ mynum = upTo
    BY <2>1, TwoThreads DEF OneAtATime
  <2>3. Moved(HP) /\ Counting(HP)' /\ Busy(HP)' /\ At(HP, "compare")'
    BY <1>3, <2>1, <2>2, TakeIs DEF Counting, At, Busy
  <2>4. AnswerFits'
    BY <2>1 DEF AnswerFits
  <2>5. QED
    BY <2>1, <2>2, <2>3, <2>4, CountsAll, TwoThreads
<1>4. CASE Comparing
  <2>1. /\ apart /\ At(HP, "compare") /\ Moved(HP)
        /\ mynum' = mynum /\ upTo' = upTo /\ status' = status
    BY <1>4, CompareIs DEF Comparing, CompareSynAck, CompareFinAck, Compare
  <2>2. thread[HP].doing \in {"ack", "answer"} /\ Busy(HP)
    BY <2>1, TwoThreads DEF PlacesFit, PlaceFits, Busy
  <2>3. mynum = upTo /\ \A u \in Threads : u # HP => ~Busy(u)
    BY <2>1, <2>2, TwoThreads DEF OneAtATime, Counting
  <2>4. Busy(HP)' => Counting(HP)'
    BY <1>4, <2>1, <2>2, <2>3, CompareIs DEF Counting, At, Busy
  <2>5. expected' # -1 => ~Busy(HP)' /\ expected' = expected
    BY <1>4, CompareIs DEF Busy
  <2>6. AnswerFits'
    BY <2>1, <2>5 DEF AnswerFits
  <2>7. QED
    BY <2>1, <2>3, <2>4, <2>5, <2>6, CountsAll, TwoThreads
<1>5. CASE Establish
  <2>1. /\ apart /\ At(HP, "establish") /\ Moved(HP) /\ Same(HP) /\ At(HP, "pack")'
        /\ mynum' = mynum /\ upTo' = upTo /\ expected' = expected
    BY <1>5, EstablishIs DEF Establish, At
  <2>2. thread[HP].doing = "ack" /\ Busy(HP)
    BY <2>1, TwoThreads DEF PlacesFit, PlaceFits, Busy
  <2>3. mynum = upTo /\ expected = -1 /\ \A u \in Threads : u # HP => ~Busy(u)
    BY <2>1, <2>2, TwoThreads DEF OneAtATime, Counting, At
  <2>4. Counting(HP)' /\ Busy(HP)'
    BY <2>1, <2>2, <2>3 DEF Counting, At, Busy, Same
  <2>5. QED
    BY <2>1, <2>3, <2>4, CountsAll, TwoThreads DEF AnswerFits
<1>6. CASE UNCHANGED vars
  BY <1>6 DEF vars, OneAtATime, AnswerFits, Counting, Busy, At
<1>7. QED
  BY <1>1, <1>2, <1>3, <1>4, <1>5, <1>6 DEF Next, Comparing

-----------------------------------------------------------------------------
(* The theorems *)

LEMMA Initially == Init => IInv
<1> SUFFICES ASSUME Init PROVE IInv
  OBVIOUS
<1>1. TypeOK
  BY TypeInit
<1>2. /\ thread["mtsyscal"].doing = "none" /\ thread["mtsyscal"].at = "rest"
      /\ thread[HP].doing = "connect" /\ thread[HP].at = "pack"
  BY TwoThreads DEF Init, Idle, HP
<1>3. PlacesFit
  BY <1>2, TwoThreads DEF PlacesFit, PlaceFits, At, Busy
<1>4. GreetingOwed
  BY <1>2 DEF GreetingOwed, Answering, Init
<1>5. Counting(HP)
  BY <1>2 DEF Counting, At, Init
<1>6. OneAtATime
  BY <1>2, <1>5, TwoThreads DEF OneAtATime, Busy, Init
<1>7. QED
  BY <1>1, <1>3, <1>4, <1>6 DEF IInv, AnswerFits, Init

LEMMA Inductive == IInv /\ [Next]_vars => IInv'
<1> SUFFICES ASSUME IInv, [Next]_vars PROVE IInv'
  OBVIOUS
<1>1. TypeOK' /\ PlacesFit' /\ GreetingOwed'
  BY TypeStep, FitsStep, OwedStep DEF IInv
<1>2. OneAtATime' /\ AnswerFits'
  <2>1. CASE apart'
    BY <2>1, OneStep DEF IInv
  <2>2. CASE ~apart'
    BY <2>2 DEF OneAtATime, AnswerFits
  <2>3. QED
    BY <2>1, <2>2
<1>3. QED
  BY <1>1, <1>2 DEF IInv

LEMMA Invariant == Spec => []IInv
BY Initially, Inductive, PTL DEF Spec

\* The variables of mylink, of the two threads and of the frame buffer keep their types.
THEOREM TypeCorrect == Spec => []TypeOK
<1>1. IInv => TypeOK
  BY DEF IInv
<1>2. QED
  BY <1>1, Invariant, PTL

\* The link is established no more often than it began to wait for an answer, however
\* many calls of mtsyscal fall between tcptest's accesses.
THEOREM GreetedNoOftener == Spec => []GreetedOnce
<1>1. IInv => GreetedOnce
  BY DEF IInv, GreetingOwed, GreetedOnce
<1>2. QED
  BY <1>1, Invariant, PTL

\* While no two functions have run at once, the answer to a SYN finds the link ready.
THEOREM SynAnswerFits == Spec => []AnswerFits
<1>1. IInv => AnswerFits
  BY DEF IInv
<1>2. QED
  BY <1>1, Invariant, PTL

\* While no two functions have run at once, what is sent is contiguous.
THEOREM Contiguous == Spec => NumbersContiguous
<1>1. IInv => \A t \in Threads : apart /\ Transmit(t) => frame.seq = upTo
  <2> SUFFICES ASSUME IInv, NEW t \in Threads, apart, Transmit(t)
               PROVE  frame.seq = upTo
    OBVIOUS
  <2>1. At(t, "transmit") /\ Busy(t)
    BY DEF IInv, PlacesFit, PlaceFits, Transmit, At
  <2>2. Counting(t)
    BY <2>1 DEF IInv, OneAtATime
  <2>3. QED
    BY <2>1, <2>2 DEF Counting
<1>2. IInv /\ [Next]_vars =>
        [\A t \in Threads : apart /\ Transmit(t) => frame.seq = upTo]_vars
  BY <1>1
<1>3. QED
  BY <1>2, Invariant, PTL DEF Spec, NumbersContiguous
=============================================================================
