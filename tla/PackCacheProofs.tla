--------------------------- MODULE PackCacheProofs ---------------------------
(***************************************************************************)
(* For every size of the ring and every number of frames: the packet cache *)
(* keeps its frames whole, in order and complete up to the step that sets  *)
(* the other thread's mutex free; after it, it still hands over nothing    *)
(* that did not arrive, and two threads that both sleep do so for good.    *)
(***************************************************************************)
EXTENDS PackCacheProperties, SequenceTheorems, TLAPS

NextSlot(k) == IF k + 1 = PACKET_CACHE THEN 0 ELSE k + 1

-----------------------------------------------------------------------------
(* The inductive invariant *)

\* The mutex does what it is for: it is taken exactly while one of the threads
\* is between its lock and its unlock, and they are never both there.
MutualExclusion ==
  /\ ~ (listen \in Critical /\ handle \in Critical)
  /\ mutex = (listen \in Critical \/ handle \in Critical)

\* A thread has a standing with its condition variable only inside the wait.
WaitersWait ==
  /\ notfull # "idle" => listen \in {"release", "asleep"}
  /\ notempty # "idle" => handle \in {"release", "asleep"}

\* A thread that touches the ring, and one told it may, finds it usable.
RingUsable ==
  /\ listen \in {"copy", "setlen", "advance"} => ~Full
  /\ handle \in {"copy", "setread", "advance"} => ~Empty
  /\ listen = "signal" => ~Empty
  /\ handle = "signal" => ~Full
  /\ notfull = "woken" => ~Full
  /\ notempty = "woken" => ~Empty

\* Slot s, if it is stored, holds the frame its place in the ring calls for.
RingContents ==
  \A s \in Slots : Age(s) < Stored =>
    /\ buffer[s] = Len(handled) + 1 + Age(s)
    /\ len[s] = Len(handled) + 1 + Age(s)

\* What each thread has done so far to the slot it is working on.
SlotInHand ==
  /\ listen \in {"setlen", "advance"} => buffer[i] = arrived
  /\ listen = "advance" => len[i] = arrived
  /\ handle \in {"setread", "advance"} =>
       got.data = Len(handled) + 1 /\ got.copied = Len(handled) + 1
  /\ handle = "advance" => got.n_read = Len(handled) + 1

Conserved == arrived = Len(handled) + Stored + InHand
InOrder   == \A k \in 1 .. Len(handled) : handled[k] = k

RingInv == /\ MutualExclusion
           /\ WaitersWait
           /\ RingUsable
           /\ RingContents
           /\ SlotInHand
           /\ Conserved
           /\ InOrder

IInv == TypeOK /\ (intact => RingInv)

-----------------------------------------------------------------------------
(* The ring's arithmetic *)

\* The code's (k + 1) % PACKET_CACHE steps to the next slot, wrapping round.
LEMMA ModIsNext == \A k \in Slots : (k + 1) % PACKET_CACHE = NextSlot(k)
BY PackCacheAssumption DEF Slots, NextSlot

\* Storing a frame: the ring grows by one, and the slot written, until then just
\* beyond the stored ones, is the youngest.
LEMMA StoreOne ==
  ASSUME i \in Slots, j \in Slots, ~Full, i' = NextSlot(i), j' = j
  PROVE  /\ i' \in Slots /\ Stored' = Stored + 1 /\ i' # j'
         /\ Age(i) = Stored
         /\ \A s \in Slots : Age(s)' = Age(s) /\ (Age(s) = Stored => s = i)
<1>1. NextSlot(i) # j
  BY ModIsNext DEF Full
<1> QED
  BY <1>1, PackCacheAssumption DEF NextSlot, Stored, Age, Slots

\* Giving up a slot: the ring shrinks by one and every other frame moves up.
LEMMA TakeOne ==
  ASSUME i \in Slots, j \in Slots, ~Empty, i' = i, j' = NextSlot(j)
  PROVE  /\ j' \in Slots /\ Stored' = Stored - 1 /\ Stored > 0 /\ Age(j) = 0
         /\ NextSlot(i') # j'
         /\ \A s \in Slots : Age(s)' < Stored' =>
              s # j /\ Age(s)' = Age(s) - 1 /\ Age(s) < Stored
  BY PackCacheAssumption DEF NextSlot, Stored, Age, Slots, Empty

-----------------------------------------------------------------------------
(* Type correctness *)

LEMMA TypeInit == Init => TypeOK
BY PackCacheAssumption DEF Init, TypeOK, Slots, Listening, Handling, Standing

LEMMA TypeStep == TypeOK /\ [Next]_vars => TypeOK'
<1> SUFFICES ASSUME TypeOK, [Next]_vars PROVE TypeOK'
  OBVIOUS
<1> USE PackCacheAssumption
        DEF TypeOK, Slots, Listening, Handling, Standing, ring, outcome
<1>1. CASE RecvFrame
  BY <1>1 DEF RecvFrame
<1>2. CASE RecvError
  BY <1>2 DEF RecvError
<1>3. CASE PushLock
  BY <1>3 DEF PushLock
<1>4. CASE PushTest
  BY <1>4 DEF PushTest
<1>5. CASE PushDrop
  BY <1>5 DEF PushDrop
<1>6. CASE PushRegister
  BY <1>6 DEF PushRegister
<1>7. CASE PushRelease
  BY <1>7 DEF PushRelease
<1>8. CASE PushWake
  BY <1>8 DEF PushWake
<1>9. CASE PushCopy
  BY <1>9 DEF PushCopy
<1>10. CASE PushLen
  BY <1>10 DEF PushLen
<1>11. CASE PushAdvance
  BY ModIsNext, <1>11 DEF PushAdvance, NextSlot
<1>12. CASE PushSignal
  BY <1>12 DEF PushSignal, Signalled
<1>13. CASE PushUnlock
  BY <1>13 DEF PushUnlock
<1>14. CASE PullLock
  BY <1>14 DEF PullLock
<1>15. CASE PullTest
  BY <1>15 DEF PullTest
<1>16. CASE PullDrop
  BY <1>16 DEF PullDrop
<1>17. CASE PullRegister
  BY <1>17 DEF PullRegister
<1>18. CASE PullRelease
  BY <1>18 DEF PullRelease
<1>19. CASE PullWake
  BY <1>19 DEF PullWake
<1>20. CASE PullCopy
  BY <1>20 DEF PullCopy
<1>21. CASE PullLen
  BY <1>21 DEF PullLen
<1>22. CASE PullAdvance
  BY ModIsNext, <1>22 DEF PullAdvance, NextSlot, Whole
<1>23. CASE PullSignal
  BY <1>23 DEF PullSignal, Signalled
<1>24. CASE PullUnlock
  BY <1>24 DEF PullUnlock
<1>25. CASE Process
  BY <1>25 DEF Process
<1>26. CASE SpuriousWake
  BY <1>26 DEF SpuriousWake
<1>27. CASE UNCHANGED vars
  BY <1>27 DEF vars
<1> QED
  BY <1>1, <1>2, <1>3, <1>4, <1>5, <1>6, <1>7, <1>8, <1>9, <1>10, <1>11, <1>12, <1>13, <1>14, <1>15, <1>16, <1>17, <1>18, <1>19, <1>20, <1>21, <1>22, <1>23, <1>24, <1>25, <1>26, <1>27 DEF Next, Push, Pull

\* Every state of the program is well typed: in particular both indices stay
\* inside the ring whatever the interleaving, so no access leaves the arrays.
THEOREM TypeCorrect == Spec => []TypeOK
  BY TypeInit, TypeStep, PTL DEF Spec

-----------------------------------------------------------------------------
(* The invariant of the ring *)

LEMMA StoredBound == TypeOK => Stored \in Slots /\ Len(handled) \in Nat
  BY PackCacheAssumption DEF TypeOK, Stored, Slots

LEMMA RingInit == Init => RingInv
<1> SUFFICES ASSUME Init PROVE RingInv
  OBVIOUS
<1> USE PackCacheAssumption DEF Init
<1>1. MutualExclusion /\ WaitersWait /\ SlotInHand
  BY DEF MutualExclusion, WaitersWait, SlotInHand, Critical
<1>2. Stored = 0 /\ Len(handled) = 0
  BY DEF Stored
<1>3. RingUsable /\ RingContents
  BY <1>2 DEF RingUsable, RingContents, Age, Slots
<1>4. Conserved /\ InOrder
  BY <1>2 DEF Conserved, InOrder, InHand
<1> QED
  BY <1>1, <1>3, <1>4 DEF RingInv

\* A step that leaves the ring and the frames handed over alone leaves alone all
\* that is said of them.
LEMMA RingUntouched ==
  ASSUME UNCHANGED ring, UNCHANGED handled
  PROVE  /\ Full' = Full /\ Empty' = Empty /\ Stored' = Stored
         /\ RingContents => RingContents'
         /\ InOrder => InOrder'
<1> USE DEF ring
<1>1. Full' = Full /\ Empty' = Empty /\ Stored' = Stored
  BY DEF Full, Empty, Stored
<1>2. \A s \in Slots : Age(s)' = Age(s)
  BY DEF Age
<1>3. RingContents => RingContents'
  BY <1>1, <1>2 DEF RingContents
<1>4. InOrder => InOrder'
  BY DEF InOrder
<1> QED
  BY <1>1, <1>3, <1>4

\* The steps that leave the ring, and what was taken from it, alone.
ControlPush == \/ RecvFrame \/ RecvError \/ PushLock \/ PushTest \/ PushDrop
               \/ PushRegister \/ PushRelease \/ PushWake \/ PushSignal
               \/ PushUnlock
ControlPull == \/ PullLock \/ PullTest \/ PullDrop \/ PullRegister
               \/ PullRelease \/ PullWake \/ PullSignal \/ PullUnlock \/ Process

LEMMA ControlPushStep ==
  ASSUME TypeOK, RingInv, intact, intact', ControlPush
  PROVE  RingInv'
<1> USE DEF ControlPush, RecvFrame, RecvError, PushLock, PushTest, PushDrop,
            PushRegister, PushRelease, PushWake, PushSignal, PushUnlock, outcome
<1>1. UNCHANGED <<ring, handled, handle, j, got>>
  BY DEF ring
<1>2. /\ RingContents' /\ InOrder'
      /\ Full' = Full /\ Empty' = Empty /\ Stored' = Stored
  BY <1>1, RingUntouched DEF RingInv
<1>3. MutualExclusion'
  BY DEF RingInv, MutualExclusion, Critical, TypeOK
<1>4. WaitersWait'
  BY DEF RingInv, WaitersWait, Signalled
<1>5. RingUsable'
  BY <1>1, <1>2 DEF RingInv, RingUsable, MutualExclusion, WaitersWait, Critical, Signalled
<1>6. SlotInHand'
  BY <1>1 DEF RingInv, SlotInHand, ring
<1>7. Conserved'
  <2>1. \/ arrived' = arrived + 1 /\ InHand = 0 /\ InHand' = 1
        \/ arrived' = arrived /\ InHand' = InHand
    BY DEF InHand
  <2>2. arrived = Len(handled) + Stored + InHand
    BY DEF RingInv, Conserved
  <2>3. Stored \in Nat /\ Len(handled) \in Nat /\ InHand \in Nat
    BY StoredBound DEF Slots, InHand
  <2>4. handled' = handled /\ Stored' = Stored
    BY <1>1, <1>2
  <2> QED
    BY <2>1, <2>2, <2>3, <2>4 DEF Conserved
<1> QED
  BY <1>2, <1>3, <1>4, <1>5, <1>6, <1>7 DEF RingInv
LEMMA ControlPullStep ==
  ASSUME TypeOK, RingInv, intact, intact', ControlPull
  PROVE  RingInv'
<1> USE DEF ControlPull, PullLock, PullTest, PullDrop, PullRegister, PullRelease,
            PullWake, PullSignal, PullUnlock, Process, outcome
<1>1. UNCHANGED <<ring, handled, listen, arrived, got>>
  OBVIOUS
<1>2. /\ RingContents' /\ InOrder'
      /\ Full' = Full /\ Empty' = Empty /\ Stored' = Stored
  BY <1>1, RingUntouched DEF RingInv
<1>3. MutualExclusion'
  BY DEF RingInv, MutualExclusion, Critical, TypeOK
<1>4. WaitersWait'
  BY DEF RingInv, WaitersWait, Signalled
<1>5. RingUsable'
  BY <1>1, <1>2 DEF RingInv, RingUsable, MutualExclusion, WaitersWait, Critical,
                    Signalled
<1>6. SlotInHand'
  BY <1>1 DEF RingInv, SlotInHand, ring
<1>7. Conserved'
  BY <1>1, <1>2 DEF RingInv, Conserved, InHand
<1> QED
  BY <1>2, <1>3, <1>4, <1>5, <1>6, <1>7 DEF RingInv

\* The copy goes to the slot just beyond the stored ones, which nobody reads.
LEMMA PushCopyStep ==
  ASSUME TypeOK, RingInv, PushCopy \/ PushLen
  PROVE  RingInv'
<1> USE DEF PushCopy, PushLen, outcome
<1>1. UNCHANGED <<i, j, handled, handle, arrived, got, mutex, notempty, notfull>>
  OBVIOUS
<1>2. Full' = Full /\ Empty' = Empty /\ Stored' = Stored
  BY <1>1 DEF Full, Empty, Stored
<1>3. Age(i) = Stored
  BY PackCacheAssumption DEF TypeOK, Slots, Age, Stored
<1>4. RingContents'
  <2>1. \A s \in Slots : Age(s)' = Age(s)
    BY <1>1 DEF Age
  <2>2. \A s \in Slots : Age(s) < Stored => s # i
    BY <1>3, StoredBound DEF Slots
  <2>3. \A s \in Slots : s # i => buffer'[s] = buffer[s] /\ len'[s] = len[s]
    BY DEF TypeOK
  <2> QED
    BY <1>1, <1>2, <2>1, <2>2, <2>3 DEF RingInv, RingContents
<1>5. MutualExclusion' /\ WaitersWait'
  BY <1>1 DEF RingInv, MutualExclusion, WaitersWait, Critical
<1>6. RingUsable'
  BY <1>1, <1>2 DEF RingInv, RingUsable
<1>7. SlotInHand'
  BY <1>1 DEF RingInv, SlotInHand, TypeOK
<1>8. Conserved' /\ InOrder'
  BY <1>1, <1>2 DEF RingInv, Conserved, InHand, InOrder
<1> QED
  BY <1>4, <1>5, <1>6, <1>7, <1>8 DEF RingInv

\* What is read out of the oldest slot is the next frame due.
LEMMA PullCopyStep ==
  ASSUME TypeOK, RingInv, PullCopy \/ PullLen
  PROVE  RingInv'
<1> USE DEF PullCopy, PullLen
<1>1. UNCHANGED <<ring, handled, listen, arrived, mutex, notempty, notfull>>
  OBVIOUS
<1>2. /\ RingContents' /\ InOrder'
      /\ Full' = Full /\ Empty' = Empty /\ Stored' = Stored
  BY <1>1, RingUntouched DEF RingInv
<1>3. buffer[j] = Len(handled) + 1 /\ len[j] = Len(handled) + 1
  <2>1. Age(j) = 0 /\ Stored > 0
    BY PackCacheAssumption
    DEF TypeOK, RingInv, RingUsable, Empty, Slots, Age, Stored
  <2> QED
    BY <2>1, StoredBound DEF TypeOK, RingInv, RingContents
<1>4. SlotInHand'
  <2>1. listen' \in {"setlen", "advance"} => buffer'[i'] = arrived'
    BY <1>1 DEF RingInv, SlotInHand, ring
  <2>2. listen' = "advance" => len'[i'] = arrived'
    BY <1>1 DEF RingInv, SlotInHand, ring
  <2>3. got'.data = Len(handled) + 1 /\ got'.copied = Len(handled) + 1
    BY <1>3 DEF RingInv, SlotInHand, TypeOK
  <2>4. handle' = "advance" => got'.n_read = Len(handled) + 1
    BY <1>3 DEF TypeOK
  <2> QED
    BY <1>1, <2>1, <2>2, <2>3, <2>4 DEF SlotInHand
<1>5. MutualExclusion' /\ WaitersWait'
  BY <1>1 DEF RingInv, MutualExclusion, WaitersWait, Critical
<1>6. RingUsable'
  BY <1>1, <1>2 DEF RingInv, RingUsable
<1>7. Conserved'
  BY <1>1, <1>2 DEF RingInv, Conserved, InHand
<1> QED
  BY <1>2, <1>4, <1>5, <1>6, <1>7 DEF RingInv

\* The frame just written becomes the youngest stored one.
LEMMA PushAdvanceStep ==
  ASSUME TypeOK, RingInv, PushAdvance
  PROVE  RingInv'
<1> USE DEF PushAdvance, outcome
<1>1. UNCHANGED <<j, buffer, len, handled, handle, arrived, got, mutex, notempty,
                  notfull>>
  OBVIOUS
<1>2. i \in Slots /\ j \in Slots /\ ~Full /\ i' = NextSlot(i)
  BY ModIsNext DEF TypeOK, RingInv, RingUsable
<1>3. /\ Stored' = Stored + 1 /\ i' # j' /\ Age(i) = Stored
      /\ \A s \in Slots : Age(s)' = Age(s) /\ (Age(s) = Stored => s = i)
  BY <1>1, <1>2, StoreOne
<1>4. arrived = Len(handled) + Stored + 1 /\ arrived' = arrived
  BY DEF RingInv, Conserved, InHand
<1>5. Stored \in Nat /\ Len(handled) \in Nat
  BY StoredBound DEF Slots
<1>6. RingContents'
  <2> SUFFICES ASSUME NEW s \in Slots, Age(s)' < Stored'
               PROVE  /\ buffer[s] = Len(handled) + 1 + Age(s)
                      /\ len[s] = Len(handled) + 1 + Age(s)
    BY <1>1, <1>3 DEF RingContents
  <2>1. CASE s = i
    BY <1>3, <1>4, <1>5, <2>1 DEF RingInv, SlotInHand
  <2>2. CASE s # i
    <3>1. Age(s) \in Nat
      BY PackCacheAssumption, <1>2 DEF Age, Slots
    <3>2. Age(s) < Stored
      BY <1>3, <1>5, <2>2, <3>1
    <3> QED
      BY <3>2 DEF RingInv, RingContents
  <2> QED
    BY <2>1, <2>2
<1>7. MutualExclusion' /\ WaitersWait'
  BY <1>1 DEF RingInv, MutualExclusion, WaitersWait, Critical
<1>8. RingUsable'
  BY <1>1, <1>3 DEF RingInv, RingUsable, MutualExclusion, WaitersWait, Critical, Empty
<1>9. SlotInHand'
  BY <1>1 DEF RingInv, SlotInHand, MutualExclusion, Critical
<1>10. Conserved'
  BY <1>1, <1>3, <1>4, <1>5 DEF Conserved, InHand
<1>11. InOrder'
  BY <1>1 DEF RingInv, InOrder
<1> QED
  BY <1>6, <1>7, <1>8, <1>9, <1>10, <1>11 DEF RingInv

\* The frame handed over is the next one due, and its slot is free again.
LEMMA PullAdvanceStep ==
  ASSUME TypeOK, RingInv, PullAdvance
  PROVE  RingInv'
<1> USE DEF PullAdvance
<1>1. UNCHANGED <<i, buffer, len, listen, arrived, got, mutex, notempty, notfull>>
  OBVIOUS
<1>2. i \in Slots /\ j \in Slots /\ ~Empty /\ j' = NextSlot(j)
  BY ModIsNext DEF TypeOK, RingInv, RingUsable
<1>3. /\ Stored' = Stored - 1 /\ Stored > 0 /\ NextSlot(i') # j'
      /\ \A s \in Slots : Age(s)' < Stored' =>
           s # j /\ Age(s)' = Age(s) - 1 /\ Age(s) < Stored
  BY <1>1, <1>2, TakeOne
<1>4. Stored \in Nat /\ Len(handled) \in Nat
  BY StoredBound DEF Slots
<1>5. handled' = Append(handled, Len(handled) + 1)
  BY DEF RingInv, SlotInHand, Whole
<1>6. Len(handled') = Len(handled) + 1
  BY <1>5 DEF TypeOK
<1>7. RingContents'
  <2> SUFFICES ASSUME NEW s \in Slots, Age(s)' < Stored'
               PROVE  /\ buffer[s] = Len(handled') + 1 + Age(s)'
                      /\ len[s] = Len(handled') + 1 + Age(s)'
    BY <1>1 DEF RingContents
  <2>1. Age(s) \in Nat
    BY PackCacheAssumption, <1>2 DEF Age, Slots
  <2> QED
    BY <1>3, <1>4, <1>6, <2>1 DEF RingInv, RingContents
<1>8. MutualExclusion' /\ WaitersWait'
  BY <1>1 DEF RingInv, MutualExclusion, WaitersWait, Critical
<1>9. RingUsable'
  <2>1. ~Full'
    BY <1>1, <1>2, <1>3, ModIsNext DEF Full
  <2> QED
    BY <1>1, <2>1 DEF RingInv, RingUsable, MutualExclusion, WaitersWait, Critical
<1>10. SlotInHand'
  BY <1>1 DEF RingInv, SlotInHand
<1>11. Conserved'
  BY <1>1, <1>3, <1>4, <1>6 DEF RingInv, Conserved, InHand
<1>12. InOrder'
  BY <1>4, <1>5, <1>6 DEF RingInv, InOrder, TypeOK
<1> QED
  BY <1>7, <1>8, <1>9, <1>10, <1>11, <1>12 DEF RingInv

\* The steps on the ring keep the locking intact, and nothing restores it.
LEMMA IntactStays == TypeOK /\ [Next]_vars /\ intact' => intact
  BY DEF TypeOK, Next, Push, Pull, vars, SpuriousWake, RecvFrame, RecvError,
         PushLock, PushTest, PushDrop, PushRegister, PushRelease, PushWake,
         PushCopy, PushLen, PushAdvance, PushSignal, PushUnlock, PullLock,
         PullTest, PullDrop, PullRegister, PullRelease, PullWake, PullCopy,
         PullLen, PullAdvance, PullSignal, PullUnlock, Process, outcome

LEMMA RingStep ==
  ASSUME TypeOK, RingInv, [Next]_vars, intact, intact'
  PROVE  RingInv'
<1>1. CASE ControlPush
  BY <1>1, ControlPushStep
<1>2. CASE ControlPull
  BY <1>2, ControlPullStep
<1>3. CASE PushCopy \/ PushLen
  BY <1>3, PushCopyStep
<1>4. CASE PullCopy \/ PullLen
  BY <1>4, PullCopyStep
<1>5. CASE PushAdvance
  BY <1>5, PushAdvanceStep
<1>6. CASE PullAdvance
  BY <1>6, PullAdvanceStep
<1>7. CASE SpuriousWake
  BY <1>7 DEF SpuriousWake
<1>8. CASE UNCHANGED vars
  <2> USE <1>8 DEF vars
  <2>1. RingContents' /\ InOrder' /\ UNCHANGED <<Full, Empty, Stored>>
    BY RingUntouched DEF ring, RingInv
  <2>2. MutualExclusion' /\ WaitersWait' /\ SlotInHand'
    BY DEF RingInv, MutualExclusion, WaitersWait, SlotInHand
  <2>3. RingUsable' /\ Conserved'
    BY <2>1 DEF RingInv, RingUsable, Conserved, InHand
  <2> QED
    BY <2>1, <2>2, <2>3 DEF RingInv
<1> QED
  BY <1>1, <1>2, <1>3, <1>4, <1>5, <1>6, <1>7, <1>8
  DEF Next, Push, Pull, ControlPush, ControlPull

LEMMA Invariance == Spec => []IInv
<1>1. Init => IInv
  BY TypeInit, RingInit DEF IInv
<1>2. IInv /\ [Next]_vars => IInv'
  BY TypeStep, IntactStays, RingStep DEF IInv
<1> QED
  BY <1>1, <1>2, PTL DEF Spec

-----------------------------------------------------------------------------
(* The theorems *)

\* The threads exclude each other from the ring until a wait sets the other one's mutex
\* free, although each of them gives the mutex back before it waits.
THEOREM MutexExcludes == Spec => [](intact => ~ (listen \in Critical /\ handle \in Critical))
<1>1. IInv => (intact => ~ (listen \in Critical /\ handle \in Critical))
  BY DEF IInv, RingInv, MutualExclusion
<1> QED
  BY Invariance, <1>1, PTL

\* Until the locking is lost no thread is woken to a ring it cannot use, for any
\* ring and any traffic: neither function needs to test the ring again after its
\* wait as long as the waits return on signals alone.
THEOREM WakeUpsUsable == Spec => []WokenToUsableRing
<1>1. IInv => WokenToUsableRing
  BY DEF IInv, RingInv, RingUsable, WokenToUsableRing
<1> QED
  BY Invariance, <1>1, PTL

\* Until the locking is lost pull_from_buf hands over frames 1, 2, 3, ... whole.
THEOREM OrderKept == Spec => []HandledInOrder
<1>1. IInv => HandledInOrder
  BY DEF IInv, RingInv, InOrder, HandledInOrder
<1> QED
  BY Invariance, <1>1, PTL

\* Until the locking is lost every frame received is handed over, stored or in
\* the listener's hand.
THEOREM NoFrameLost == Spec => []FramesConserved
<1>1. IInv => FramesConserved
  BY DEF IInv, RingInv, Conserved, FramesConserved
<1> QED
  BY Invariance, <1>1, PTL

-----------------------------------------------------------------------------
(* The ring implements the queue *)

LEMMA ModWraps ==
  \A m \in 0 .. 2 * PACKET_CACHE - 1 :
    m % PACKET_CACHE = IF m < PACKET_CACHE THEN m ELSE m - PACKET_CACHE
BY PackCacheAssumption

LEMMA OldestFirst ==
  ASSUME TypeOK
  PROVE  \A k \in 1 .. Stored :
           (j + k - 1) % PACKET_CACHE \in Slots /\ Age((j + k - 1) % PACKET_CACHE) = k - 1
<1> SUFFICES ASSUME NEW k \in 1 .. Stored
             PROVE  /\ (j + k - 1) % PACKET_CACHE \in Slots
                    /\ Age((j + k - 1) % PACKET_CACHE) = k - 1
  OBVIOUS
<1> DEFINE m == j + k - 1
<1> DEFINE s == IF m < PACKET_CACHE THEN m ELSE m - PACKET_CACHE
<1>1. s \in Slots /\ Age(s) = k - 1
  BY PackCacheAssumption, StoredBound DEF TypeOK, Slots, Age
<1>2. m \in 0 .. 2 * PACKET_CACHE - 1
  BY PackCacheAssumption, StoredBound DEF TypeOK, Slots
<1>3. m % PACKET_CACHE = s
  <2> HIDE DEF m
  <2> QED
    BY <1>2, ModWraps
<1> QED
  BY <1>1, <1>3

\* The frames due: the next n after those handed over.
Due(n) == [k \in 1 .. n |-> Len(handled) + k]

LEMMA StoredAreDue ==
  IInv /\ intact => StoredFrames = Due(Stored)
<1> SUFFICES ASSUME IInv, intact PROVE StoredFrames = Due(Stored)
  OBVIOUS
<1>1. TypeOK /\ RingContents /\ Stored \in Nat /\ Len(handled) \in Nat
  BY StoredBound DEF IInv, RingInv, Slots
<1> SUFFICES ASSUME NEW k \in 1 .. Stored
             PROVE  LET s == (j + k - 1) % PACKET_CACHE
                    IN  (IF buffer[s] = len[s] THEN buffer[s] ELSE 0) = Len(handled) + k
  BY DEF StoredFrames, Due
<1>2. (j + k - 1) % PACKET_CACHE \in Slots /\ Age((j + k - 1) % PACKET_CACHE) = k - 1
  BY <1>1, OldestFirst
<1> QED
  BY <1>1, <1>2 DEF RingContents

LEMMA DueGrows ==
  ASSUME NEW n \in Nat, handled \in Seq(Nat)
  PROVE  /\ Due(n) \in Seq(Nat) /\ Len(Due(n)) = n
         /\ Due(n + 1) = Append(Due(n), Len(handled) + n + 1)
  BY DEF Due

LEMMA DueShrinks ==
  ASSUME NEW n \in Nat, n > 0, handled \in Seq(Nat)
  PROVE  /\ Due(n) # <<>> /\ Head(Due(n)) = Len(handled) + 1
         /\ Tail(Due(n)) = [k \in 1 .. n - 1 |-> Len(handled) + 1 + k]
<1> DEFINE s == Due(n)
<1>1. s \in Seq(Nat) /\ Len(s) = n /\ s[1] = Len(handled) + 1
  BY DEF Due
<1>2. s # <<>> /\ Head(s) = Len(handled) + 1
  BY <1>1
<1>3. \A k \in 1 .. n - 1 : s[k + 1] = Len(handled) + 1 + k
  BY DEF Due
<1>4. /\ Tail(s) \in Seq(Nat) /\ Len(Tail(s)) = n - 1
      /\ \A k \in 1 .. n - 1 : Tail(s)[k] = Len(handled) + 1 + k
  <2> HIDE DEF s
  <2> QED
    BY <1>1, <1>2, <1>3, HeadTailProperties
<1>5. Tail(s) = [k \in 1 .. n - 1 |-> Len(handled) + 1 + k]
  <2> DEFINE t == Tail(s)
  <2>1. t = [k \in 1 .. Len(t) |-> t[k]]
    <3> HIDE DEF t
    <3>1. t \in Seq(Nat)
      BY <1>4 DEF t
    <3> QED
      BY <3>1, LenProperties
  <2> HIDE DEF s
  <2> QED
    BY <1>4, <2>1
<1> QED
  BY <1>2, <1>5

LEMMA FifoInit == Init => Fifo!Init
<1> SUFFICES ASSUME Init PROVE StoredFrames = <<>> /\ handled = <<>>
  BY DEF Fifo!Init
<1>1. Stored = 0 /\ handled = <<>>
  BY DEF Init, Stored
<1> QED
  BY <1>1 DEF StoredFrames

\* A step moves one of the two indices, storing or handing over one frame, or
\* leaves the queue alone.
LEMMA FifoStep ==
  ASSUME IInv, [Next]_vars, intact'
  PROVE  Fifo!Next \/ UNCHANGED <<StoredFrames, handled>>
<1>1. intact /\ TypeOK /\ RingInv /\ IInv'
  BY IntactStays, TypeStep, RingStep DEF IInv
<1>2. StoredFrames = Due(Stored) /\ StoredFrames' = Due(Stored)'
  <2>1. (IInv /\ intact => StoredFrames = Due(Stored))'
    BY StoredAreDue, PTL
  <2> QED
    BY <1>1, <2>1, StoredAreDue
<1>3. Stored \in Nat /\ handled \in Seq(Nat)
  BY <1>1, StoredBound DEF Slots, TypeOK
<1>4. CASE PushAdvance
  <2>1. /\ i \in Slots /\ j \in Slots /\ ~Full
        /\ i' = NextSlot(i) /\ j' = j /\ handled' = handled
    BY <1>1, <1>4, ModIsNext
    DEF PushAdvance, TypeOK, RingInv, RingUsable, outcome
  <2>2. Stored' = Stored + 1
    BY <2>1, StoreOne
  <2>3. Stored < PACKET_CACHE - 1
    BY <2>1, ModIsNext, PackCacheAssumption DEF Full, NextSlot, Stored, Slots
  <2>4. Due(Stored)' = Due(Stored + 1)
    BY <2>1, <2>2 DEF Due
  <2>5. Fifo!Put
    BY <1>2, <1>3, <2>1, <2>3, <2>4, DueGrows DEF Fifo!Put
  <2> QED
    BY <2>5 DEF Fifo!Next
<1>5. CASE PullAdvance
  <2>1. Stored' = Stored - 1 /\ Stored > 0
    BY <1>1, <1>5, ModIsNext, TakeOne DEF PullAdvance, TypeOK, RingInv, RingUsable
  <2>2. handled' = Append(handled, Len(handled) + 1)
    BY <1>1, <1>5 DEF PullAdvance, RingInv, SlotInHand, Whole
  <2>3. Due(Stored)' = [k \in 1 .. Stored - 1 |-> Len(handled) + 1 + k]
    BY <1>3, <2>1, <2>2 DEF Due
  <2>4. Fifo!Take
    BY <1>2, <1>3, <2>1, <2>2, <2>3, DueShrinks DEF Fifo!Take
  <2> QED
    BY <2>4 DEF Fifo!Next
<1>6. CASE UNCHANGED <<Stored, handled>>
  BY <1>2, <1>6 DEF Due
<1>7. \/ PushAdvance \/ PullAdvance \/ UNCHANGED <<Stored, handled>>
  <2>1. \/ PushAdvance \/ PullAdvance \/ UNCHANGED <<i, j, handled>>
    BY DEF Next, Push, Pull, vars, SpuriousWake, RecvFrame, RecvError, PushLock,
           PushTest, PushDrop, PushRegister, PushRelease, PushWake, PushCopy,
           PushLen, PushSignal, PushUnlock, PullLock, PullTest, PullDrop,
           PullRegister, PullRelease, PullWake, PullCopy, PullLen, PullSignal,
           PullUnlock, Process, outcome, ring
  <2> QED
    BY <2>1 DEF Stored
<1> QED
  BY <1>4, <1>5, <1>6, <1>7

\* The ring implements the queue of FrameFifo, for any size of the ring, until
\* the locking is lost.
THEOREM RingIsFifo == Spec => FifoWhileIntact
<1>1. Init => Fifo!Init
  BY FifoInit
<1>2. IInv /\ [Next]_vars
        => [intact' => Fifo!Next \/ UNCHANGED <<StoredFrames, handled>>]_vars
  BY FifoStep
<1> QED
  BY <1>1, <1>2, Invariance, PTL DEF Spec, FifoWhileIntact

-----------------------------------------------------------------------------
(* With the locking lost *)

\* Nothing is in the ring, or on its way out of it, that did not arrive.
OnlyArrivals ==
  /\ \A s \in Slots : buffer[s] <= arrived /\ len[s] <= arrived
  /\ got.data <= arrived
  /\ \A k \in 1 .. Len(handled) : handled[k] <= arrived

LEMMA ArrivalsInit == Init => OnlyArrivals
  BY PackCacheAssumption DEF Init, OnlyArrivals

LEMMA ArrivalsStep == TypeOK /\ OnlyArrivals /\ [Next]_vars => OnlyArrivals'
<1> SUFFICES ASSUME TypeOK, OnlyArrivals, [Next]_vars PROVE OnlyArrivals'
  OBVIOUS
<1>1. /\ arrived \in Nat /\ i \in Slots /\ j \in Slots /\ handled \in Seq(Nat)
      /\ buffer \in [Slots -> Nat] /\ len \in [Slots -> Nat]
      /\ got \in [data : Nat, copied : Nat, n_read : Nat]
  BY DEF TypeOK
<1>2. CASE RecvFrame
  <2>1. arrived' = arrived + 1 /\ UNCHANGED <<buffer, len, got, handled>>
    BY <1>2 DEF RecvFrame, ring, outcome
  <2>2. \A n \in Nat : n <= arrived => n <= arrived'
    BY <1>1, <2>1
  <2> QED
    BY <1>1, <2>1, <2>2 DEF OnlyArrivals
<1>3. CASE PushCopy
  BY <1>1, <1>3 DEF PushCopy, OnlyArrivals, outcome
<1>4. CASE PushLen
  BY <1>1, <1>4 DEF PushLen, OnlyArrivals, outcome
<1>5. CASE PullCopy
  BY <1>1, <1>5 DEF PullCopy, OnlyArrivals, ring
<1>6. CASE PullLen
  BY <1>1, <1>6 DEF PullLen, OnlyArrivals, ring
<1>7. CASE PullAdvance
  <2>1. Whole(got) \in Nat /\ Whole(got) <= arrived
    BY <1>1 DEF Whole, OnlyArrivals
  <2>2. handled' = Append(handled, Whole(got)) /\ UNCHANGED <<buffer, len, got, arrived>>
    BY <1>7 DEF PullAdvance
  <2>3. \A k \in 1 .. Len(handled') :
          handled'[k] = Whole(got) \/ (k \in 1 .. Len(handled) /\ handled'[k] = handled[k])
    BY <1>1, <2>1, <2>2
  <2> QED
    BY <2>1, <2>2, <2>3 DEF OnlyArrivals
<1>8. CASE UNCHANGED <<buffer, len, arrived, got, handled>>
  BY <1>8 DEF OnlyArrivals
<1> QED
  BY <1>2, <1>3, <1>4, <1>5, <1>6, <1>7, <1>8 DEF Next, Push, Pull, RecvError, PushLock,
     PushTest, PushDrop, PushRegister, PushRelease, PushWake, PushAdvance, PushSignal,
     PushUnlock, PullLock, PullTest, PullDrop, PullRegister, PullRelease, PullWake,
     PullSignal, PullUnlock, Process, SpuriousWake, vars, ring, outcome

\* Also after the locking is lost the handler gets nothing but frames that have arrived
\* and pieces put together of several (0): late, again or not at all, but none the
\* network did not deliver.
THEOREM NoneMadeUp == Spec => [](\A k \in 1 .. Len(handled) : handled[k] \in 0 .. arrived)
<1>1. TypeOK /\ OnlyArrivals => \A k \in 1 .. Len(handled) : handled[k] \in 0 .. arrived
  BY DEF TypeOK, OnlyArrivals
<1> QED
  BY <1>1, TypeCorrect, ArrivalsInit, ArrivalsStep, PTL DEF Spec

\* If waits return only when they are signalled, two threads that both wait do so for
\* ever: each is the only one that could signal the other, and no frame is received.
THEOREM BothSleepForGood ==
  ASSUME ~SpuriousWakes
  PROVE  Spec => [](~NeverBothAsleep => []~NeverBothAsleep)
<1>1. ~NeverBothAsleep /\ [Next]_vars => (~NeverBothAsleep)'
  BY DEF NeverBothAsleep, ListenerAsleep, HandlerAsleep, Next, Push, Pull, RecvFrame,
     RecvError, PushLock, PushTest, PushDrop, PushRegister, PushRelease, PushWake, PushCopy,
     PushLen, PushAdvance, PushSignal, PushUnlock, PullLock, PullTest, PullDrop,
     PullRegister, PullRelease, PullWake, PullCopy, PullLen, PullAdvance, PullSignal,
     PullUnlock, Process, SpuriousWake, vars
<1> QED
  BY <1>1, PTL DEF Spec
=============================================================================
