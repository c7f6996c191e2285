------------------------ MODULE PackCacheProperties ------------------------
(***************************************************************************)
(* What the packet cache guarantees in spite of its broken locking, and    *)
(* what its messages say that it does not keep.                            *)
(***************************************************************************)
EXTENDS PackCache

\* The number of slots written and not yet read.
Stored == IF i >= j THEN i - j ELSE i + PACKET_CACHE - j

\* How far slot s is behind the next slot to be read.
Age(s) == IF s >= j THEN s - j ELSE s + PACKET_CACHE - j

\* Frames received that the ring does not hold yet.
InHand == IF listen \in {"recv", "signal", "unlock", "exited"} THEN 0 ELSE 1

ListenerAsleep == listen = "asleep" /\ notfull = "waiting"
HandlerAsleep  == handle = "asleep" /\ notempty = "waiting"

-----------------------------------------------------------------------------
(* Safety *)

\* As long as no wait has set the other thread's mutex free or returned
\* unsignalled, a thread is woken only to a ring it can use: the listener to a
\* free slot, the handler to a written one.  Neither function tests the ring
\* again after its wait, so a signal sent before the other thread used up what
\* it announces would end in an overrun.
WokenToUsableRing ==
  intact => /\ notfull = "woken" => ~Full
            /\ notempty = "woken" => ~Empty

\* As long as that is so, pull_from_buf hands over the frames in their order of
\* arrival, whole: none is skipped, repeated or torn, however often the threads
\* fell asleep and whichever signals went to nobody.
HandledInOrder == intact => \A k \in 1 .. Len(handled) : handled[k] = k

\* As long as that is so, no frame is lost: each one received was handed over,
\* or is stored, or is the one push_to_buf is placing.
FramesConserved == intact => arrived = Len(handled) + Stored + InHand

\* The frames in the ring, oldest first.
StoredFrames ==
  [k \in 1 .. Stored |->
     LET s == (j + k - 1) % PACKET_CACHE
     IN  IF buffer[s] = len[s] THEN buffer[s] ELSE 0]

Fifo == INSTANCE FrameFifo WITH Capacity <- PACKET_CACHE - 1,
                                queue <- StoredFrames

\* The ring read from j to i behaves as a first-in first-out queue of
\* PACKET_CACHE - 1 frames, each advance of i storing one and each advance of j
\* handing one over, up to the step that sets the other thread's mutex free.
FifoWhileIntact ==
  Fifo!Init /\ [][intact' => Fifo!Next \/ UNCHANGED <<StoredFrames, handled>>]_vars

-----------------------------------------------------------------------------
(* Liveness *)

\* A frame that arrives is handed over, unless the locking is lost or the handler
\* sleeps for ever with the frame behind it (its signal came too early).
HandledOrAsleep ==
  \A f \in 1 .. MaxFrames :
    arrived >= f ~> (Len(handled) >= f \/ ~intact \/ []HandlerAsleep)

\* The next frame to arrive rescues those left behind: if it comes while the
\* handler sleeps, everything up to it is handed over, unless the listener goes
\* to sleep as well.
NextFrameRescues ==
  \A f \in 1 .. MaxFrames :
    (HandlerAsleep /\ listen = "lock" /\ arrived = f)
      ~> (Len(handled) >= f \/ ListenerAsleep \/ ~intact)

\* However badly the waits tangle the lock, the mutex is always set free again.
MutexIsFreed == mutex ~> ~mutex

-----------------------------------------------------------------------------
(* What the code says of itself *)

\* push_to_buf reports "pack_cache buffer is full" of its wait and pull_from_buf
\* "pack_cache buffer is empty" of its own, and no ring is both.
NeverBothAsleep == ~ (ListenerAsleep /\ HandlerAsleep)
=============================================================================
