----------------------------- MODULE PackCache -----------------------------
(***************************************************************************)
(* The packet cache of include/multithread.h: a ring of PACKET_CACHE slots *)
(* that listen_packet fills (push_to_buf) and handle_packet drains         *)
(* (pull_from_buf), with one mutex and two condition variables.            *)
(*                                                                         *)
(* Both functions give the mutex back BEFORE they call pthread_cond_wait,  *)
(* and test the ring with an if, not a while.  pthread_cond_wait on a      *)
(* mutex the caller does not hold is undefined by POSIX.  What the library *)
(* of the shipped binary does (NPTL, default mutex type, no owner check):  *)
(* the caller is put among the waiters, the mutex is set free whoever      *)
(* holds it, and on wake-up the mutex is acquired.  Registering and        *)
(* releasing are two steps here, which covers the libraries that do them   *)
(* in one.  mutex is therefore a flag and not an owner.                    *)
(*                                                                         *)
(* One action is one access to shared state, so the threads interleave     *)
(* inside the critical sections whenever the mutex lets them.              *)
(***************************************************************************)
EXTENDS Naturals, Sequences

CONSTANTS PACKET_CACHE,  \* slots of the ring (20 in the code)
          MaxFrames,     \* bound on the frames the network delivers
          SpuriousWakes  \* whether waits may return with no signal sent

ASSUME PackCacheAssumption ==
  /\ PACKET_CACHE \in Nat /\ PACKET_CACHE >= 2
  /\ MaxFrames \in Nat
  /\ SpuriousWakes \in BOOLEAN

VARIABLES
  i, j,          \* pack_cache.i (next slot to write), pack_cache.j (to read)
  buffer, len,   \* pack_cache.buffer, .len: the number of the frame whose
                 \* bytes / whose length the slot holds, 0 for none yet
  mutex,         \* pack_cache.lock is taken
  notempty,      \* the handler's standing with pack_cache.notempty and
  notfull,       \* the listener's with pack_cache.notfull
  listen,        \* where the thread listen_packet is
  handle,        \* where the thread handle_packet is
  arrived,       \* frames recvfrom has returned so far
  got,           \* handle_packet's buf and n_read, see PullCopy
  handled,       \* history: what each completed pull took out of the ring
  intact         \* history: no wait has yet set free a mutex the other thread
                 \* held, nor returned without a signal

ring    == <<i, j, buffer, len>>
outcome == <<got, handled>>
vars == <<i, j, buffer, len, mutex, notempty, notfull, listen, handle,
          arrived, got, handled, intact>>

Slots == 0 .. PACKET_CACHE - 1

Listening == {"recv", "lock", "test", "drop", "register", "release", "asleep",
              "copy", "setlen", "advance", "signal", "unlock", "exited"}
Handling  == {"lock", "test", "drop", "register", "release", "asleep",
              "copy", "setread", "advance", "signal", "unlock", "process"}
\* Between an acquisition of the mutex and the thread's own unlock.
Critical  == {"test", "drop", "copy", "setlen", "setread", "advance",
              "signal", "unlock"}
Standing  == {"idle", "waiting", "woken"}

TypeOK ==
  /\ i \in Slots /\ j \in Slots
  /\ buffer \in [Slots -> Nat] /\ len \in [Slots -> Nat]
  /\ mutex \in BOOLEAN
  /\ notempty \in Standing /\ notfull \in Standing
  /\ listen \in Listening /\ handle \in Handling
  /\ arrived \in Nat
  /\ got \in [data : Nat, copied : Nat, n_read : Nat]
  /\ handled \in Seq(Nat)
  /\ intact \in BOOLEAN

\* init_mutithread; pack_cache is a global, so its slots start zeroed.
Init ==
  /\ i = 0 /\ j = 0
  /\ buffer = [s \in Slots |-> 0] /\ len = [s \in Slots |-> 0]
  /\ mutex = FALSE
  /\ notempty = "idle" /\ notfull = "idle"
  /\ listen = "recv" /\ handle = "lock"
  /\ arrived = 0
  /\ got = [data |-> 0, copied |-> 0, n_read |-> 0]
  /\ handled = <<>>
  /\ intact = TRUE

\* Mutant: the index is compared before it wraps round.
UnwrappedFull == i + 1 = j

Full  == (i + 1) % PACKET_CACHE = j
Empty == i = j

\* pthread_cond_signal: it wakes the waiter if there is one, and is lost otherwise.
Signalled(standing) == IF standing = "waiting" THEN "woken" ELSE standing

-----------------------------------------------------------------------------
(* listen_packet and push_to_buf *)

RecvFrame ==
  /\ listen = "recv" /\ arrived < MaxFrames
  /\ arrived' = arrived + 1
  /\ listen' = "lock"
  /\ UNCHANGED <<ring, mutex, notempty, notfull, handle, outcome, intact>>

\* n_read < 42 (a short frame, or recvfrom failed): the thread returns for good.
RecvError ==
  /\ listen = "recv"
  /\ listen' = "exited"
  /\ UNCHANGED <<ring, mutex, notempty, notfull, handle, arrived, outcome, intact>>

PushLock ==
  /\ listen = "lock" /\ ~mutex
  /\ mutex' = TRUE
  /\ listen' = "test"
  /\ UNCHANGED <<ring, notempty, notfull, handle, arrived, outcome, intact>>

\* Mutant: a full ring is written over.
OverrunningPushTest ==
  /\ listen = "test"
  /\ listen' = "copy"
  /\ UNCHANGED <<ring, mutex, notempty, notfull, handle, arrived, outcome, intact>>

PushTest ==
  /\ listen = "test"
  /\ listen' = IF Full THEN "drop" ELSE "copy"
  /\ UNCHANGED <<ring, mutex, notempty, notfull, handle, arrived, outcome, intact>>

\* The unlock in front of pthread_cond_wait.
PushDrop ==
  /\ listen = "drop"
  /\ mutex' = FALSE
  /\ listen' = "register"
  /\ UNCHANGED <<ring, notempty, notfull, handle, arrived, outcome, intact>>

PushRegister ==
  /\ listen = "register"
  /\ notfull' = "waiting"
  /\ listen' = "release"
  /\ UNCHANGED <<ring, mutex, notempty, handle, arrived, outcome, intact>>

\* pthread_cond_wait releases the mutex, even if the handler holds it.
PushRelease ==
  /\ listen = "release"
  /\ mutex' = FALSE
  /\ intact' = (intact /\ handle \notin Critical)
  /\ listen' = "asleep"
  /\ UNCHANGED <<ring, notempty, notfull, handle, arrived, outcome>>

\* The wait returns with the mutex; Full is not tested again.
PushWake ==
  /\ listen = "asleep" /\ notfull = "woken" /\ ~mutex
  /\ mutex' = TRUE
  /\ notfull' = "idle"
  /\ listen' = "copy"
  /\ UNCHANGED <<ring, notempty, handle, arrived, outcome, intact>>

PushCopy ==
  /\ listen = "copy"
  /\ buffer' = [buffer EXCEPT ![i] = arrived]
  /\ listen' = "setlen"
  /\ UNCHANGED <<i, j, len, mutex, notempty, notfull, handle, arrived, outcome, intact>>

PushLen ==
  /\ listen = "setlen"
  /\ len' = [len EXCEPT ![i] = arrived]
  /\ listen' = "advance"
  /\ UNCHANGED <<i, j, buffer, mutex, notempty, notfull, handle, arrived, outcome, intact>>

\* Mutant: the index runs off the end of the ring.
UnwrappedPushAdvance ==
  /\ listen = "advance"
  /\ i' = i + 1
  /\ listen' = "signal"
  /\ UNCHANGED <<j, buffer, len, mutex, notempty, notfull, handle, arrived, outcome, intact>>

PushAdvance ==
  /\ listen = "advance"
  /\ i' = (i + 1) % PACKET_CACHE
  /\ listen' = "signal"
  /\ UNCHANGED <<j, buffer, len, mutex, notempty, notfull, handle, arrived, outcome, intact>>

\* Mutant: nobody is told of the new frame.
SilentPushSignal ==
  /\ listen = "signal"
  /\ listen' = "unlock"
  /\ UNCHANGED <<ring, mutex, notempty, notfull, handle, arrived, outcome, intact>>

PushSignal ==
  /\ listen = "signal"
  /\ notempty' = Signalled(notempty)
  /\ listen' = "unlock"
  /\ UNCHANGED <<ring, mutex, notfull, handle, arrived, outcome, intact>>

\* Mutant: push_to_buf returns with the mutex.
KeepingPushUnlock ==
  /\ listen = "unlock"
  /\ listen' = "recv"
  /\ UNCHANGED <<ring, mutex, notempty, notfull, handle, arrived, outcome, intact>>

PushUnlock ==
  /\ listen = "unlock"
  /\ mutex' = FALSE
  /\ listen' = "recv"
  /\ UNCHANGED <<ring, notempty, notfull, handle, arrived, outcome, intact>>

-----------------------------------------------------------------------------
(* handle_packet and pull_from_buf *)

PullLock ==
  /\ handle = "lock" /\ ~mutex
  /\ mutex' = TRUE
  /\ handle' = "test"
  /\ UNCHANGED <<ring, notempty, notfull, listen, arrived, outcome, intact>>

\* Mutant: an empty ring is read.
UnderrunningPullTest ==
  /\ handle = "test"
  /\ handle' = "copy"
  /\ UNCHANGED <<ring, mutex, notempty, notfull, listen, arrived, outcome, intact>>

PullTest ==
  /\ handle = "test"
  /\ handle' = IF Empty THEN "drop" ELSE "copy"
  /\ UNCHANGED <<ring, mutex, notempty, notfull, listen, arrived, outcome, intact>>

PullDrop ==
  /\ handle = "drop"
  /\ mutex' = FALSE
  /\ handle' = "register"
  /\ UNCHANGED <<ring, notempty, notfull, listen, arrived, outcome, intact>>

PullRegister ==
  /\ handle = "register"
  /\ notempty' = "waiting"
  /\ handle' = "release"
  /\ UNCHANGED <<ring, mutex, notfull, listen, arrived, outcome, intact>>

PullRelease ==
  /\ handle = "release"
  /\ mutex' = FALSE
  /\ intact' = (intact /\ listen \notin Critical)
  /\ handle' = "asleep"
  /\ UNCHANGED <<ring, notempty, notfull, listen, arrived, outcome>>

PullWake ==
  /\ handle = "asleep" /\ notempty = "woken" /\ ~mutex
  /\ mutex' = TRUE
  /\ notempty' = "idle"
  /\ handle' = "copy"
  /\ UNCHANGED <<ring, notfull, listen, arrived, outcome, intact>>

\* Mutant: notfull is signalled before the slot is given up.
EarlySignalPullCopy ==
  /\ handle = "copy"
  /\ got' = [got EXCEPT !.data = buffer[j], !.copied = len[j]]
  /\ notfull' = Signalled(notfull)
  /\ handle' = "setread"
  /\ UNCHANGED <<ring, mutex, notempty, listen, arrived, handled, intact>>

\* memcpy of len[j] bytes out of buffer[j].  The caller has a whole frame only
\* if the bytes, the number of bytes copied and n_read are those of one frame.
PullCopy ==
  /\ handle = "copy"
  /\ got' = [got EXCEPT !.data = buffer[j], !.copied = len[j]]
  /\ handle' = "setread"
  /\ UNCHANGED <<ring, mutex, notempty, notfull, listen, arrived, handled, intact>>

PullLen ==
  /\ handle = "setread"
  /\ got' = [got EXCEPT !.n_read = len[j]]
  /\ handle' = "advance"
  /\ UNCHANGED <<ring, mutex, notempty, notfull, listen, arrived, handled, intact>>

\* The number of the frame if all three readings are of one frame, 0 if not.
Whole(g) == IF g.data = g.copied /\ g.data = g.n_read THEN g.data ELSE 0

PullAdvance ==
  /\ handle = "advance"
  /\ j' = (j + 1) % PACKET_CACHE
  /\ handled' = Append(handled, Whole(got))
  /\ handle' = "signal"
  /\ UNCHANGED <<i, buffer, len, mutex, notempty, notfull, listen, arrived, got, intact>>

PullSignal ==
  /\ handle = "signal"
  /\ notfull' = Signalled(notfull)
  /\ handle' = "unlock"
  /\ UNCHANGED <<ring, mutex, notempty, listen, arrived, outcome, intact>>

\* Mutant: pull_from_buf returns with the mutex.
KeepingPullUnlock ==
  /\ handle = "unlock"
  /\ handle' = "process"
  /\ UNCHANGED <<ring, mutex, notempty, notfull, listen, arrived, outcome, intact>>

PullUnlock ==
  /\ handle = "unlock"
  /\ mutex' = FALSE
  /\ handle' = "process"
  /\ UNCHANGED <<ring, notempty, notfull, listen, arrived, outcome, intact>>

\* handle_packet is done with the frame and goes round its loop; what it does
\* with the frame touches nothing of the cache.
Process ==
  /\ handle = "process"
  /\ handle' = "lock"
  /\ UNCHANGED <<ring, mutex, notempty, notfull, listen, arrived, outcome, intact>>

-----------------------------------------------------------------------------

\* The listener's steps inside push_to_buf: it returns to recvfrom by itself.
Push == \/ PushLock \/ PushTest \/ PushDrop \/ PushRegister \/ PushRelease
        \/ PushWake \/ PushCopy \/ PushLen \/ PushAdvance \/ PushSignal
        \/ PushUnlock

\* The handler's loop.
Pull == \/ PullLock \/ PullTest \/ PullDrop \/ PullRegister \/ PullRelease
        \/ PullWake \/ PullCopy \/ PullLen \/ PullAdvance \/ PullSignal
        \/ PullUnlock \/ Process

\* POSIX lets pthread_cond_wait return with no signal sent.  One such return is
\* enough to lose the ring, so no second one is explored.
SpuriousWake ==
  /\ SpuriousWakes /\ intact
  /\ intact' = FALSE
  /\ \/ notfull = "waiting" /\ notfull' = "woken" /\ UNCHANGED notempty
     \/ notempty = "waiting" /\ notempty' = "woken" /\ UNCHANGED notfull
  /\ UNCHANGED <<ring, mutex, listen, handle, arrived, outcome>>

Next == RecvFrame \/ RecvError \/ Push \/ Pull \/ SpuriousWake

Spec == Init /\ [][Next]_vars

\* The kernel keeps scheduling a thread that can run.  Nothing is assumed of
\* the network, nor of who wins a contended mutex (weak, not strong fairness).
FairSpec == Spec /\ WF_vars(Push) /\ WF_vars(Pull)
=============================================================================
