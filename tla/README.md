# TLA+ models of the user-space router (`src/route`)

The program is a small router that runs on raw Ethernet sockets: one thread
receives frames and stores them in a ring, another takes them out and handles
them, and a little TCP client inside the second thread opens a connection, says
`hello world` and closes. IP forwarding, a toy VPN, an ARP cache and a
System V message queue for "system calls" lie around that core.

This directory holds models of all of these parts but the printing: the packet
cache, the TCP client seen from the network and seen from the two threads that share
its state, the start-up, the IP layer, the ARP cache, the message queue and the
checksums; what TLC checks of them; and theorems about them that TLAPS proves.

## Contents

1. [The program](#1-the-program)
2. [Modules](#2-modules)
3. [The packet cache](#3-the-packet-cache)
4. [The TCP client](#4-the-tcp-client)
5. [Start-up and the IP layer](#5-start-up-and-the-ip-layer)
6. [ARP cache and wait buffer](#6-arp-cache-and-wait-buffer)
7. [System calls](#7-system-calls)
8. [Two threads on mylink](#8-two-threads-on-mylink)
9. [Checksums](#9-checksums)
10. [Runs and bounds](#10-runs-and-bounds)
11. [Fairness](#11-fairness)
12. [What is proved](#12-what-is-proved)
13. [Findings](#13-findings)
14. [What is not modelled](#14-what-is-not-modelled)
15. [What could follow](#15-what-could-follow)

## 1. The program

The sources modelled are `route.c`, `include/*.h`, `function/function_head.c`,
`tcp/tcp.c`, `message/message.c`, `essential/essential_data.c` and the separate
client program `mytest.c`. The C files directly under `src/route/` other than
`route.c` and `mytest.c`, the files ending in `~` and the objects are earlier
copies and build products; the Makefile does not name them. `readme` is a
development log.

Some headers exist twice, in `include/` and, in an older state, directly under
`src/route/`. The files in subdirectories take those in `include/`; `route.c` takes
in a fresh checkout the ones that lie beside it, since it includes them in quotes,
and that build does not link (the old `showicmp` calls `mysend1`, which no longer
exists). The shipped binary `test` and the shipped `route.o` were built from
`include/`, and so are the models. `multithread.h`, `typess.h` and `arp.h` are the same in
both places.

`main` (`route.c:325`) calls `initial` and starts two threads, `listen_packet`
and `handle_packet`, which never return in normal operation. Several functions
have no caller in the program as it stands: `mtsyscal` and everything behind it
(`constructsocket`, `myconnect`, `mysendtcp`, `closesocket`), `handle_arp`,
`ip_rec_process`, `tcp_unpack` and `route`. They are part of the design (the calls are there,
commented out), so they are in the inventory, and the models say which functions
the program runs.

| Component | State | Operations | Meets | What is hard | What makes it correct |
|---|---|---|---|---|---|
| Packet cache (`include/multithread.h`) | `pack_cache`: `i`, `j`, `buffer`, `len`, `lock`, `notempty`, `notfull` | `init_mutithread`, `push_to_buf`, `pull_from_buf` | both threads | the mutex is given back before the wait; the ring is tested once; signals reach only those who wait | frames come out whole, once, in order; no frame left behind; nobody asleep for good |
| Threads (`route.c`) | socket, local buffers | `listen_packet`, `handle_packet` | cache, TCP client | a short frame ends `listen_packet` | the handler sees every frame for this host |
| TCP client (`tcp/tcp.c`) | `mylink` | `tcp_initial`, `tcp_first_step`, `tcptest`; no live caller: `constructsocket`, `myconnect`, `mysendtcp`, `closesocket` | `handle_packet`, `ip_sed_process`, a server on the network | losses, repetitions, old frames handed over again, wrap-round, the order of the server's FIN and ours | the server reads the message once, both sides close |
| IP sending and forwarding (`function_head.c`, `header.h`) | a static `buff`; reads routes, devices, ARP | `ip_sed_process`, `ip_rec_process`, `ip_pack`, `reroute`, `getnetcard`; no caller: `route` | TCP client, VPN, ARP | results that say "not found" are ignored and an earlier value is used | a packet leaves on the device and to the neighbour its route names |
| VPN (`function_head.c`) | `vpn_route` | `repack_vpn`, `unpack_vpn`, `check_vpn_route`, `add_vpn_route` | IP sending | addresses compared by netmask; the outer header of an earlier packet | what one router wraps, the other unwraps to the same packet |
| ARP cache and wait buffer (`function_head.c`, `header.h`) | `arp_table`, `arp_item_index`, `arp_wait_*`, `arp_valid` | `search_arp_cache`, `add_arp_item`, `add_to_arp_wait_buffer`, `check_arp_wait_buffer`, `handle_arp`, `arp_request`, `arp_reply` | IP sending, the handler | ten slots; a scan that tests one slot and reads the next; growth without a bound | a waiting packet is sent once its neighbour answers, to that neighbour |
| Routing tables and devices (`header.h`, `essential_*`) | `route_info`, `device`, `socket_array`, `send_addr` | `initial_route`, `add_route`, `reroute`, `whether_inout` | everything that sends | netmask 0 of a device without address | the first route that fits and whose device exists |
| Start-up (`route.c`, `header.h`) | all tables | `initial`, `initial_device`, `initial_device_mac_getway`, `initial_vpn_device` | the kernel | early returns leave some devices half set up, and `main` goes on | every device used later was set up |
| Checksums and packing (`function_head.c`) | static buffers | `in_cksum`, `tcp_pack`, `tcp_unpack`, `ip_pack` | all headers | folding of carries, odd lengths, the checksum field itself | a packed header verifies |
| Message queue (`message.c`, `tcp.c`, `mytest.c`) | a System V queue | `mtsyscal`, `mytest`'s calls | TCP client | a failed receive executes the last call again | each call is executed once |
| Display | none | `show*`, `stdshow*` | | | |

`PROJECT.json` lists the same components with their status, and under `hazards`
every place in the code where something can go wrong that a test would hardly
reach, with the properties that would notice.

## 2. Modules

| Module | What it is |
|---|---|
| `FrameFifo` | abstract: a bounded first-in first-out queue of frames, what the packet cache promises |
| `PackCache` | the ring, `push_to_buf`, `pull_from_buf` and the two threads around them |
| `PackCacheProperties` | what the packet cache keeps and what its messages say it does not |
| `MCPackCache` | the same for TLC |
| `PackCacheProofs` | theorems about the packet cache |
| `OneMessage` | abstract: the far program reads one message, then the end of the stream |
| `Tcp` | the TCP client with a link and a server |
| `MCTcp` | its properties, for TLC |
| `TcpProofs` | theorems about the TCP client |
| `StartUp` | `initial`, the tables it writes and the calls to the kernel that may fail |
| `Forwarding` | the IP layer over those tables: hearing, sending, receiving, wrapping, unwrapping, waiting |
| `ForwardingProperties` | what the IP layer keeps and what comments say it does not |
| `MCForwarding` | the same for TLC |
| `ForwardingProofs` | theorems about the IP layer: what is wrapped, and when |
| `ForwardingHopProofs` | further theorems about it: where frames go |
| `ArpCache` | the ARP cache, the wait buffer, `handle_arp` and its scan |
| `ArpProperties` | what they keep and what the code says of them and they do not |
| `MCArp` | the same for TLC |
| `ArpProofs` | theorems about them |
| `CallQueue` | abstract: calls are executed once and in turn until the queue is removed |
| `SystemCalls` | the message queue, its clients and `mtsyscal` |
| `SystemCallsProperties` | what the clients get, and what `mtsyscal` says and does not keep |
| `MCSystemCalls` | the same for TLC, with three client programs |
| `SystemCallsProofs` | theorems about them |
| `MyLink` | the functions of `tcp.c` on `mylink` and the frame buffer, access by access, in two threads |
| `MyLinkProperties` | what `mylink` keeps without a lock |
| `MCMyLink` | the same for TLC |
| `MyLinkProofs` | theorems about it |
| `Checksum` | `in_cksum`, and the headers and segments it is put in and checked over |
| `ChecksumProperties` | what the checksums are worth |
| `MCChecksum` | the same for TLC, with octets of three values |
| `ChecksumProofs` | theorems about them |

Definitions whose comment begins with `Mutant:` are not part of a model. Each is
a definition of the model changed the way a plausible slip in the code would
change it; `PROJECT.json` names the property that notices.

## 3. The packet cache

`PackCache` has one action per access to shared state, named after the function
(`Push...`, `Pull...`) and the statement: `PushLock`, `PushTest`, `PushDrop` (the
unlock before the wait), `PushRegister`, `PushRelease`, `PushWake` (the three
parts of `pthread_cond_wait`), `PushCopy`, `PushLen`, `PushAdvance`, `PushSignal`,
`PushUnlock`, and likewise for `pull_from_buf`. `listen` and `handle` say where
each thread is. Frames are named by their order of arrival; `buffer` and `len`
hold, per slot, the frame its bytes and its length come from, so that a frame
that is torn, skipped or read twice is told from a whole one.

**The wait.** Both functions call `pthread_cond_wait` on a mutex they have just
unlocked, which POSIX leaves undefined. The model takes what the C library of a
GNU/Linux build does with a default mutex: the caller joins the waiters, the
mutex is set free *whoever holds it*, and the wait acquires it again when it is
signalled. Joining and releasing are separate steps, which covers a library that
does both in one. With `SpuriousWakes`, a wait may also return with no signal, as
POSIX allows. Each memcpy is one step; the copies of two threads over one slot
are told apart by the separate steps for the bytes, the length and the index.

**Correct up to a point.** The locking can fail, and then nothing holds. The
history variable `intact` turns false in the step in which a wait sets the other
thread's mutex free, or returns unsignalled. Up to that step the ring is right,
which is not evident: waits are entered without the mutex, signals may reach
nobody, and the ring is not tested again after a wait.

- `WokenToUsableRing`: nobody is woken to a ring it cannot use, so the missing
  second test does no harm.
- `HandledInOrder`: frames come out whole and in their order.
- `FramesConserved`: received = handed over + stored + the one in hand.
- `FifoWhileIntact`: the ring implements `FrameFifo` with capacity
  `PACKET_CACHE - 1`. The mapping reads the slots from `j` to `i`.
- `HandledOrAsleep`, `NextFrameRescues`, `MutexIsFreed`: what the threads get
  done, see section 11.

What the code says of itself and does not keep: `NeverBothAsleep` is violated, in a
run with `SpuriousWakes = FALSE`, so that it is the code's own order of calls that
violates it.

## 4. The TCP client

`Tcp` has one action per call: `TcpFirstStep` (`tcp_first_step`, which
`handle_packet` calls once before its loop) and `HandleSegment` (one round of the
loop that ends in `tcptest`). One call is one action because only the thread
`handle_packet` touches `mylink` in the program as it runs, and the three segments
the greeting sends leave in the order of the calls. `HandleStaleSegment` is what
the packet cache adds: a slot read again hands an old segment to `tcptest` once
more, any number of times. `seen` holds the segments the cache has held; a segment
may also get there without being handed over (`LoseToClient`), when the indices of
the ring pass over its slot, and be handed over much later or never.

A segment is its flags, its two numbers and its number of octets. Ports, window,
options and checksums are left out: `tcptest` compares none of them. What
`tcp_pack` does with its arguments is modelled as it is: it clears the header, so
the acknowledgement `rmtnum + 1` each caller has written there is lost, and the
argument `rmtnum` is sent. Numbers are modulo `SEQ`.

The server and the link are external and follow RFC 793: the server takes what
comes in order, acknowledges it, repeats what is not acknowledged, may say
something, and closes when it likes. The link keeps the order of the segments
(two hosts on one Ethernet) and may lose any. That the neighbour's address is
known is taken from `initial_route`, which enters it in the ARP cache.

- `AckNotAhead`: no acknowledgement of an octet not yet sent, also where the
  numbers wrap round.
- `CloseIsMutual`: a FIN is answered only when the server has closed and has read
  everything. `tcptest` decides it from one comparison, and a segment it sees may
  be arbitrarily old.
- `ReadsOneMessage`: the whole implements `OneMessage`.
- `HelloArrives`: losses on the way to the client are made up for by the server's
  timer. The client repeats nothing, so a loss of its own is the exception
  (`ourLoss`).

`PeerCloses` states what the code writes in the header before `tcp_pack` clears
it; it is violated.

## 5. Start-up and the IP layer

`StartUp` has one action per round of the loops of `initial`: `ListDevice`
(`initial_device`, a line of `/proc/net/dev`), `ReadDevice`
(`initial_device_mac_getway`), `AddVpnDevice` (`initial_vpn_device`) and `OpenSocket`
(the loop of `initial` itself). `ListEnds`, `ReadEnds` and `OpenEnds` end a loop, by
its condition or by an early return, and since the code goes on in the same way
after either they may come at any time. The routes, VPN routes and ARP entries
are the ones `initial_route` writes. An address is a network of 24 bits, which is what
the routes' and the VPN's netmasks leave of it, and a host on it. What netmask a
card has is the kernel's to say: `nets` is the set of the networks it takes in with
the card's address, one of `Netmasks`, or all of them for the 0 that
stands for a netmask not told. The three ioctls of `ReadDevice` fail each for itself:
without its hardware address the loop ends (`ReadEnds`), without its IP address or
its netmask a card goes on with 0 for it. `OpenSocket` does not look whether it got
the interface's index, and may bind the socket to any (`"stray"`); the hardware
address it asks for next is in no use after that. Device indices count from 1, so that
0 stands for the code's -1.

`Forwarding` EXTENDS `StartUp`. `TcpSends` is the TCP client's call of
`ip_sed_process`, the only one that runs in the program as shipped. `Receive` is
`ip_rec_process` on any packet in the clear or wrapped by another router; its call
is commented out (`route.c:308`), and the model puts it back, since it is what the
forwarding was written for and what `ip_sed_process` must work with. Both run in
the thread `handle_packet`, so each call is one action. A packet is the sequence of
its IP headers and a header its destination and whether it is the VPN's. `outer`
is what `ip_sed_process`'s static buffer holds at the place of the outer header
from one call to the next. `last` records what became of the last packet, for
the properties. Sources, lengths, checksums and the TTL (which neither function
changes) are left out.

Where `reroute` finds no route `ip_rec_process` reads `device[-1]`: the mark it finds
there is any, and the next hop is whatever its variable held (`Transit`, `Gateways`).
Frames are heard through `whether_inout`, which compares only the hardware address: a
broadcast, or one of the router's own. Places in the wait buffer are taken and never
freed, since nothing in the program calls `handle_arp`.

- `FarOnlyWrapped`: a packet for the network behind the VPN leaves wrapped or not
  at all. It relates three tables (routes, devices, VPN routes) to a start-up
  that may have stopped anywhere, and the decision is taken in two functions.
- `WrappedAfresh`: `ip_sed_process` does not look at the result of `repack_vpn`, which
  writes no header if no VPN route fits. The header of an earlier packet would
  then go out with this one. That this cannot happen rests on the route to
  the VPN device and the VPN route naming the same network.
- `LeavesByItsNetwork`: the card is looked up a second time after wrapping, with the
  index of the first search left in place if nothing is found; on a host set
  up as a whole (`Whole`) the frame leaves through an open socket on the network
  of its next hop, in whichever order the kernel listed the cards.
- `ClientReaches`: on such a host the TCP client's segments leave at once. This is
  what `Tcp` takes for granted when it puts segments on the link directly.
- `SentNotHeard`: the sockets hear what the router sends itself, and only
  `whether_inout` keeps it out, from a table that an early return may have left half
  filled. It relates the ARP entries to the cards' addresses. There are two
  exceptions. A packet without a route goes to whatever address a variable held,
  possibly the router's own. And a card that has told its netmask but not its IP
  address takes that address, and the others of its network, for somebody else's
  (`Hidden`): a wrapped packet for it is unwrapped, sent, and heard again.

`OwnOnly` states what a comment says of `whether_ip_me`; it is violated.

## 6. ARP cache and wait buffer

`ArpCache` looks at the same calls from the other side. `Send` is the end of
`ip_sed_process`: the packet goes out, or into the first free place
(`add_to_arp_wait_buffer`), or is dropped. `Reply` is `handle_arp` up to its loop
(`add_arp_item`), and from there the model has one action per round of the scan in
`check_arp_wait_buffer` (`ScanSkip`, `ScanNext`, `ScanDone`) and one per packet handed
out (`SendFound`), since whether those loops end is one of the questions. As with
`Receive`, the call of `handle_arp` is the model's: the program prints `arp` in its
place. Only the thread `handle_packet` comes here, so nothing else happens while a
reply is handled. What waits is a packet's number; `packet`, `sent` and `dropped`
are history. A place keeps its packet and its address after it has been freed,
as in the code, and the scan may read it.

- `SentToItsHop`: a packet only goes to an address its next hop has announced. The
  scan reads places that are not in use; what saves it is that a place's packet
  and address are always written together and never cleared.
- `WaitsOrGone`: a packet stays in its place until it has been handed out. The scan
  frees a place it has not tested.
- `ScanReturns`: the scan ends. Its index skips and wraps round, and with an odd
  number of places, or places filled in another order, it would not.
- `ScanAdvances`: why it ends. No step takes the index back, so the scan is over after as many
  steps as there are places. That it never reads round the end of the buffer is a matter of
  parity: at even indices the places in use come first, the scan meets them in
  turn, and only odd ones are set free.

The loop around the scan is another matter. `HandedOutOnce` states what freeing the
place is for; it is violated (section 13), and once a packet has been handed out
`handle_arp` never returns (`NeverReturns`, section 12). Lengths are left out, and the
table grows up to `MaxTable`.

## 7. System calls

Client programs call the router through a System V queue. `SystemCalls` has `ClientOpens`,
`ClientSends` and `ClientRemoves` (`msg_init`, `msg_send`, `msg_end`, or the same calls
written out in `mytest.c`), and for `mtsyscal` `ServerOpens`, `ServerGivesUp`, `Receive`,
`ReceiveFails` and `Returns`. `queue` is the kernel's: its id, 0 when there is none, and its
calls, `QueueSize` of them at most: a client's `msgsnd` waits while the queue is full, and
fails if the queue is removed meanwhile. Ids never come back. A client looks its id up once and goes on using it, and
when its user has typed something it removes the queue, whoever else uses it; a send
to a queue that is gone is printed and forgotten (`mytest` prints `send success` after
it). `msg` is `mtsyscal`'s buffer, which nothing initialises: `Init` lets it hold anything.
The thread is not started by the shipped program; the model starts it. What the
calls do to the connection is the next section's subject.

- `CallsInTurn`: queue, clients and `mtsyscal` implement `CallQueue` until a receive
  fails. `CallQueue` is bounded, as the kernel's queue is.
- `InProgramOrder`: until then no client's call is executed before the ones it made
  earlier. That is not evident, since a queue with a client's first call may be
  removed and another client may make a new one before the second: what saves it is
  that the id has changed, so the second call fails too. A client that looked the queue
  up for each call would break it.
- `ServedUnlessRemoved`: under fair scheduling a call in the queue that `mtsyscal` reads is
  executed unless the queue is removed.

`CalledOnce` states what the message `message recv error` says; it is violated.

## 8. Two threads on mylink

In `Tcp` one thread uses the connection. `MyLink` adds `mtsyscal`, which calls
`constructsocket`, `myconnect`, `mysendtcp` and `closesocket`, and goes down to single
accesses: nothing locks `mylink`, `+=` is a load and a store, and `ip_sed_process`
builds its frame in a static buffer both threads use. `mtsyscal`'s switch calls the
first two of these functions; at the places of the other two the calls are left out,
and the model puts them in, in any order. `thread[t]` says which function a thread
is in, where, and what its locals hold. A function that sends goes through `Pack`,
`Waits` (the status, when it connects), `Load`, `Store`, `Copy` and `Transmit`; `tcp_initial`
through `Closed` and `Renumber`; and `tcptest` through `TakeSegment`, the comparison
of its status (`CompareSynAck` or `CompareFinAck`) and `Establish`, and then sends the
three segments of its greeting. The far end may acknowledge whatever was sent, late,
repeated and in any order (`answers`). Numbers are counted from the initial one,
`mylink.rmtnum` is `Tcp`'s subject.

- `GreetedOnce` holds over every interleaving: between `tcptest`'s look at the
  status and its change the other thread may close or reconnect, and still the link is
  established no more often than it began to wait (`owed`).
- `NumbersContiguous`, `AnswerFits`: as long as no two functions have run at once (`apart`), what is
  sent begins where the last segment ended, and the answer to the SYN sent last
  passes `tcptest`'s comparison. When functions do overlap both fail, which is
  not held against the code: no document says that the calls may be made at any time.

Connections all start from the same number and the same ports, so an answer to an earlier
SYN fits the next one: `answers` keeps them.

## 9. Checksums

`Checksum` takes one IP header or one TCP segment through the functions that compute
checksums. `in_cksum` is `Finish(Sum(...))`: a sum in an `int`, added up over the words of
the octets (`WordsOf`, `Added`) with an odd octet at the end, folded twice. Octets
have `BYTE` values and words `BYTE * BYTE`; 256 and 3 differ only in size. `IpPack` is `ip_pack`,
`Route` the count-down of the TTL and the new checksum that `route()` and `showicmp`
make. They test neither the TTL, which goes from 0 to 255, nor the checksum that came
in, so a damaged header leaves with a good one. The words of a header that
stay what they are count by their sum only. `TcpPack`, `Damage` and `TcpUnpack` are a
segment's way to `tcp_unpack`, with the pseudo header in front as a constant.

- `CarriesFolded`: the two folds give the one's complement sum, word by word as RFC
  1071 defines it (`EndAroundSum`: each carry comes back as it arises), also with an odd
  octet at the end. A second fold may carry again.
- `HeaderVerifies`: a header sums up to all ones after each change.
- `UnpackTells`: `tcp_unpack` sums over the segment *with* its checksum, because it copies
  before it clears, and then stores the result in its place. That result is 0
  exactly for an undamaged segment. The test it then makes compares it with the checksum
  that came (`csum`) and so reports (`Reported`) every good segment but those whose
  checksum is 0. That is stated as what the code does: the function has no
  caller, and no document says more of it than the line it prints.

## 10. Runs and bounds

| Run | Config | Checks | Result |
|---|---|---|---|
| `pack_cache` | `MCPackCache.cfg` | `TypeOK`, `HandledInOrder`, `FramesConserved`, `WokenToUsableRing`, `FifoWhileIntact`, `HandledOrAsleep`, `NextFrameRescues`, `MutexIsFreed` | hold; 127 877 states |
| `pack_cache_sleep` | `MCPackCacheSleep.cfg` | `NeverBothAsleep` | violated |
| `tcp` | `MCTcp.cfg` | `TypeOK`, `AckNotAhead`, `CloseIsMutual`, `ReadsOneMessage`, `HelloArrives` | hold; 33 874 states |
| `tcp_close` | `MCTcpClose.cfg` | `PeerCloses` | violated |
| `forwarding` | `MCForwarding.cfg` | `TypeOK`, `LeavesByItsNetwork`, `WrappedAfresh`, `FarOnlyWrapped`, `SentNotHeard`, `ClientReaches` | hold; 41 083 states |
| `forwarding_own` | `MCForwardingOwn.cfg` | `OwnOnly` | violated |
| `arp` | `MCArp.cfg` | `TypeOK`, `SentToItsHop`, `WaitsOrGone`, `ScanReturns`, `ScanAdvances` | hold; 107 988 states |
| `arp_once` | `MCArpOnce.cfg` | `HandedOutOnce` | violated |
| `system_calls` | `MCSystemCalls.cfg` | `TypeOK`, `InProgramOrder`, `CallsInTurn`, `ServedUnlessRemoved` | hold; 56 532 states |
| `calls_once` | `MCCallsOnce.cfg` | `CalledOnce` | violated |
| `link` | `MCMyLink.cfg` | `TypeOK`, `GreetedOnce`, `AnswerFits`, `NumbersContiguous` | hold; 1 203 024 states |
| `checksum` | `MCChecksum.cfg` | `TypeOK`, `CarriesFolded`, `HeaderVerifies`, `UnpackTells` | hold; 5 773 states |

- `PACKET_CACHE = 3`: two usable slots, the least for which a full ring, an empty
  ring and one between them differ. The behaviour depends on full and empty, not
  on the size; the theorems hold for every size from 2.
- `MaxFrames = 4`: more frames than slots, so that both indices wrap round and a
  slot is written a second time.
- `SEQ = 64`, `HELLO = 12`, `PeerData = 3`: large enough that no two numbers of one
  connection meet, small enough for TLC. `PeerISNs = {0, 63}` puts the server's
  first number at the wrap-round.
- `MaxLost = 2`, `LinkCap = 4`: two losses on the way to the client, and no new
  repetition while four segments are under way. Both bound the state space
  only; `LinkCap` guards the server's timer and the stale frames and never a step
  of the client.
- `Names = {eth4, eth5}`: the two cards the routes name, in either order, each listed
  or not, with or without its address and its netmask.
- `MCNetmasks`: netmasks of 24 bits, and one of 23, with which `eth5` takes in the
  network behind the VPN too.
- `MCDestinations`: the router itself, a neighbour whose hardware address is not
  known, a host behind the VPN, and an address with no route, each
  also as the inner destination of a wrapped packet. There is one address for
  each way the searches can go.
- `WaitSlots = 1`: a packet waits, and the next is dropped. Places are not freed,
  so more of them only make more states.
- `WAIT_SLOTS = 4`: two pairs of places, even as in the code, so that the scan moves
  from one pair to the next and the last index wraps round. `MaxPackets = 5` fills them
  and drops one. `MaxTable = 3` is the entry from the start and two replies, the
  second of which meets what the first one left. One host is known from the start, one
  has no card.
- `QueueSize = 2`: three clients fill the queue, and the third waits.
- `Clients`: `mytest` twice, and a program that sends and closes, so that a queue one
  of them removes is used by two others. `MaxQueues = 2`: a queue, and another after its
  removal. `MaxRuns = 6`: all the calls of all the clients.
- `MaxCalls = 2`: two calls of `mtsyscal`, so that a connection is closed and connected
  again, or connected twice, while `tcptest` runs. `HELLO = 2` tells a message's octets from
  the one number a SYN or FIN takes.
- `BYTE = 3`, `MaxTail = 3`: every octet, and tails of an even and of an odd number of
  octets. `MaxOthers = 63` is the largest sum for which the total stays below
  `WORD * WORD`, as `ChecksumAssumption` asks; with 256 values and the lengths
  of IP the sum is far below 2^32. `MCPseudo` has octets that make carries.
- Deadlock is checked in the forwarding runs. It is not checked in the others: the
  listener may exit after an error, both threads may fall asleep, a connection that
  is done, or stuck on a lost segment of the client, is silent, `mtsyscal` may wait for a
  call nobody makes, a segment is unpacked once, and the ARP model stops at its bounds.

## 11. Fairness

`PackCache!FairSpec` asks weak fairness of each thread's own steps (`Push`, `Pull`):
the kernel runs a thread that can run. It asks nothing of the network (`RecvFrame`,
`RecvError`), of spurious wake-ups, nor of who gets a contended mutex (that would
need strong fairness). So `HandledOrAsleep` leaves two exceptions: the locking has
been lost, or the handler sleeps for ever because its signal came before it
was a waiter. `NextFrameRescues` says that the next frame ends that sleep.

`Tcp!FairSpec` asks weak fairness of the handler (`TcpFirstStep`, `HandleSegment`), of
the arrival of segments at the server (`PeerReceive`) and of its timer
(`PeerRetransmit`). Losses on the way to the client are bounded by `MaxLost`; a
server whose every answer is lost cannot be reached by any client.

`ArpCache!FairSpec` asks weak fairness of `HandleArp`: the thread in the middle of
`handle_arp` goes on. It asks nothing of `Send` and `Reply`; nobody has to send or
to answer.

`SystemCalls!FairSpec` asks weak fairness of `Serve`: `mtsyscal` is run whenever it can
run. It asks nothing of the clients, nor that `mtsyscal` is ever started.

## 12. What is proved

TLAPS checks, for every value of the constants:

| Theorem | Statement |
|---|---|
| `PackCacheProofs!TypeCorrect` | `Spec => []TypeOK` |
| `PackCacheProofs!WakeUpsUsable` | `Spec => []WokenToUsableRing` |
| `PackCacheProofs!OrderKept` | `Spec => []HandledInOrder` |
| `PackCacheProofs!NoFrameLost` | `Spec => []FramesConserved` |
| `PackCacheProofs!RingIsFifo` | `Spec => FifoWhileIntact` (refinement of `FrameFifo`) |
| `PackCacheProofs!MutexExcludes` | while `intact`, never both threads inside their critical sections |
| `PackCacheProofs!NoneMadeUp` | what is handed over has arrived, or is 0 for a torn frame, `intact` or not |
| `PackCacheProofs!BothSleepForGood` | once `NeverBothAsleep` is false it stays so, without spurious wake-ups |
| `TcpProofs!TypeCorrect` | `Spec => []TypeOK` |
| `TcpProofs!CloseOnlyMutual` | `Spec => []CloseIsMutual` |
| `TcpProofs!MessageReadOnce` | `Spec => ReadsOneMessage` (refinement of `OneMessage`) |
| `TcpProofs!NeverAhead` | `Spec => []AckNotAhead` |
| `TcpProofs!FinNeverAcked` | a server that has closed is never told that its FIN arrived |
| `ForwardingProofs!FarPacketsWrapped` | `Spec => []FarOnlyWrapped` |
| `ForwardingProofs!HeadersFresh` | `Spec => []WrappedAfresh` |
| `ForwardingProofs!ClientServed` | `Spec => ClientReaches` |
| `ForwardingHopProofs!TypeCorrect` | `Spec => []TypeOK` |
| `ForwardingHopProofs!LeavesRight` | `Spec => []LeavesByItsNetwork`, assuming `CardsAsRouted` |
| `ForwardingHopProofs!NotHeardAgain` | `Spec => []SentNotHeard`, assuming `CardsNotRouters` |
| `ArpProofs!TypeCorrect` | `Spec => []TypeOK` |
| `ArpProofs!OnlyToItsHop` | `Spec => []SentToItsHop` |
| `ArpProofs!NoneForgotten` | `Spec => []WaitsOrGone` |
| `ArpProofs!ScansAdvance` | `Spec => ScanAdvances` |
| `ArpProofs!NeverReturns` | once a packet has been handed out `handle_arp` does not return |
| `ArpProofs!EvenNeverSent` | a packet in use at an even place stays there and is never sent |
| `SystemCallsProofs!TypeCorrect` | `Spec => []TypeOK` |
| `SystemCallsProofs!ProgramsInOrder` | `Spec => []InProgramOrder` |
| `SystemCallsProofs!QueueIsCalls` | `Spec => CallsInTurn` (refinement of `CallQueue`) |
| `SystemCallsProofs!LastCallForEver` | after a failed receive `mtsyscal` executes the call it holds and no other |
| `MyLinkProofs!TypeCorrect` | `Spec => []TypeOK` |
| `MyLinkProofs!GreetedNoOftener` | `Spec => []GreetedOnce` |
| `MyLinkProofs!SynAnswerFits` | `Spec => []AnswerFits` |
| `MyLinkProofs!Contiguous` | `Spec => NumbersContiguous` |
| `ChecksumProofs!TwoFoldsSuffice` | two folds give the one's complement sum, of every total below `WORD * WORD` |
| `ChecksumProofs!CarriesMayWait` | for every sequence of octets, the sum with each carry brought back at once is that of the total |
| `ChecksumProofs!TypeCorrect` | `Spec => []TypeOK` |
| `ChecksumProofs!CarriesAreFolded` | `Spec => []CarriesFolded` |
| `ChecksumProofs!HeadersVerify` | `Spec => []HeaderVerifies` |
| `ChecksumProofs!UnpackIsTelling` | `Spec => []UnpackTells` |

With these every invariant and every action property that a passing run checks is a
theorem. Four of the others turn a counterexample of section 13, one run that goes wrong,
into a statement about every run: `NeverReturns`, `LastCallForEver`, `FinNeverAcked` and
`BothSleepForGood`.

**Assumptions.** `PackCacheAssumption`: the ring has at least two slots.
`TcpAssumption`: the message is not empty, the initial numbers are numbers, and
`SEQ` exceeds twice what both sides say (with 2^32 and 12 octets far from tight).
`StartUpAssumption` and `ForwardingAssumption`: the kernel lists no interface named like
the VPN device or like the models' words for no socket and for any socket, addresses are
addresses, and netmasks are any sets of networks. `ArpAssumption`: the number of places is
even, and no host has the address an unused place holds. `SystemCallsAssumption`: the
clients' programs are sequences of calls, and the queue has room for at least one. `MyLinkAssumption`: the message is not
empty. `ChecksumAssumption`: the pseudo header has an even number of octets, and no sum
reaches `WORD * WORD`, which the lengths of IP keep far from. TLC evaluates them all in the
runs. Two theorems have an assumption of their own, on addresses the kernel gives and the
program never compares with its tables: `CardsAsRouted` (`eth4` and `eth5` have addresses of the
networks the routes send there) and `CardsNotRouters` (no card has the address of a
router the tables name).

**The packet cache.** `IInv` is `TypeOK` and `intact => RingInv`. The properties are not
inductive by themselves: that a thread copies into a free slot depends on the
other one being outside its critical section (`MutualExclusion`, which holds
only while `intact`), on a woken thread having been promised its slot
(`RingUsable`), and on a waiter being able to be woken only inside its wait
(`WaitersWait`). `RingContents` says slot by slot which frame is there, by its distance
from `j` (`Age`), and `SlotInHand` what a thread in the middle of its copy has
done. The step that matters is `PushWake`: `~Full` there comes from the promise and
not from a test. Two lemmas, `StoreOne` and `TakeOne`, carry all of the ring's
arithmetic. `TypeOK` is inductive without `intact`: the indices stay in the ring
even when the locking is lost. So is `OnlyArrivals`, that no number in the ring or in hand
is above `arrived`; `NoneMadeUp` follows, which `Tcp` relies on: what the cache hands to
`tcptest` out of turn is an old segment and not one nobody sent. When both threads sleep no
action but a spurious wake-up is possible (`BothSleepForGood`).

**The TCP client.** `IInv` follows one idea: the server's next expected number says
what its program has read (`StreamFollowsNumber`), because only the message carries
octets, at one number, and only the FIN ends the stream, at another
(`ClientSegments`, `ClientNumbers`). Everything the server has ever sent, under way
or in a stale slot, was true when sent and stays true (`ServerSegments`): it
acknowledges the number after the FIN only once it has read everything. From that
`tcptest`'s single comparison is enough (`FinAnswered`).

`AckInv` carries the acknowledgements. Comparing numbers modulo `SEQ` is avoided: every number
the client acknowledges is the server's initial one and so many on
(`OfServer`), at most `Said`, and the server's next number is the initial one and `Sent` on,
which is `Said` and one more after its FIN. `Said` only grows (`Grows`), so what could be
acknowledged once always can. Only at the end is `Within` computed, from the two distances,
and `FinNeverAcked` from the same two: the number after the FIN is `Said + 1` on, and no
acknowledgement is so far. `AckServer` says it of what the server has noted. The server
looks at the acknowledgement of every segment it takes, so this needs that those after
the SYN all carry one (`Opening`).

**The IP layer.** `IInv` says that no interface is listed twice, that exactly the VPN
device is marked (`DevicesKnown`), and that it is there from `initial_vpn_device`
on (`VpnDeviceSet`), which every early return leaves true. From it `VpnIsFar` (what
`reroute` sends to the VPN device is for the network behind it, so a VPN route
fits) and `FarIsVpn` (the converse) follow, and `SendKeeps` concludes for one call of
`ip_sed_process`. In `TransitStep` the packet that goes by a gateway is shown not
to be one for that network.

`HopInv`, in `ForwardingHopProofs`, adds that what has been read of a device is its own
(`DevicesRead`), and where the last frame went (`SentWhere`): to a neighbour in the table,
through the *first* card of its network. The code finds it by a loop from 0; that the least
of a set of indices exists follows from the well-foundedness of `<`, for the set at
hand. That `LeavesByItsNetwork` needs `CardsAsRouted` is the code's own limit: its
tables are constants.

**The ARP cache.** `IInv` adds to the properties that a place once used holds a packet
and the hop of that packet (`PlacesAgree`), that the reply in hand is in the cache
(`ReplyEntered`), and that a packet handed out is for the host that answered
(`HandedForReply`). It does not say that the place read is in use: it need not be.

Where the scan goes is a matter of parity. `ScanInv` says that the even places below one in
use are in use (`EvenFirst`), that an odd index has nothing in use behind it
(`OddIsBehind`), and that what was found lay in an odd place behind one in use
(`FoundInOdd`). So a place in use that the scan meets is even, the one it reads is the
next and never the first (`UsedIsEven`), and the index goes up. `Trapped` is what a packet
handed out leaves behind: an even place in use with a fitting one after it, which every
later scan comes to before it can end. And an even place is tested and never read:
with a place of its own for every packet (`OwnPlaces`), what waits there is never sent.

**The system calls.** `InProgramOrder` speaks of what has been executed; what keeps it
is `QueueInOrder` (in the queue a call stands behind its client's call before it,
or that one has been executed), which a send keeps because of `LastCallKept`: as
long as the queue a client knows is there, the call it made last is in it or
executed. That needs `IdsMade`, that nobody has the id of a queue not made yet. After a
failed receive `QueueLost` holds for good: the queue `mtsyscal` has the id of is gone, and ids
do not come back.

**mylink.** `GreetingOwed` strengthens `GreetedOnce` with the moment at which it could
break: a link that waits, or is about to be established, is owed at least one greeting. It
holds without any assumption on the threads, because only the thread `handle_packet`
establishes. `OneAtATime` follows a function that runs alone through its places
(`Counting`): what its locals hold, and how far `mynum` is from the number sent last.

**The checksums.** `TwoFoldsSuffice` writes a sum as `WORD * h + l`; after the first fold
`h + l` may exceed a word by less than a word, and after the second its carry cannot
carry again. `HeadersVerify` follows for headers: `Finish` of a sum without the
field, added to that sum, is all ones.

`Sum` recurses over the words of a segment, and so does the reference, `EndAroundSum`. Both
are recursive functions and can be proved about: the lemma `AllNumbers` takes induction over
the numbers from the well-foundedness of `<`, for a *set* of numbers, and each fact about a
sum is proved for the set of lengths it holds for. `CarriesMayWait` compares the two sums
by their remainders modulo `WORD - 1`; 0 is the exception, which only zeros add up to.
`SegmentInv` says what is known of a segment: as packed it adds up, with its checksum and the
pseudo header, to all ones; damaged, it is one octet away from such a segment, and one octet
changes the sum by more than 0 and less than `WORD - 1`, so that it does not.

**Left to TLC.** The liveness properties (`HandledOrAsleep`, `NextFrameRescues`,
`MutexIsFreed`, `HelloArrives`, `ScanReturns`, `ServedUnlessRemoved`), which need fairness
and `ENABLED`, and the counterexamples. Of `ScanReturns` the part without fairness is
proved (`ScansAdvance`, and `TypeOK` bounds the index).

## 13. Findings

1. *Both threads can sleep for good* (`multithread.h:34`, `:55`, run
   `pack_cache_sleep`). The unlock in front of the wait lets a signal pass before
   the waiter is registered. The listener can sleep beside a ring with room and
   the handler beside one with frames, and nothing wakes them (`BothSleepForGood`).
2. *The server's FIN is never acknowledged* (`tcp.c:207`, run `tcp_close`). The answer
   carries the FIN's own number. The server repeats it for ever; on no run is it told
   (`FinNeverAcked`).
3. *Packets for neighbours are kept* (`function_head.c:405`, run `forwarding_own`).
   `whether_ip_me` compares networks, so a packet for any host on one of the router's
   networks ends in the router, and so does an unwrapped one for the hosts
   behind it.
4. *A packet is handed out for ever* (`function_head.c:476`, run `arp_once`). The scan
   tests place i and reads place i+1, which it frees: the next scan reads it again.
   Once a packet has been handed out `handle_arp` does not return (`NeverReturns`).
5. *The last call is made again* (`tcp.c:301`, run `calls_once`). After a failed receive
   `mtsyscal` executes what its buffer holds, and once the queue is removed every
   receive fails; it executes nothing else from then on (`LastCallForEver`).

Seen in the code while modelling it, with no run of their own:

- A full ring is written and an empty one read from, because a wait sets free a mutex
  the other thread holds (`multithread.h:35`, `:56`).
- A packet that waits alone is never sent: the places with even indices are tested and
  never read (`function_head.c:475`; `EvenNeverSent`). A neighbour that changes its address gets
  a second entry, and the first is found (`function_head.c:516`). `handle_arp` sends with
  the length of the reply instead of the packet's (`function_head.c:508`), and
  `add_arp_item` never compares `arp_item_index` with `MAX_ARP_SIZE` (`function_head.c:518`).
- The message and the FIN acknowledge one octet less than the ACK before them, for
  the same reason as 2 (`tcp.c:128`).
- `main` goes on after `initial` has returned early, and the devices it did not reach
  send to descriptor 0 (`route.c:331`). A card whose hardware address was not read,
  and `vpn_eth0`, have one of zeros, which `whether_inout` takes for their own.
- A packet without a route is sent to an address that is left in a variable
  (`function_head.c:264`), possibly one of the router's own.
- A card that tells its netmask but not its IP address (`header.h:55`, `:67`) makes the
  router send a wrapped packet for an address of its own to itself, and hear it again
  (`Hidden`).
- `tcp_unpack` reports an error for good segments (`function_head.c:109`; `UnpackTells`).
- The TTL counts down from 0 to 255, and `route()` gives a damaged header a good
  checksum (`route.c:15`).
- `mytest` prints `send success` after a send that failed (`mytest.c:48`).
- `tcp_pack`'s and `ip_sed_process`'s buffers are static: with `mtsyscal` started, one thread may
  send the other's segment, twice or in part (`function_head.c:325`).

## 14. What is not modelled

The display functions only print, and the stubs and the superseded copies are not part
of the program. Within the modelled parts:

- Other traffic is left out of `Tcp`. `tcptest` compares neither ports nor addresses, so
  a segment of another connection could be taken for one of this; with one
  connection in the model that cannot show.
- `Tcp` takes from the packet cache that it may pass over frames and hand over old
  ones. The two modules are not composed step by step; torn frames are not passed to
  `tcptest`.
- `MyLink` leaves out `mylink.rmtnum` and the reply to a FIN's effect on it, and a `memcpy` of the
  static buffer that stops in the middle.
- The octets of the message, and options.
- `StartUp` has networks of 24 bits, so a card's netmask of more than 24 bits, which
  tells hosts of one of them apart, is left out.
- `Forwarding` leaves out source addresses (`repack_vpn` takes one from a device index
  it may not have set), lengths, and tables that overflow. The checksums are in `Checksum`.
- The forwarding part of `route()`, an earlier form of `ip_rec_process` that has no
  caller and never wraps. Its change of the header is in `Checksum`.
- `arp_request`, which sends one frame, and `arp_reply`, which fills in a local buffer
  and sends nothing; neither has a caller. `msg_recv`, which has no caller either: a
  client that used it would take calls away from `mtsyscal`.

## 15. What could follow

- Two routers back to back, one wrapping what the other unwraps. The repository has
  the tables of one of them only (`initial_route`), so the second would be invented; and
  by finding 3 the second would keep what it unwraps.
- The packet cache composed with `Tcp`, to replace the abstraction of stale frames by
  the ring itself. `Tcp` allows every segment ever held to come back, which is more than the
  ring does, so no safety property would be gained.
- A second connection beside `Tcp`'s, for the comparison of ports that `tcptest` lacks.
