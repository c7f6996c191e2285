------------------------------ MODULE ArpCache ------------------------------
(***************************************************************************)
(* The ARP cache and the wait buffer of function/function_head.c.          *)
(* ip_sed_process sends a packet whose next hop is in the cache and puts   *)
(* any other into the wait buffer.  handle_arp enters what a reply says    *)
(* and scans the buffer for the packets that waited for it.  The program   *)
(* as shipped prints "arp" where handle_arp belongs (route.c:311); Reply   *)
(* stands for the call.  Both run in the thread handle_packet.             *)
(*                                                                         *)
(* Packets are named by the order in which they are sent.                  *)
(***************************************************************************)
EXTENDS Naturals, Sequences

CONSTANTS Hosts,         \* next hops
          Macs,          \* hardware addresses
          Carded,        \* hosts getnetcard finds a device for
          InitialTable,  \* the cache as initial_route leaves it
          WAIT_SLOTS,    \* places of arp_wait_buf, 10 in the code
          MaxPackets,    \* bound: packets sent
          MaxTable       \* bound: entries in the cache; the code has room for 512 and
                         \* compares nothing with it

NoHost == "0.0.0.0"
Entry  == [ip : Hosts, mac : Macs]

\* check_arp_wait_buffer looks at the places in twos: with an odd number of places it
\* would be another scan.
ASSUME ArpAssumption ==
  /\ WAIT_SLOTS \in Nat \ {0} /\ WAIT_SLOTS % 2 = 0
  /\ NoHost \notin Hosts
  /\ InitialTable \in Seq(Entry)
  /\ MaxPackets \in Nat /\ MaxTable \in Nat

VARIABLES arp_table,     \* the entries in use, arp_item_index is their number
          arp_valid,     \* the places taken
          arp_wait_ip,   \* whom the packet in a place waits for
          arp_wait_buf,  \* the packet in a place, 0 while there never was one
          packet,        \* history: the next hop of each packet
          sent,          \* history: what went out, and to which address
          dropped,       \* history: packets there was no place or no device for
          handler,       \* where handle_arp is
          i,             \* the index of check_arp_wait_buffer
          reply,         \* the reply in hand
          buff           \* the packet check_arp_wait_buffer handed out

waitVars == <<arp_valid, arp_wait_ip, arp_wait_buf>>
vars == <<arp_table, waitVars, packet, sent, dropped, handler, i, reply, buff>>

Slots == 0 .. WAIT_SLOTS - 1

Sent(p) == \E s \in sent : s.packet = p

TypeOK ==
  /\ arp_table \in Seq(Entry)
  /\ arp_valid \in [Slots -> BOOLEAN]
  /\ arp_wait_ip \in [Slots -> Hosts \cup {NoHost}]
  /\ arp_wait_buf \in [Slots -> Nat]
  /\ packet \in Seq(Hosts)
  /\ sent \subseteq [packet : 1 .. Len(packet), mac : Macs]
  /\ dropped \subseteq 1 .. Len(packet)
  /\ handler \in {"idle", "scan", "found"}
  /\ i \in 0 .. WAIT_SLOTS
  /\ reply \in Entry \cup {[ip |-> NoHost, mac |-> "none"]}
  /\ buff \in 0 .. Len(packet)

Init ==
  /\ arp_table = InitialTable
  /\ arp_valid = [s \in Slots |-> FALSE]
  /\ arp_wait_ip = [s \in Slots |-> NoHost]
  /\ arp_wait_buf = [s \in Slots |-> 0]
  /\ packet = <<>> /\ sent = {} /\ dropped = {}
  /\ handler = "idle" /\ i = 0
  /\ reply = [ip |-> NoHost, mac |-> "none"] /\ buff = 0

-----------------------------------------------------------------------------
(* ip_sed_process *)

\* Mutant: the index the loop ends on counts as found.
EndFoundSearch(a, k) ==
  /\ k \in 1 .. Len(arp_table) /\ (arp_table[k].ip = a \/ k = Len(arp_table))
  /\ \A j \in 1 .. k - 1 : arp_table[j].ip # a

\* search_arp_cache takes the first entry that fits.
search_arp_cache(a, k) ==
  /\ k \in 1 .. Len(arp_table) /\ arp_table[k].ip = a
  /\ \A j \in 1 .. k - 1 : arp_table[j].ip # a

InCache(a) == \E k \in 1 .. Len(arp_table) : arp_table[k].ip = a

\* Mutant: the search for a place starts at the second.
SecondFirstFree(s) == s \in Slots \ {0} /\ ~arp_valid[s] /\ \A t \in 1 .. s - 1 : arp_valid[t]

FirstFree(s) == s \in Slots /\ ~arp_valid[s] /\ \A t \in 0 .. s - 1 : arp_valid[t]

Put(s, p, a) ==
  /\ arp_wait_buf' = [arp_wait_buf EXCEPT ![s] = p]
  /\ arp_wait_ip' = [arp_wait_ip EXCEPT ![s] = a]
  /\ arp_valid' = [arp_valid EXCEPT ![s] = TRUE]

\* The result of add_to_arp_wait_buffer is not looked at.
Send(a) ==
  LET p == Len(packet) + 1 IN
  /\ handler = "idle" /\ Len(packet) < MaxPackets
  /\ packet' = Append(packet, a)
  /\ \/ /\ \E k \in 1 .. Len(arp_table) :
             /\ search_arp_cache(a, k)
             /\ sent' = sent \cup {[packet |-> p, mac |-> arp_table[k].mac]}
        /\ UNCHANGED <<waitVars, dropped>>
     \/ /\ ~InCache(a)
        /\ \E s \in Slots : FirstFree(s) /\ Put(s, p, a)
        /\ UNCHANGED <<sent, dropped>>
     \/ /\ ~InCache(a) /\ \A s \in Slots : ~FirstFree(s)
        /\ dropped' = dropped \cup {p}
        /\ UNCHANGED <<waitVars, sent>>
  /\ UNCHANGED <<arp_table, handler, i, reply, buff>>

-----------------------------------------------------------------------------
(* handle_arp; a request changes nothing *)

\* add_arp_item, and the first call of check_arp_wait_buffer.
Reply(a, mac) ==
  /\ handler = "idle" /\ Len(arp_table) < MaxTable
  /\ arp_table' = Append(arp_table, [ip |-> a, mac |-> mac])
  /\ reply' = [ip |-> a, mac |-> mac]
  /\ handler' = "scan" /\ i' = 0
  /\ UNCHANGED <<waitVars, packet, sent, dropped, buff>>

\* A place not in use is passed over.
ScanSkip ==
  /\ handler = "scan" /\ i < WAIT_SLOTS /\ ~arp_valid[i]
  /\ i' = i + 1
  /\ UNCHANGED <<arp_table, waitVars, packet, sent, dropped, handler, reply, buff>>

\* Mutant: the place tested is set free, not the place read.
FreeTested(read) == arp_valid' = [arp_valid EXCEPT ![i] = FALSE]

Free(read) == arp_valid' = [arp_valid EXCEPT ![read] = FALSE]

\* Mutant: whom the packet waits for is not compared.
AnyFits(s) == TRUE

Fits(s) == arp_wait_ip[s] = reply.ip

\* A place in use: the one after it is looked at, and handed out if it fits.
ScanNext ==
  LET next == (i + 1) % WAIT_SLOTS IN
  /\ handler = "scan" /\ i < WAIT_SLOTS /\ arp_valid[i]
  /\ \/ /\ Fits(next)
        /\ buff' = arp_wait_buf[next]
        /\ Free(next)
        /\ handler' = "found" /\ i' = next
     \/ /\ ~Fits(next)
        /\ i' = next + 1
        /\ UNCHANGED <<arp_valid, handler, buff>>
  /\ UNCHANGED <<arp_table, arp_wait_ip, arp_wait_buf, packet, sent, dropped, reply>>

\* Nothing found, and handle_arp returns.
ScanDone ==
  /\ handler = "scan" /\ i >= WAIT_SLOTS
  /\ handler' = "idle"
  /\ UNCHANGED <<arp_table, waitVars, packet, sent, dropped, i, reply, buff>>

\* The packet is sent if there is a device for it, and the scan begins again.
SendFound ==
  /\ handler = "found"
  /\ \/ /\ reply.ip \in Carded
        /\ sent' = sent \cup {[packet |-> buff, mac |-> reply.mac]}
        /\ UNCHANGED dropped
     \/ /\ reply.ip \notin Carded
        /\ dropped' = dropped \cup {buff}
        /\ UNCHANGED sent
  /\ handler' = "scan" /\ i' = 0
  /\ UNCHANGED <<arp_table, waitVars, packet, reply, buff>>

HandleArp == ScanSkip \/ ScanNext \/ ScanDone \/ SendFound

Next == \/ \E a \in Hosts : Send(a)
        \/ \E a \in Hosts, mac \in Macs : Reply(a, mac)
        \/ HandleArp

Spec == Init /\ [][Next]_vars

\* The thread runs whenever it can.
FairSpec == Spec /\ WF_vars(HandleArp)
=============================================================================
