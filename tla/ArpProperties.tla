---------------------------- MODULE ArpProperties ----------------------------
(***************************************************************************)
(* What the ARP cache and the wait buffer keep, and what the code says of  *)
(* them and does not keep.                                                 *)
(***************************************************************************)
EXTENDS ArpCache

Announced(a, mac) == \E k \in 1 .. Len(arp_table) : arp_table[k] = [ip |-> a, mac |-> mac]

\* A packet only goes to an address its next hop has announced, also a packet
\* handed out a second time or out of a place that was used before.
SentToItsHop == \A s \in sent : Announced(packet[s.packet], s.mac)

\* A packet waits for its next hop in a place of its own until it has been handed out:
\* the scan frees a place that it has not tested.
WaitsOrGone ==
  \A p \in 1 .. Len(packet) :
    \/ Sent(p) \/ p \in dropped \/ (handler = "found" /\ buff = p)
    \/ \E s \in Slots : arp_valid[s] /\ arp_wait_buf[s] = p /\ arp_wait_ip[s] = packet[p]

\* No scan goes round for ever, although its index wraps round: until a packet is handed
\* out the places in use come first and the scan meets them at even indices, and after
\* that every scan ends at the same packet.
ScanReturns == handler = "scan" ~> handler # "scan"

\* Each step of a scan takes its index on: it never reads a place below the one it tests,
\* although the index is taken modulo the number of places, so a scan is over after as
\* many steps as there are places.
ScanAdvances == [][handler = "scan" /\ handler' = "scan" => i' > i]_vars

-----------------------------------------------------------------------------
(* What the code says of itself *)

\* A place handed out is free, so no packet is handed out twice.
HandedOutOnce == handler = "found" => ~Sent(buff)
=============================================================================
