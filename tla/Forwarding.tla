---------------------------- MODULE Forwarding ----------------------------
(***************************************************************************)
(* The IP layer of function/function_head.c over the tables StartUp leaves:*)
(* ip_sed_process, which wraps a packet for the VPN where its route says   *)
(* so and sends it or lets it wait for its neighbour's hardware address,   *)
(* and ip_rec_process, which takes a packet that is for this router,       *)
(* unwraps it, or sends it on.  The program as shipped calls the first     *)
(* from the TCP client; the call of the second is commented out in         *)
(* handle_packet (route.c:308), and Receive puts it back.                  *)
(*                                                                         *)
(* A packet is the sequence of its IP headers, the outermost first.        *)
(***************************************************************************)
EXTENDS StartUp

CONSTANTS Destinations,  \* addresses the packets received are for
          WaitSlots      \* places of arp_wait_buf, 10 in the code

ASSUME ForwardingAssumption ==
  /\ Destinations \subseteq [net : Nets, host : Nat]
  /\ WaitSlots \in Nat

VARIABLES outer,         \* ip_sed_process's buff: the IP header at its start
          waiting,       \* the places of arp_wait_buf in use
          last           \* what became of the last packet

vars == <<startVars, outer, waiting, last>>

Header   == [dst : Address, vpn : BOOLEAN]
Plain(a) == << [dst |-> a, vpn |-> FALSE] >>
Wrap(a, p) == << [dst |-> a, vpn |-> TRUE] >> \o p

\* What may come in: packets in the clear and packets another router has wrapped.
Received == {Plain(a) : a \in Destinations}
            \cup {Wrap(a, Plain(b)) : a, b \in Destinations}

TypeOK ==
  /\ StartTypeOK
  /\ outer \in Header
  /\ waiting \in Seq([frame : Seq(Header), ip : Address]) /\ Len(waiting) <= WaitSlots
  /\ last \in [what : {"nothing", "sent", "waits", "dropped", "mine"},
               packet : Seq(Header), frame : Seq(Header), hop : Address, card : Nat]

Broadcast == Addr("all", 255)

Nothing == [what |-> "nothing", packet |-> <<>>, frame |-> <<>>,
            hop |-> NoAddress, card |-> 0]

\* buff is static, so it starts zeroed, and arp_valid is all 0.
Init == /\ StartInit
        /\ outer = [dst |-> NoAddress, vpn |-> FALSE]
        /\ waiting = <<>>
        /\ last = Nothing

StartStep == StartNext /\ UNCHANGED <<outer, waiting, last>>

-----------------------------------------------------------------------------
(* Looking things up: each search takes the first entry that fits *)

First(I) == CHOOSE i \in I : \A k \in I : i <= k

\* The devices that take a for an address of their own network.
Cards(a) == {k \in DOMAIN device : a.net \in device[k].nets}

whether_ip_me(a) == Cards(a) # {}

\* Mutant: the index found is not handed back.
UnreturnedCard(a, index) == index

\* getnetcard, which leaves the caller's index alone if it finds nothing.
getnetcard(a, index) == IF Cards(a) = {} THEN index ELSE First(Cards(a))

\* A card's hardware address, named like those of arp_table; all zero while not read.
Hardware(k) == IF device[k].mac = "none" THEN NoAddress ELSE OwnAddress[device[k].mac]

\* Mutant: a frame is for this host as soon as it is for its network.
NetInout(to) == to = Broadcast \/ \E k \in DOMAIN device : Hardware(k).net = to.net

\* Whether a frame is for this host, by its destination's hardware address: the sockets
\* hear every frame on their cards, those the router sends itself included.
whether_inout(to) == to = Broadcast \/ \E k \in DOMAIN device : Hardware(k) = to

Routes(a) == {r \in DOMAIN route_info : route_info[r].destination = a.net}
Named(r)  == {k \in DOMAIN device : device[k].interface = route_info[r].interface}
Usable(a) == {r \in Routes(a) : Named(r) # {}}

\* The index of the device, 0 where the code returns -1.
reroute(a) == IF Usable(a) = {} THEN 0 ELSE First(Named(First(Usable(a))))

\* What reroute leaves in dst: the gateway of the route it took, or of the last one
\* that fits if none names a device there is; and where no route fits, whatever
\* the variable held.
Gateways(a) ==
  IF Usable(a) # {} THEN {route_info[First(Usable(a))].gateway}
  ELSE IF Routes(a) = {} THEN Destinations
  ELSE {route_info[r].gateway : r \in {r \in Routes(a) : \A s \in Routes(a) : s <= r}}

VpnRoutes(a) == {v \in DOMAIN vpn_route : vpn_route[v].vpn_des = a.net}

-----------------------------------------------------------------------------

\* Mutant: one place too many.
ShortOfRoom == Len(waiting) <= WaitSlots

\* add_to_arp_wait_buffer finds a place; nothing frees one.
HasRoom == Len(waiting) < WaitSlots

Keep(what, p, frame, hop, card) ==
  last' = [what |-> what, packet |-> p, frame |-> frame, hop |-> hop, card |-> card]

\* If no VPN route fits, repack_vpn writes no header and the frame goes out with
\* what buff holds.  The result of add_to_arp_wait_buffer is not looked at.
ip_sed_process(p, dst) ==
  LET index == reroute(dst)
      vpn   == device[index].vpn
      hop   == IF vpn /\ VpnRoutes(dst) # {} THEN vpn_route[First(VpnRoutes(dst))].des
               ELSE dst
      head  == IF ~vpn THEN Head(p)
               ELSE IF VpnRoutes(dst) # {} THEN Head(Wrap(hop, p)) ELSE outer
      frame == IF vpn THEN <<head>> \o p ELSE p
      card  == getnetcard(hop, index)
  IN  \/ /\ index = 0
         /\ Keep("nothing", p, <<>>, dst, 0)
         /\ UNCHANGED <<outer, waiting>>
      \/ /\ index # 0
         /\ outer' = head
         /\ \/ /\ hop \in arp_table
               /\ Keep("sent", p, frame, hop, card)
               /\ UNCHANGED waiting
            \/ /\ hop \notin arp_table /\ HasRoom
               /\ waiting' = Append(waiting, [frame |-> frame, ip |-> hop])
               /\ Keep("waits", p, frame, hop, card)
            \/ /\ hop \notin arp_table /\ ~HasRoom
               /\ Keep("dropped", p, frame, hop, card)
               /\ UNCHANGED waiting

getmessage(p) == Keep("mine", p, <<>>, NoAddress, 0) /\ UNCHANGED <<outer, waiting>>

\* A packet for somebody else.  Without a route the code reads device[-1].vpn,
\* which may be anything, and goes on with it.
Transit(p) ==
  LET dst == Head(p).dst
      index == reroute(dst)
  IN  \E vpn \in (IF index = 0 THEN BOOLEAN ELSE {device[index].vpn}) :
        IF vpn THEN ip_sed_process(p, dst)
               ELSE \E gw \in Gateways(dst) : ip_sed_process(p, gw)

\* unpack_vpn, and what is done with what it says.
Unpack(p) == IF whether_ip_me(Head(p).dst) THEN getmessage(p)
             ELSE ip_sed_process(p, Head(p).dst)

ip_rec_process(p) ==
  \/ ~whether_ip_me(Head(p).dst) /\ Transit(p)
  \/ whether_ip_me(Head(p).dst) /\ Head(p).vpn /\ Unpack(Tail(p))
  \/ whether_ip_me(Head(p).dst) /\ ~Head(p).vpn /\ getmessage(p)

\* tcptest and tcp_first_step send to mylink.dip.
TcpSends ==
  /\ phase = "running"
  /\ ip_sed_process(Plain(Remote), Remote)
  /\ UNCHANGED startVars

\* handle_packet, for a frame that passes whether_inout; any packet may come in one.
Receive ==
  /\ phase = "running"
  /\ \E p \in Received : ip_rec_process(p)
  /\ UNCHANGED startVars

Next == StartStep \/ TcpSends \/ Receive

Spec == Init /\ [][Next]_vars
=============================================================================
