------------------------- MODULE ForwardingHopProofs -------------------------
(***************************************************************************)
(* For every set of interfaces, whichever part of the start-up failed, and *)
(* for all packets: the variables keep their types; where the cards have   *)
(* the routes' networks each frame leaves through the card of its next     *)
(* hop's network; and where no card has the address of one of the far      *)
(* routers, the host does not hear what it sends itself.                   *)
(***************************************************************************)
EXTENDS ForwardingProofs, WellFoundedInduction

(* The inductive invariant, beside that of ForwardingProofs *)

\* A device's addresses are its own, as far as they have been read.
DevicesRead ==
  \A k \in DOMAIN device :
    /\ device[k].vpn =>
         device[k].mac = "none" /\ device[k].nets = {"tunnel"} /\ device[k].ip = Addr("tunnel", 1)
    /\ ~device[k].vpn =>
         /\ device[k].mac \in {"none", device[k].interface}
         /\ device[k].ip \in {OwnAddress[device[k].interface], NoAddress}

\* Where the last frame was sent: its neighbour is in the table, and has been reached by
\* the first card of its network; and where there was a route the neighbour is one of the
\* routers, or a host no card is on the network of.
SentWhere ==
  last.what = "sent" =>
    /\ phase = "running" /\ last.hop \in arp_table
    /\ Cards(last.hop) # {} => last.card = First(Cards(last.hop))
    /\ Routes(Head(last.packet).dst) # {} =>
         last.hop \in {Remote, Peer} \/ Cards(last.hop) = {}

HopInv == TypeOK /\ DevicesRead /\ SentWhere

-----------------------------------------------------------------------------
(* The first of a set of numbers *)

Below == {ss \in Nat \X Nat : ss[1] < ss[2]}

LEMMA BelowWellFounded == IsWellFoundedOn(Below, Nat)
<1>1. Below = OpToRel(<, Nat)
  BY Z3 DEF Below, OpToRel
<1>2. QED
  BY <1>1, NatLessThanWellFounded

LEMMA FirstLeast ==
  ASSUME NEW I \in SUBSET Nat, I # {}
  PROVE  First(I) \in I /\ \A k \in I : First(I) <= k
<1>1. PICK i \in I : \A k \in I : ~ (<<k, i>> \in Below)
  BY BelowWellFounded, WFMin
<1>2. \A k \in I : k \in Nat /\ i \in Nat /\ ~ (k < i)
  BY <1>1, Zenon DEF Below
<1>3. \A k \in I : i <= k
  BY <1>2
<1>4. QED
  BY <1>3, Zenon DEF First

LEMMA FirstCard ==
  ASSUME DevicesKnown, NEW a, Cards(a) # {}
  PROVE  First(Cards(a)) \in Cards(a) /\ First(Cards(a)) \in Nat
<1>1. Cards(a) \subseteq DOMAIN device /\ DOMAIN device \subseteq Nat
  BY DEF Cards, DevicesKnown
<1>2. QED
  BY <1>1, FirstLeast

-----------------------------------------------------------------------------
(* Addresses and indices *)

LEMMA KnownAddresses ==
  /\ Peer \in Address /\ Remote \in Address /\ Peer # Remote
  /\ \A r \in 1 .. 3 : route_info[r].gateway \in {Remote, Peer, Addr("far", 2)}
  /\ Addr("far", 2) \in Address /\ Addr("far", 2) \notin arp_table
  /\ \A a \in arp_table : a.net \in {"lan", "wan"}
BY DEF Peer, Remote, Addr, Address, Nets, route_info, arp_table

LEMMA RerouteNat == ASSUME DevicesKnown, NEW a PROVE reroute(a) \in Nat
<1>1. CASE Usable(a) = {}
  BY <1>1 DEF reroute
<1>2. CASE Usable(a) # {}
  BY <1>2, RerouteFinds DEF DevicesKnown
<1>3. QED
  BY <1>1, <1>2

LEMMA NetcardNat ==
  ASSUME DevicesKnown, NEW a, NEW index \in Nat
  PROVE  getnetcard(a, index) \in Nat
BY FirstCard DEF getnetcard

\* The gateway reroute leaves is that of the one route that fits, if one does.
LEMMA GatewaysKnown ==
  ASSUME DevicesKnown, NEW a, NEW gw \in Gateways(a)
  PROVE  /\ gw \in Address
         /\ Routes(a) # {} => gw \in {Remote, Peer, Addr("far", 2)}
<1>1. CASE Routes(a) = {}
  <2>1. Usable(a) = {}
    BY <1>1 DEF Usable
  <2>2. QED
    BY <1>1, <2>1, ForwardingAssumption DEF Gateways, Address
<1>2. CASE Routes(a) # {}
  <2>1. PICK r \in 1 .. 3 : Routes(a) = {r}
    BY <1>2, OneRoute
  <2>2. Usable(a) = {} \/ Usable(a) = {r}
    BY <2>1 DEF Usable
  <2>3. First({r}) = r
    BY FirstOfOne
  <2>4. gw = route_info[r].gateway
    BY <1>2, <2>1, <2>2, <2>3 DEF Gateways
  <2>5. QED
    BY <2>4, KnownAddresses
<1>3. QED
  BY <1>1, <1>2

-----------------------------------------------------------------------------
(* Sending *)

Waits == [frame : Seq(Header), ip : Address]
Lasts == [what : {"nothing", "sent", "waits", "dropped", "mine"},
          packet : Seq(Header), frame : Seq(Header), hop : Address, card : Nat]

LEMMA HeadIs ==
  ASSUME NEW p \in Seq(Header), p # <<>>
  PROVE  Head(p) \in Header /\ Head(p).dst \in Address
<1>1. Head(p) \in Header
  OBVIOUS
<1>2. QED
  BY <1>1 DEF Header

LEMMA KeepIs ==
  ASSUME NEW what \in {"nothing", "sent", "waits", "dropped", "mine"}, NEW p \in Seq(Header),
         NEW frame \in Seq(Header), NEW hop \in Address, NEW card \in Nat,
         Keep(what, p, frame, hop, card)
  PROVE  /\ last' \in Lasts /\ last'.what = what /\ last'.packet = p
         /\ last'.hop = hop /\ last'.card = card
BY DEF Keep, Lasts

\* What ip_sed_process keeps, and where it sends.
LEMMA SendIs ==
  ASSUME DevicesKnown, TypeOK, NEW p \in Seq(Header), p # <<>>, NEW a \in Address,
         ip_sed_process(p, a)
  PROVE  /\ outer' \in Header /\ last' \in Lasts
         /\ waiting' \in Seq(Waits) /\ Len(waiting') <= WaitSlots
         /\ last'.packet = p
         /\ last'.what = "sent" =>
              /\ last'.hop \in {a, Peer} /\ last'.hop \in arp_table
              /\ Cards(last'.hop) # {} => last'.card = First(Cards(last'.hop))
<1> DEFINE index == reroute(a)
           vpn   == device[index].vpn
           hop   == IF vpn /\ VpnRoutes(a) # {} THEN vpn_route[First(VpnRoutes(a))].des ELSE a
           head  == IF ~vpn THEN Head(p)
                    ELSE IF VpnRoutes(a) # {} THEN Head(Wrap(hop, p)) ELSE outer
           frame == IF vpn THEN <<head>> \o p ELSE p
           card  == getnetcard(hop, index)
<1>1. /\ outer \in Header /\ waiting \in Seq(Waits)
      /\ Len(waiting) <= WaitSlots /\ WaitSlots \in Nat
  BY ForwardingAssumption DEF TypeOK, Waits
<1>2. hop \in {a, Peer} /\ hop \in Address
  <2>1. CASE VpnRoutes(a) # {}
    <3>1. VpnRoutes(a) = {1}
      BY <2>1, VpnTable DEF VpnRoutes
    <3>2. vpn_route[First(VpnRoutes(a))].des = Peer
      BY <3>1, VpnTable, FirstOfOne
    <3>3. QED
      BY <3>2, KnownAddresses
  <2>2. CASE VpnRoutes(a) = {}
    BY <2>2
  <2>3. QED
    BY <2>1, <2>2
<1>3. index \in Nat
  BY RerouteNat
<1>4. card \in Nat /\ (Cards(hop) # {} => card = First(Cards(hop)))
  BY <1>3, NetcardNat DEF getnetcard
<1>5. head \in Header
  <2>1. [dst |-> hop, vpn |-> TRUE] \in Header
    BY <1>2 DEF Header
  <2>2. Head(Wrap(hop, p)) = [dst |-> hop, vpn |-> TRUE]
    BY DEF Wrap
  <2>3. QED
    BY <1>1, <2>1, <2>2, HeadIs
<1>6. frame \in Seq(Header)
  BY <1>5, PutInFront
<1>7. \/ index = 0 /\ Keep("nothing", p, <<>>, a, 0) /\ UNCHANGED <<outer, waiting>>
      \/ /\ outer' = head
         /\ \/ hop \in arp_table /\ Keep("sent", p, frame, hop, card) /\ UNCHANGED waiting
            \/ /\ HasRoom /\ waiting' = Append(waiting, [frame |-> frame, ip |-> hop])
               /\ Keep("waits", p, frame, hop, card)
            \/ Keep("dropped", p, frame, hop, card) /\ UNCHANGED waiting
  BY DEF ip_sed_process
<1> HIDE DEF index, hop, head, frame, card
<1>8. CASE Keep("nothing", p, <<>>, a, 0) /\ UNCHANGED <<outer, waiting>>
  <2>1. <<>> \in Seq(Header) /\ 0 \in Nat
    OBVIOUS
  <2>2. last' \in Lasts /\ last'.what = "nothing" /\ last'.packet = p
    BY <1>8, <2>1, KeepIs
  <2>3. QED
    BY <1>1, <1>8, <2>2
<1>9. CASE outer' = head /\ hop \in arp_table /\ Keep("sent", p, frame, hop, card)
           /\ UNCHANGED waiting
  BY <1>1, <1>2, <1>4, <1>5, <1>6, <1>9, KeepIs
<1>10. CASE /\ outer' = head /\ HasRoom
            /\ waiting' = Append(waiting, [frame |-> frame, ip |-> hop])
            /\ Keep("waits", p, frame, hop, card)
  <2>1. [frame |-> frame, ip |-> hop] \in Waits
    BY <1>2, <1>6 DEF Waits
  <2>2. waiting' \in Seq(Waits) /\ Len(waiting') <= WaitSlots
    BY <1>1, <1>10, <2>1 DEF HasRoom
  <2>3. QED
    BY <1>2, <1>4, <1>5, <1>6, <1>10, <2>2, KeepIs
<1>11. CASE outer' = head /\ Keep("dropped", p, frame, hop, card) /\ UNCHANGED waiting
  BY <1>1, <1>2, <1>4, <1>5, <1>6, <1>11, KeepIs
<1>12. QED
  BY <1>7, <1>8, <1>9, <1>10, <1>11

\* A packet that was sent went where the search for its card led.
LEMMA SendStep ==
  ASSUME IInv, HopInv, phase = "running", UNCHANGED startVars,
         NEW p \in Seq(Header), p # <<>>, NEW a \in Address, ip_sed_process(p, a),
         Routes(Head(p).dst) # {} /\ a \in arp_table => a \in {Remote, Peer} \/ Cards(a) = {}
  PROVE  HopInv'
<1>1. /\ DevicesKnown /\ TypeOK
      /\ phase' = phase /\ device' = device /\ at' = at /\ socket' = socket
  BY DEF IInv, HopInv, startVars
<1>2. /\ outer' \in Header /\ last' \in Lasts
      /\ waiting' \in Seq(Waits) /\ Len(waiting') <= WaitSlots
      /\ last'.packet = p
      /\ last'.what = "sent" =>
           /\ last'.hop \in {a, Peer} /\ last'.hop \in arp_table
           /\ Cards(last'.hop) # {} => last'.card = First(Cards(last'.hop))
  BY <1>1, SendIs
<1>3. TypeOK'
  BY <1>1, <1>2 DEF TypeOK, StartTypeOK, Waits, Lasts
<1>4. DevicesRead'
  BY <1>1 DEF HopInv, DevicesRead
<1>5. \A b : Cards(b)' = Cards(b)
  BY <1>1 DEF Cards
<1>6. SentWhere'
  <2> SUFFICES ASSUME last'.what = "sent"
               PROVE  /\ phase' = "running" /\ last'.hop \in arp_table
                      /\ Cards(last'.hop) # {} => last'.card = First(Cards(last'.hop))
                      /\ Routes(Head(p).dst) # {} =>
                           last'.hop \in {Remote, Peer} \/ Cards(last'.hop) = {}
    BY <1>1, <1>2, <1>5 DEF SentWhere, Cards, Routes
  <2>1. QED
    BY <1>1, <1>2
<1>7. QED
  BY <1>3, <1>4, <1>6 DEF HopInv

LEMMA MineStep ==
  ASSUME HopInv, UNCHANGED startVars, NEW p \in Seq(Header), getmessage(p)
  PROVE  HopInv'
<1>1. /\ TypeOK /\ phase' = phase /\ device' = device /\ at' = at /\ socket' = socket
      /\ outer' = outer /\ waiting' = waiting
  BY DEF HopInv, startVars, getmessage
<1>2. NoAddress \in Address /\ <<>> \in Seq(Header) /\ 0 \in Nat
  BY DEF Address
<1>3. last' \in Lasts /\ last'.what = "mine"
  BY <1>2, KeepIs DEF getmessage
<1>4. TypeOK'
  BY <1>1, <1>3 DEF TypeOK, StartTypeOK, Lasts
<1>5. DevicesRead' /\ SentWhere'
  BY <1>1, <1>3 DEF HopInv, DevicesRead, SentWhere
<1>6. QED
  BY <1>4, <1>5 DEF HopInv

-----------------------------------------------------------------------------
(* What comes in *)

LEMMA PacketsIn ==
  ASSUME NEW p \in Received
  PROVE  /\ p \in Seq(Header) /\ p # <<>>
         /\ Head(p).vpn => Tail(p) \in Seq(Header) /\ Tail(p) # <<>>
<1>1. \A a \in Destinations : a \in Address
  BY ForwardingAssumption DEF Address
<1>2. p \in Seq(Header) /\ (Head(p).vpn => Tail(p) \in Seq(Header))
  BY ReceivedPackets
<1>3. ASSUME NEW a \in Destinations, p = Plain(a)
      PROVE  p # <<>> /\ ~Head(p).vpn
  BY <1>3 DEF Plain
<1>4. ASSUME NEW a \in Destinations, NEW b \in Destinations, p = Wrap(a, Plain(b))
      PROVE  p # <<>> /\ Tail(p) # <<>>
  <2>1. [dst |-> a, vpn |-> TRUE] \in Header /\ Plain(b) \in Seq(Header) /\ Plain(b) # <<>>
    BY <1>1 DEF Header, Plain
  <2>2. Tail(p) = Plain(b)
    BY <1>4, <2>1, PutInFront DEF Wrap
  <2>3. p # <<>>
    BY <1>4, <2>1 DEF Wrap
  <2>4. QED
    BY <2>1, <2>2, <2>3
<1>5. QED
  BY <1>2, <1>3, <1>4 DEF Received

LEMMA ReceiveKeeps == ASSUME IInv, HopInv, Receive PROVE HopInv'
<1>1. PICK p \in Received : ip_rec_process(p)
  BY DEF Receive
<1>2. phase = "running" /\ UNCHANGED startVars /\ DevicesKnown
  BY DEF Receive, IInv
<1>3. p \in Seq(Header) /\ p # <<>> /\ Head(p).dst \in Address
  BY PacketsIn, HeadIs
<1>4. CASE Transit(p)
  <2> DEFINE a == Head(p).dst
  <2>1. CASE ip_sed_process(p, a) /\ (reroute(a) = 0 \/ device[reroute(a)].vpn)
    <3>1. CASE reroute(a) = 0
      <4>1. UNCHANGED <<outer, waiting>> /\ Keep("nothing", p, <<>>, a, 0)
        BY <2>1, <3>1 DEF ip_sed_process
      <4>2. last'.what = "nothing" /\ last' \in Lasts
        <5>1. <<>> \in Seq(Header) /\ 0 \in Nat
          OBVIOUS
        <5>2. QED
          BY <1>3, <4>1, <5>1, KeepIs
      <4>3. QED
        BY <1>2, <4>1, <4>2 DEF HopInv, TypeOK, StartTypeOK, startVars, Lasts, DevicesRead,
           SentWhere
    <3>2. CASE reroute(a) # 0 /\ device[reroute(a)].vpn
      <4>1. a.net = "far"
        BY <1>2, <3>2, VpnIsFar
      <4>2. a \notin arp_table
        BY <4>1, KnownAddresses
      <4>3. QED
        BY <1>2, <1>3, <2>1, <4>2, SendStep
    <3>3. QED
      BY <2>1, <3>1, <3>2
  <2>2. CASE \E gw \in Gateways(a) : ip_sed_process(p, gw)
    <3>1. PICK gw \in Gateways(a) : ip_sed_process(p, gw)
      BY <2>2
    <3>2. gw \in Address /\ (Routes(a) # {} => gw \in {Remote, Peer, Addr("far", 2)})
      BY <1>2, GatewaysKnown
    <3>3. Routes(a) # {} /\ gw \in arp_table => gw \in {Remote, Peer}
      BY <3>2, KnownAddresses
    <3>4. QED
      BY <1>2, <1>3, <3>1, <3>2, <3>3, SendStep
  <2>3. QED
    BY <1>4, <2>1, <2>2 DEF Transit
<1>5. CASE Head(p).vpn /\ Unpack(Tail(p))
  <2>1. Tail(p) \in Seq(Header) /\ Tail(p) # <<>>
    BY <1>5, PacketsIn
  <2> DEFINE a == Head(Tail(p)).dst
  <2>2. a \in Address
    BY <2>1, HeadIs
  <2>3. CASE getmessage(Tail(p))
    BY <1>2, <2>1, <2>3, MineStep
  <2>4. CASE ~whether_ip_me(a) /\ ip_sed_process(Tail(p), a)
    <3>1. Cards(a) = {}
      BY <2>4 DEF whether_ip_me
    <3>2. QED
      BY <1>2, <2>1, <2>2, <2>4, <3>1, SendStep
  <2>5. QED
    BY <1>5, <2>3, <2>4 DEF Unpack
<1>6. CASE getmessage(p)
  BY <1>2, <1>3, <1>6, MineStep
<1>7. QED
  BY <1>1, <1>4, <1>5, <1>6 DEF ip_rec_process

LEMMA ClientKeeps == ASSUME IInv, HopInv, TcpSends PROVE HopInv'
<1>1. Plain(Remote) \in Seq(Header) /\ Plain(Remote) # <<>> /\ Remote \in Address
  BY KnownAddresses DEF Plain, Header
<1>2. QED
  BY <1>1, SendStep DEF TcpSends

-----------------------------------------------------------------------------
(* The start-up *)

LEMMA SocketAppend ==
  ASSUME NEW S, NEW n \in Nat, NEW f \in [1 .. n -> S], NEW x \in S
  PROVE  Append(f, x) \in [1 .. n + 1 -> S]
<1>1. f \in Seq(S) /\ Len(f) = n
  OBVIOUS
<1>2. Append(f, x) \in Seq(S) /\ Len(Append(f, x)) = n + 1
  BY <1>1
<1>3. Append(f, x) \in [1 .. Len(Append(f, x)) -> S]
  BY <1>2, LenProperties
<1>4. QED
  BY <1>2, <1>3

\* One more device, with no socket.
LEMMA OneMore ==
  ASSUME IInv, HopInv, NEW d \in Device, device' = Append(device, d),
         socket' = Append(socket, "none"), d.vpn <=> d.interface = "vpn_eth0",
         ~Listed(d.interface),
         d.vpn => d.mac = "none" /\ d.nets = {"tunnel"} /\ d.ip = Addr("tunnel", 1),
         ~d.vpn => d.mac = "none" /\ d.ip = NoAddress /\ d.nets = AllNets
  PROVE  /\ device' \in Seq(Device) /\ Len(device') = Len(device) + 1 /\ Len(device) \in Nat
         /\ socket' \in [1 .. Len(device') -> Sockets]
         /\ DevicesRead'
<1>1. device \in Seq(Device) /\ Len(device) \in Nat /\ socket \in [1 .. Len(device) -> Sockets]
  BY DEF HopInv, TypeOK, StartTypeOK
<1>2. device' \in Seq(Device) /\ Len(device') = Len(device) + 1
  BY <1>1
<1>3. "none" \in Sockets
  BY DEF Sockets, Macs
<1>4. socket' \in [1 .. Len(device') -> Sockets]
  BY <1>1, <1>2, <1>3, SocketAppend
<1>5. /\ \A k \in DOMAIN device : device'[k] = device[k]
      /\ DOMAIN device' = DOMAIN device \cup {Len(device) + 1}
      /\ device'[Len(device) + 1] = d
  BY AppendKeeps DEF IInv
<1>6. DevicesRead'
  <2> SUFFICES ASSUME NEW k \in DOMAIN device'
               PROVE  /\ device'[k].vpn => /\ device'[k].mac = "none" /\ device'[k].nets = {"tunnel"}
                                           /\ device'[k].ip = Addr("tunnel", 1)
                      /\ ~device'[k].vpn =>
                           /\ device'[k].mac \in {"none", device'[k].interface}
                           /\ device'[k].ip \in {OwnAddress[device'[k].interface], NoAddress}
    BY DEF DevicesRead
  <2>1. CASE k \in DOMAIN device
    BY <1>5, <2>1 DEF HopInv, DevicesRead
  <2>2. CASE k = Len(device) + 1
    BY <1>5, <2>2
  <2>3. QED
    BY <1>5, <2>1, <2>2
<1>7. QED
  BY <1>1, <1>2, <1>4, <1>6

LEMMA ReadOne ==
  ASSUME IInv, HopInv, ReadDevice
  PROVE  device' \in Seq(Device) /\ Len(device') = Len(device) /\ DevicesRead'
<1> DEFINE n == device[at].interface
<1>1. /\ device \in Seq(Device) /\ Len(device) \in Nat /\ at \in 1 .. Len(device)
      /\ at \in DOMAIN device /\ phase = "addresses"
  BY DEF HopInv, TypeOK, StartTypeOK, ReadDevice
<1>2. device[at] \in Device
  BY <1>1
<1>3. n # "vpn_eth0" /\ ~device[at].vpn
  BY <1>1 DEF IInv, VpnDeviceSet, DevicesKnown
<1>4. n \in Names /\ n # "none"
  BY <1>2, <1>3, StartUpAssumption DEF Device
<1>5. OwnAddress[n] \in Address /\ NoAddress \in Address
  BY <1>4, StartUpAssumption DEF Address
<1>6. PICK d \in Device :
        /\ device' = [device EXCEPT ![at] = d]
        /\ d.interface = n /\ d.vpn = device[at].vpn /\ d.mac = n
        /\ d.ip \in {OwnAddress[n], NoAddress}
  <2>0. PICK ip \in {OwnAddress[n], NoAddress} :
          \E nets \in {N \in Netmasks : ip.net \in N} \cup {AllNets} :
            device' = [device EXCEPT ![at].mac = n, ![at].ip = ip, ![at].nets = nets]
    BY DEF ReadDevice
  <2>1. PICK nets \in {N \in Netmasks : ip.net \in N} \cup {AllNets} :
          device' = [device EXCEPT ![at].mac = n, ![at].ip = ip, ![at].nets = nets]
    BY <2>0
  <2>2. nets \in SUBSET AllNets /\ ip \in Address
    BY <1>5, StartUpAssumption
  <2> DEFINE d == [device[at] EXCEPT !.mac = n, !.ip = ip, !.nets = nets]
  <2>3. /\ d \in Device /\ d.interface = n /\ d.vpn = device[at].vpn /\ d.mac = n
        /\ d.ip = ip /\ d.nets = nets
    BY <1>2, <1>4, <2>2 DEF Device, Macs
  <2>4. device' = [device EXCEPT ![at] = d]
    BY <1>1, <1>2, <2>1 DEF Device
  <2> HIDE DEF d
  <2>5. QED
    BY <2>3, <2>4
<1>7. device' \in Seq(Device) /\ Len(device') = Len(device) /\ DOMAIN device' = DOMAIN device
  BY <1>1, <1>6
<1>8. DevicesRead'
  <2> SUFFICES ASSUME NEW k \in DOMAIN device
               PROVE  /\ device'[k].vpn => /\ device'[k].mac = "none" /\ device'[k].nets = {"tunnel"}
                                           /\ device'[k].ip = Addr("tunnel", 1)
                      /\ ~device'[k].vpn =>
                           /\ device'[k].mac \in {"none", device'[k].interface}
                           /\ device'[k].ip \in {OwnAddress[device'[k].interface], NoAddress}
    BY <1>7 DEF DevicesRead
  <2>1. CASE k = at
    <3>1. device'[k] = d
      BY <1>1, <1>6, <2>1
    <3>2. QED
      BY <1>3, <1>6, <3>1
  <2>2. CASE k # at
    <3>1. device'[k] = device[k]
      BY <1>1, <1>6, <2>2
    <3>2. QED
      BY <3>1 DEF HopInv, DevicesRead
  <2>3. QED
    BY <2>1, <2>2
<1>9. QED
  BY <1>7, <1>8

LEMMA StartHops == ASSUME IInv, HopInv, StartStep PROVE HopInv'
<1>1. /\ outer' = outer /\ waiting' = waiting /\ last' = last /\ phase # "running"
      /\ phase' \in Phases /\ TypeOK
  BY DEF HopInv, StartStep, StartNext, ListDevice, ListEnds, ReadDevice, ReadEnds, AddVpnDevice,
         OpenSocket, OpenEnds, Phases
<1>2. SentWhere'
  BY <1>1 DEF HopInv, SentWhere
<1>3. /\ device \in Seq(Device) /\ Len(device) \in Nat /\ at \in 1 .. Len(device) + 1
      /\ socket \in [1 .. Len(device) -> Sockets]
  BY <1>1 DEF TypeOK, StartTypeOK
<1>4. StartTypeOK' /\ DevicesRead'
  <2>1. CASE ListDevice
    <3>1. PICK n \in Names :
            /\ ~Listed(n)
            /\ device' = Append(device, [interface |-> n, mac |-> "none", ip |-> NoAddress,
                                         nets |-> AllNets, vpn |-> FALSE])
      BY <2>1 DEF ListDevice
    <3> DEFINE d == [interface |-> n, mac |-> "none", ip |-> NoAddress,
                     nets |-> AllNets, vpn |-> FALSE]
    <3>2. d \in Device /\ n # "vpn_eth0"
      BY StartUpAssumption DEF Device, Macs, Address
    <3>3. socket' = Append(socket, "none") /\ at' = at
      BY <2>1 DEF ListDevice
    <3>4. /\ device' \in Seq(Device) /\ Len(device') = Len(device) + 1
          /\ socket' \in [1 .. Len(device') -> Sockets] /\ DevicesRead'
      BY <3>1, <3>2, <3>3, OneMore
    <3>5. QED
      BY <1>1, <1>3, <3>3, <3>4 DEF StartTypeOK
  <2>2. CASE AddVpnDevice
    <3> DEFINE d == [interface |-> "vpn_eth0", mac |-> "none",
                     ip |-> Addr("tunnel", 1), nets |-> {"tunnel"}, vpn |-> TRUE]
    <3>1. d \in Device
      BY DEF Device, Macs, Address, Addr, Nets, AllNets
    <3>2. ~Listed("vpn_eth0")
      BY <2>2 DEF IInv, VpnDeviceSet, Listed, AddVpnDevice, DevicesKnown
    <3>3. device' = Append(device, d) /\ socket' = Append(socket, "none") /\ at' = 1
      BY <2>2 DEF AddVpnDevice
    <3>4. /\ device' \in Seq(Device) /\ Len(device') = Len(device) + 1
          /\ socket' \in [1 .. Len(device') -> Sockets] /\ DevicesRead'
      BY <3>1, <3>2, <3>3, OneMore
    <3>5. QED
      BY <1>1, <1>3, <3>3, <3>4 DEF StartTypeOK
  <2>3. CASE ReadDevice
    <3>1. device' \in Seq(Device) /\ Len(device') = Len(device) /\ DevicesRead'
      BY <2>3, ReadOne
    <3>2. socket' = socket /\ at' = at + 1 /\ at <= Len(device)
      BY <2>3 DEF ReadDevice
    <3>3. QED
      BY <1>1, <1>3, <3>1, <3>2 DEF StartTypeOK
  <2>4. CASE OpenSocket
    <3>1. device' = device /\ at' = at + 1 /\ at \in DOMAIN device /\ at <= Len(device)
      BY <1>3, <2>4 DEF OpenSocket
    <3>2. ~device[at].vpn => {device[at].interface, "stray"} \subseteq Sockets
      <4>1. device[at] \in Device /\ (device[at].interface = "vpn_eth0" => device[at].vpn)
        BY <1>3, <3>1 DEF IInv, DevicesKnown
      <4>2. QED
        BY <4>1 DEF Device, Macs, Sockets
    <3>3. socket' \in [1 .. Len(device') -> Sockets]
      BY <1>3, <2>4, <3>1, <3>2 DEF OpenSocket
    <3>4. QED
      BY <1>1, <1>3, <3>1, <3>3 DEF StartTypeOK, HopInv, DevicesRead
  <2>5. CASE ListEnds \/ ReadEnds \/ OpenEnds
    <3>1. device' = device /\ at' \in {at, 1} /\ socket' = socket
      BY <2>5 DEF ListEnds, ReadEnds, OpenEnds
    <3>2. QED
      BY <1>1, <1>3, <3>1 DEF StartTypeOK, HopInv, DevicesRead
  <2>6. QED
    BY <2>1, <2>2, <2>3, <2>4, <2>5 DEF StartStep, StartNext
<1>5. QED
  BY <1>1, <1>2, <1>4 DEF HopInv, TypeOK

-----------------------------------------------------------------------------
(* The theorems *)

LEMMA HopInitially == Init => HopInv
<1> SUFFICES ASSUME Init PROVE HopInv
  OBVIOUS
<1>1. NoAddress \in Address /\ [dst |-> NoAddress, vpn |-> FALSE] \in Header
  BY DEF Address, Header
<1>2. StartTypeOK
  BY DEF Init, StartInit, StartTypeOK, Phases
<1>3. <<>> \in Seq(Waits) /\ Len(<<>>) = 0 /\ <<>> \in Seq(Header)
  OBVIOUS
<1>4. Nothing \in Lasts
  BY <1>1, <1>3 DEF Nothing, Lasts
<1>5. TypeOK
  BY <1>1, <1>2, <1>3, <1>4, ForwardingAssumption DEF Init, TypeOK, Waits, Lasts
<1>6. DevicesRead /\ SentWhere
  BY DEF Init, StartInit, DevicesRead, SentWhere, Nothing
<1>7. QED
  BY <1>5, <1>6 DEF HopInv

LEMMA HopInductive == IInv /\ HopInv /\ [Next]_vars => HopInv'
<1>1. ASSUME IInv, HopInv, UNCHANGED vars PROVE HopInv'
  BY <1>1 DEF vars, startVars, HopInv, TypeOK, StartTypeOK, DevicesRead, SentWhere, Cards, Routes
<1>2. QED
  BY <1>1, StartHops, ClientKeeps, ReceiveKeeps DEF Next

LEMMA HopInvariance == Spec => [](IInv /\ HopInv)
BY Initially, Inductive, HopInitially, HopInductive, PTL DEF Spec

\* The tables, the buffer, the waiting packets and what is kept of the last packet have
\* their types, whatever of the start-up failed.
THEOREM TypeCorrect == Spec => []TypeOK
<1>1. HopInv => TypeOK
  BY DEF HopInv
<1>2. QED
  BY <1>1, HopInvariance, PTL

\* The cards the routes name have addresses of the networks the routes are to.
CardsAsRouted ==
  /\ "eth4" \in Names => OwnAddress["eth4"].net = "lan"
  /\ "eth5" \in Names => OwnAddress["eth5"].net = "wan"

\* On a host set up as a whole each frame leaves through the open socket of the card on
\* its next hop's network, also the wrapped ones.
THEOREM LeavesRight == ASSUME CardsAsRouted PROVE Spec => []LeavesByItsNetwork
<1>1. IInv /\ HopInv => LeavesByItsNetwork
  <2> SUFFICES ASSUME IInv, HopInv, Whole, last.what = "sent"
               PROVE  /\ socket[last.card] # "none"
                      /\ device[last.card].ip.net = last.hop.net
    BY DEF LeavesByItsNetwork
  <2>1. last.hop.net \in {"lan", "wan"}
    BY KnownAddresses DEF HopInv, SentWhere
  <2>2. PICK k \in 1 .. Len(device) :
          device[k].interface = IF last.hop.net = "lan" THEN "eth4" ELSE "eth5"
    BY DEF Whole, Addressed, Listed
  <2>3. k \in DOMAIN device /\ device[k] \in Device
    BY DEF IInv, DevicesKnown
  <2>4. ~device[k].vpn /\ device[k].interface \in Names
    BY <2>2, <2>3 DEF IInv, DevicesKnown, Device
  <2>5. device[k].ip.net = last.hop.net
    BY <2>1, <2>2, <2>3, <2>4 DEF CardsAsRouted, HopInv, DevicesRead, Whole, Addressed
  <2>6. Cards(last.hop) # {}
    BY <2>3, <2>5 DEF Cards, Whole, Addressed
  <2>7. last.card \in Cards(last.hop)
    BY <2>6, FirstCard DEF HopInv, SentWhere, IInv
  <2>8. last.card \in DOMAIN device /\ device[last.card].ip.net = last.hop.net
    BY <2>7 DEF Cards, Whole, Addressed
  <2>9. ~device[last.card].vpn
    BY <2>1, <2>8 DEF HopInv, DevicesRead, Addr
  <2>10. socket[last.card] = device[last.card].interface
    BY <2>8, <2>9 DEF Whole
  <2>11. device[last.card] \in Device /\ device[last.card].interface # "vpn_eth0"
    BY <2>8, <2>9 DEF IInv, DevicesKnown
  <2>12. device[last.card].interface # "none"
    BY <2>11, StartUpAssumption DEF Device
  <2>13. QED
    BY <2>8, <2>10, <2>12
<1>2. QED
  BY <1>1, HopInvariance, PTL

\* No card has the address of one of the routers the tables name.
CardsNotRouters == \A n \in Names : OwnAddress[n] \notin {Remote, Peer}

\* The router does not take in again what it sent, whatever of the start-up failed, but
\* for a packet without any route, and one for an address it does not know to be its own.
THEOREM NotHeardAgain == ASSUME CardsNotRouters PROVE Spec => []SentNotHeard
<1>1. IInv /\ HopInv => SentNotHeard
  <2> SUFFICES ASSUME IInv, HopInv, last.what = "sent",
                      Routes(Head(last.packet).dst) # {}, last.hop \notin Hidden
               PROVE  ~whether_inout(last.hop)
    BY DEF SentNotHeard
  <2>1. last.hop \in arp_table /\ (last.hop \in {Remote, Peer} \/ Cards(last.hop) = {})
    BY DEF HopInv, SentWhere
  <2>2. last.hop # Broadcast /\ last.hop # NoAddress
    BY <2>1, KnownAddresses DEF Broadcast, NoAddress, Addr
  <2>3. ASSUME NEW k \in DOMAIN device, Hardware(k) = last.hop PROVE FALSE
    <3>1. device[k] \in Device /\ device[k].mac # "none" /\ ~device[k].vpn
      BY <2>2, <2>3 DEF Hardware, HopInv, DevicesRead, IInv, DevicesKnown
    <3>2. device[k].mac = device[k].interface /\ device[k].mac \in Names
      BY <2>3, <3>1 DEF HopInv, DevicesRead, Device, Macs
    <3>3. last.hop = OwnAddress[device[k].mac]
      BY <2>3, <3>1 DEF Hardware
    <3>4. last.hop \notin {Remote, Peer}
      BY <3>2, <3>3 DEF CardsNotRouters
    <3>5. Cards(last.hop) = {}
      BY <2>1, <3>4
    <3>6. last.hop.net \notin device[k].nets
      BY <2>3, <3>5 DEF Cards
    <3>7. last.hop \in Hidden
      BY <2>3, <3>6 DEF Hidden
    <3>8. QED
      BY <3>7
  <2>4. QED
    BY <2>2, <2>3 DEF whether_inout
<1>2. QED
  BY <1>1, HopInvariance, PTL
=============================================================================
