--------------------------- MODULE ForwardingProofs ---------------------------
(***************************************************************************)
(* For every set of interfaces, every address they have, every packet that *)
(* comes in and every number of waiting places, whichever part of the      *)
(* start-up failed: a packet for the network behind the VPN only leaves    *)
(* wrapped, and a wrapped packet has a header of its own.                  *)
(***************************************************************************)
EXTENDS ForwardingProperties, SequenceTheorems, TLAPS

(* The inductive invariant *)

\* No interface is listed twice, and the VPN's device is the marked one.
DevicesKnown ==
  /\ device \in Seq(Device)
  /\ \A j, k \in DOMAIN device : device[j].interface = device[k].interface => j = k
  /\ \A k \in DOMAIN device : device[k].vpn <=> device[k].interface = "vpn_eth0"

\* It is there once initial_vpn_device has run, and not before.
VpnDeviceSet ==
  (phase \in {"sockets", "running"}) <=> \E k \in DOMAIN device : device[k].interface = "vpn_eth0"

IInv == /\ at \in Nat \ {0}
        /\ phase \in Phases
        /\ DevicesKnown
        /\ VpnDeviceSet
        /\ WrappedAfresh
        /\ FarOnlyWrapped

-----------------------------------------------------------------------------
(* The tables *)

LEMMA RouteTable ==
  /\ DOMAIN route_info = 1 .. 3
  /\ route_info[1].destination = "lan" /\ route_info[1].interface = "eth4"
  /\ route_info[2].destination = "wan" /\ route_info[2].interface = "eth5"
  /\ route_info[3].destination = "far" /\ route_info[3].interface = "vpn_eth0"
BY DEF route_info

LEMMA VpnTable ==
  /\ DOMAIN vpn_route = {1}
  /\ vpn_route[1].vpn_des = "far" /\ vpn_route[1].des = Peer
BY DEF vpn_route

LEMMA FirstOfOne == ASSUME NEW k \in Nat PROVE First({k}) = k
BY DEF First

\* At most one route fits, since the routes are to different networks.
LEMMA OneRoute ==
  ASSUME NEW a, Routes(a) # {}
  PROVE  \E r \in 1 .. 3 : Routes(a) = {r} /\ route_info[r].destination = a.net
<1>1. PICK r \in 1 .. 3 : r \in Routes(a)
  BY RouteTable DEF Routes
<1>2. route_info[r].destination = a.net
  BY <1>1 DEF Routes
<1>3. \A s \in Routes(a) : s = r
  BY <1>2, RouteTable DEF Routes
<1>4. QED
  BY <1>1, <1>2, <1>3

\* At most one device has the name, since no interface is listed twice.
LEMMA OneDevice ==
  ASSUME DevicesKnown, NEW r, NEW k \in Named(r)
  PROVE  Named(r) = {k}
BY DEF Named, DevicesKnown

\* If reroute finds a device, the route to its interface fits.
LEMMA RerouteFinds ==
  ASSUME DevicesKnown, NEW a, Usable(a) # {}
  PROVE  \E r \in 1 .. 3 : /\ Routes(a) = {r} /\ route_info[r].destination = a.net
                           /\ reroute(a) \in DOMAIN device
                           /\ device[reroute(a)].interface = route_info[r].interface
<1>1. Routes(a) # {}
  BY DEF Usable
<1>2. PICK r \in 1 .. 3 : Routes(a) = {r} /\ route_info[r].destination = a.net
  BY <1>1, OneRoute
<1>3. Usable(a) = {r} /\ Named(r) # {}
  BY <1>2 DEF Usable
<1>4. PICK k \in Named(r) : TRUE
  BY <1>3
<1>5. k \in DOMAIN device /\ device[k].interface = route_info[r].interface /\ k \in Nat
  BY <1>4 DEF Named, DevicesKnown
<1>6. Named(r) = {k}
  BY <1>4, OneDevice
<1>7. reroute(a) = k
  <2>1. First(Usable(a)) = r
    BY <1>3, FirstOfOne
  <2>2. First(Named(r)) = k
    BY <1>5, <1>6, FirstOfOne
  <2>3. QED
    BY <1>3, <2>1, <2>2 DEF reroute
<1>8. QED
  BY <1>2, <1>5, <1>7

\* What leaves through the VPN's device is for the network behind it.
LEMMA VpnIsFar ==
  ASSUME DevicesKnown, NEW a, reroute(a) # 0, device[reroute(a)].vpn
  PROVE  a.net = "far"
<1>1. Usable(a) # {}
  BY DEF reroute
<1>2. PICK r \in 1 .. 3 : /\ Routes(a) = {r} /\ route_info[r].destination = a.net
                          /\ reroute(a) \in DOMAIN device
                          /\ device[reroute(a)].interface = route_info[r].interface
  BY <1>1, RerouteFinds
<1>3. device[reroute(a)].interface = "vpn_eth0"
  BY <1>2 DEF DevicesKnown
<1>4. route_info[r].interface = "vpn_eth0"
  BY <1>2, <1>3
<1>5. r = 1 \/ r = 2 \/ r = 3
  OBVIOUS
<1>6. QED
  BY <1>2, <1>4, <1>5, RouteTable

\* What is for that network leaves through the VPN's device.
LEMMA FarIsVpn ==
  ASSUME DevicesKnown, NEW a, a.net = "far",
         \E k \in DOMAIN device : device[k].interface = "vpn_eth0"
  PROVE  reroute(a) # 0 /\ device[reroute(a)].vpn
<1>1. 3 \in Usable(a)
  BY RouteTable DEF Usable, Routes, Named
<1>2. PICK r \in 1 .. 3 : /\ Routes(a) = {r} /\ route_info[r].destination = a.net
                          /\ reroute(a) \in DOMAIN device
                          /\ device[reroute(a)].interface = route_info[r].interface
  BY <1>1, RerouteFinds
<1>3. r = 3
  BY <1>2, RouteTable
<1>4. device[reroute(a)].interface = "vpn_eth0"
  BY <1>2, <1>3, RouteTable
<1>5. reroute(a) # 0 /\ device[reroute(a)].vpn
  BY <1>2, <1>4 DEF DevicesKnown
<1>6. QED
  BY <1>5

\* The VPN route fits exactly the network behind the VPN.
LEMMA VpnRouteFits ==
  ASSUME NEW a, a.net = "far"
  PROVE  VpnRoutes(a) # {} /\ vpn_route[First(VpnRoutes(a))].des = Peer
<1>1. VpnRoutes(a) = {1}
  BY VpnTable DEF VpnRoutes
<1>2. QED
  BY <1>1, VpnTable, FirstOfOne

-----------------------------------------------------------------------------
(* Packets *)

LEMMA WrapHead ==
  ASSUME NEW a, NEW p \in Seq(Header)
  PROVE  <<Head(Wrap(a, p))>> \o p = Wrap(a, p)
BY DEF Wrap

\* ip_sed_process changes a packet only by wrapping it, and wraps exactly what it is
\* told to send behind the VPN.
LEMMA SendKeeps ==
  ASSUME DevicesKnown, NEW p \in Seq(Header), NEW a,
         ip_sed_process(p, a),
         Head(p).dst.net = "far" =>
           /\ a.net = "far"
           /\ \E k \in DOMAIN device : device[k].interface = "vpn_eth0"
  PROVE  WrappedAfresh' /\ FarOnlyWrapped'
<1>1. CASE reroute(a) = 0
  <2>1. last'.frame = <<>>
    BY <1>1 DEF ip_sed_process, Keep
  <2>2. QED
    BY <2>1 DEF WrappedAfresh, FarOnlyWrapped
<1>2. CASE reroute(a) # 0 /\ ~device[reroute(a)].vpn
  <2>1. last'.packet = p /\ last'.frame = p
    BY <1>2 DEF ip_sed_process, Keep
  <2>2. Head(p).dst.net # "far"
    BY <1>2, FarIsVpn
  <2>3. QED
    BY <2>1, <2>2 DEF WrappedAfresh, FarOnlyWrapped
<1>3. CASE reroute(a) # 0 /\ device[reroute(a)].vpn
  <2>1. a.net = "far"
    BY <1>3, VpnIsFar
  <2>2. VpnRoutes(a) # {} /\ vpn_route[First(VpnRoutes(a))].des = Peer
    BY <2>1, VpnRouteFits
  <2>3. last'.packet = p /\ last'.hop = Peer /\ last'.frame = <<Head(Wrap(Peer, p))>> \o p
    BY <1>3, <2>2 DEF ip_sed_process, Keep
  <2>4. last'.frame = Wrap(Peer, p)
    BY <2>3, WrapHead
  <2>5. QED
    BY <2>3, <2>4 DEF WrappedAfresh, FarOnlyWrapped
<1>4. QED
  BY <1>1, <1>2, <1>3

LEMMA NotSending ==
  ASSUME NEW p, getmessage(p)
  PROVE  WrappedAfresh' /\ FarOnlyWrapped'
BY DEF getmessage, Keep, WrappedAfresh, FarOnlyWrapped

LEMMA PutInFront ==
  ASSUME NEW h \in Header, NEW q \in Seq(Header)
  PROVE  <<h>> \o q \in Seq(Header) /\ Tail(<<h>> \o q) = q
<1>1. <<h>> \in Seq(Header) /\ Len(<<h>>) = 1
  OBVIOUS
<1>2. <<h>> \o q \in Seq(Header) /\ Len(<<h>> \o q) = 1 + Len(q)
  BY <1>1
<1>3. Tail(<<h>> \o q) \in Seq(Header) /\ Len(Tail(<<h>> \o q)) = Len(q)
  BY <1>2
<1>4. \A k \in 1 .. Len(q) : Tail(<<h>> \o q)[k] = q[k]
  BY <1>1, <1>2
<1>5. QED
  BY <1>2, <1>3, <1>4, SeqEqual

\* A packet another router wrapped has a packet inside.
LEMMA ReceivedPackets ==
  ASSUME NEW p \in Received
  PROVE  p \in Seq(Header) /\ (Head(p).vpn => Tail(p) \in Seq(Header))
<1>1. \A a \in Destinations : a \in Address
  BY ForwardingAssumption DEF Address
<1>2. ASSUME NEW a \in Destinations, p = Plain(a)
      PROVE  p \in Seq(Header) /\ ~Head(p).vpn
  BY <1>1, <1>2 DEF Plain, Header
<1>3. ASSUME NEW a \in Destinations, NEW b \in Destinations, p = Wrap(a, Plain(b))
      PROVE  p \in Seq(Header) /\ Tail(p) \in Seq(Header)
  <2>1. [dst |-> a, vpn |-> TRUE] \in Header /\ Plain(b) \in Seq(Header)
    BY <1>1 DEF Header, Plain
  <2>2. QED
    BY <1>3, <2>1, PutInFront DEF Wrap
<1>4. QED
  BY <1>2, <1>3 DEF Received

-----------------------------------------------------------------------------
(* The invariant *)

LEMMA Initially == Init => IInv
BY DEF Init, StartInit, IInv, DevicesKnown, VpnDeviceSet, Phases, Device, Nothing,
       WrappedAfresh, FarOnlyWrapped

\* A step of the start-up sends nothing.
LEMMA StartKeepsLast ==
  ASSUME IInv, UNCHANGED last
  PROVE  WrappedAfresh' /\ FarOnlyWrapped'
BY DEF IInv, WrappedAfresh, FarOnlyWrapped, Wrap, Peer, Addr

\* One more device, of a name not listed before.
LEMMA AppendKeeps ==
  ASSUME DevicesKnown, NEW d \in Device, device' = Append(device, d),
         d.vpn <=> d.interface = "vpn_eth0", ~Listed(d.interface)
  PROVE  /\ DevicesKnown'
         /\ \A k \in DOMAIN device : device'[k] = device[k]
         /\ DOMAIN device' = DOMAIN device \cup {Len(device) + 1}
         /\ device'[Len(device) + 1] = d
<1>1. device \in Seq(Device) /\ Len(device) \in Nat /\ DOMAIN device = 1 .. Len(device)
  BY DEF DevicesKnown
<1>2. /\ device' \in Seq(Device)
      /\ DOMAIN device' = 1 .. Len(device) + 1
      /\ \A k \in DOMAIN device : device'[k] = device[k]
      /\ device'[Len(device) + 1] = d
  BY <1>1
<1>3. \A k \in DOMAIN device : device[k].interface # d.interface
  BY <1>1 DEF Listed
<1>4. \A j, k \in DOMAIN device' : device'[j].interface = device'[k].interface => j = k
  BY <1>1, <1>2, <1>3 DEF DevicesKnown
<1>5. \A k \in DOMAIN device' : device'[k].vpn <=> device'[k].interface = "vpn_eth0"
  BY <1>1, <1>2 DEF DevicesKnown
<1>6. QED
  BY <1>1, <1>2, <1>4, <1>5 DEF DevicesKnown

LEMMA ListKeeps == ASSUME IInv, ListDevice PROVE DevicesKnown' /\ VpnDeviceSet'
<1>1. PICK n \in Names :
        /\ ~Listed(n)
        /\ device' = Append(device, [interface |-> n, mac |-> "none", ip |-> NoAddress,
                                     nets |-> AllNets, vpn |-> FALSE])
  BY DEF ListDevice
<1> DEFINE d == [interface |-> n, mac |-> "none", ip |-> NoAddress,
                 nets |-> AllNets, vpn |-> FALSE]
<1>2. n # "vpn_eth0"
  BY StartUpAssumption
<1>3. d \in Device
  BY DEF Device, Macs, Address
<1>4. /\ DevicesKnown'
      /\ \A k \in DOMAIN device : device'[k] = device[k]
      /\ DOMAIN device' = DOMAIN device \cup {Len(device) + 1}
      /\ device'[Len(device) + 1] = d
  BY <1>1, <1>2, <1>3, AppendKeeps DEF IInv
<1>5. phase' = "list" /\ phase = "list"
  BY DEF ListDevice
<1>6. QED
  BY <1>2, <1>4, <1>5 DEF IInv, VpnDeviceSet

LEMMA AddKeeps == ASSUME IInv, AddVpnDevice PROVE DevicesKnown' /\ VpnDeviceSet'
<1> DEFINE d == [interface |-> "vpn_eth0", mac |-> "none",
                 ip |-> Addr("tunnel", 1), nets |-> {"tunnel"}, vpn |-> TRUE]
<1>1. d \in Device
  BY DEF Device, Macs, Address, Addr, Nets, AllNets
<1>2. ~Listed("vpn_eth0")
  BY DEF IInv, VpnDeviceSet, Listed, AddVpnDevice, DevicesKnown
<1>3. device' = Append(device, d) /\ phase' = "sockets"
  BY DEF AddVpnDevice
<1>4. /\ DevicesKnown'
      /\ DOMAIN device' = DOMAIN device \cup {Len(device) + 1}
      /\ device'[Len(device) + 1] = d
  BY <1>1, <1>2, <1>3, AppendKeeps DEF IInv
<1>5. QED
  BY <1>3, <1>4 DEF VpnDeviceSet

\* What is read of a device does not change its name or its mark.
LEMMA ReadKeeps == ASSUME IInv, ReadDevice PROVE DevicesKnown' /\ VpnDeviceSet'
<1>1. device \in Seq(Device) /\ at \in DOMAIN device /\ phase = "addresses" /\ phase' = phase
  BY DEF IInv, DevicesKnown, ReadDevice
<1>2. device[at] \in Device
  BY <1>1
<1>3. device[at].interface # "vpn_eth0"
  BY <1>1 DEF IInv, VpnDeviceSet
<1>4. device[at].interface \in Names
  BY <1>2, <1>3 DEF Device
<1>5. OwnAddress[device[at].interface] \in Address /\ NoAddress \in Address
  BY <1>4, StartUpAssumption DEF Address
<1>6. PICK d \in Device : /\ device' = [device EXCEPT ![at] = d]
                          /\ d.interface = device[at].interface /\ d.vpn = device[at].vpn
  <2>0. PICK ip \in {OwnAddress[device[at].interface], NoAddress} :
          \E nets \in {N \in Netmasks : ip.net \in N} \cup {AllNets} :
            device' = [device EXCEPT ![at].mac = device[at].interface, ![at].ip = ip, ![at].nets = nets]
    BY DEF ReadDevice
  <2>1. PICK nets \in {N \in Netmasks : ip.net \in N} \cup {AllNets} :
          device' = [device EXCEPT ![at].mac = device[at].interface, ![at].ip = ip, ![at].nets = nets]
    BY <2>0
  <2>2. nets \in SUBSET AllNets /\ ip \in Address
    BY <1>5, StartUpAssumption
  <2> DEFINE d == [device[at] EXCEPT !.mac = device[at].interface, !.ip = ip, !.nets = nets]
  <2>3. d \in Device /\ d.interface = device[at].interface /\ d.vpn = device[at].vpn
    BY <1>2, <1>4, <2>2 DEF Device, Macs
  <2>4. device' = [device EXCEPT ![at] = d]
    BY <1>1, <1>2, <2>1 DEF Device
  <2>5. QED
    BY <2>3, <2>4
<1>7. /\ device' \in Seq(Device) /\ DOMAIN device' = DOMAIN device
      /\ \A k \in DOMAIN device : /\ device'[k].interface = device[k].interface
                                  /\ device'[k].vpn = device[k].vpn
  BY <1>1, <1>6
<1>8. QED
  BY <1>1, <1>7 DEF IInv, DevicesKnown, VpnDeviceSet

LEMMA StartSteps == ASSUME IInv, StartStep PROVE IInv'
<1>1. WrappedAfresh' /\ FarOnlyWrapped'
  BY StartKeepsLast DEF StartStep
<1>2. at' \in Nat \ {0} /\ phase' \in Phases
  BY DEF IInv, StartStep, StartNext, ListDevice, ListEnds, ReadDevice, ReadEnds, AddVpnDevice,
         OpenSocket, OpenEnds, Phases
<1>3. DevicesKnown' /\ VpnDeviceSet'
  <2>1. CASE ListDevice BY <2>1, ListKeeps
  <2>2. CASE ReadDevice BY <2>2, ReadKeeps
  <2>3. CASE AddVpnDevice BY <2>3, AddKeeps
  <2>4. CASE ListEnds \/ ReadEnds \/ OpenSocket \/ OpenEnds
    BY <2>4 DEF IInv, DevicesKnown, VpnDeviceSet, ListEnds, ReadEnds, OpenSocket, OpenEnds
  <2>5. QED
    BY <2>1, <2>2, <2>3, <2>4 DEF StartStep, StartNext
<1>4. QED
  BY <1>1, <1>2, <1>3 DEF IInv

-----------------------------------------------------------------------------
(* Sending and receiving *)

LEMMA ClientStep == ASSUME IInv, TcpSends PROVE WrappedAfresh' /\ FarOnlyWrapped'
<1>1. Plain(Remote) \in Seq(Header) /\ Head(Plain(Remote)).dst.net = "lan"
  BY DEF Plain, Remote, Addr, Header, Address, Nets
<1>2. QED
  BY <1>1, SendKeeps DEF TcpSends, IInv

\* A packet for somebody else goes where its header says, or by the gateway of a route
\* that is not the VPN's.
LEMMA TransitStep ==
  ASSUME IInv, phase = "running", NEW p \in Received, Transit(p)
  PROVE  WrappedAfresh' /\ FarOnlyWrapped'
<1>1. p \in Seq(Header) /\ DevicesKnown
  BY ReceivedPackets DEF IInv
<1>2. \E k \in DOMAIN device : device[k].interface = "vpn_eth0"
  BY DEF IInv, VpnDeviceSet
<1>3. CASE ip_sed_process(p, Head(p).dst)
  BY <1>1, <1>2, <1>3, SendKeeps
<1>4. CASE ~ip_sed_process(p, Head(p).dst)
  <2>1. ~(reroute(Head(p).dst) # 0 /\ device[reroute(Head(p).dst)].vpn)
    BY <1>4 DEF Transit
  <2>2. Head(p).dst.net # "far"
    BY <1>1, <1>2, <2>1, FarIsVpn
  <2>3. PICK gw \in Gateways(Head(p).dst) : ip_sed_process(p, gw)
    BY <1>4 DEF Transit
  <2>4. QED
    BY <1>1, <2>2, <2>3, SendKeeps
<1>5. QED
  BY <1>3, <1>4

LEMMA ReceiveStep == ASSUME IInv, Receive PROVE WrappedAfresh' /\ FarOnlyWrapped'
<1>1. PICK p \in Received : ip_rec_process(p)
  BY DEF Receive
<1>2. DevicesKnown /\ phase = "running"
  BY DEF IInv, Receive
<1>3. \E k \in DOMAIN device : device[k].interface = "vpn_eth0"
  BY <1>2 DEF IInv, VpnDeviceSet
<1>4. CASE Transit(p)
  BY <1>2, <1>4, TransitStep
<1>5. CASE Head(p).vpn /\ Unpack(Tail(p))
  <2>1. Tail(p) \in Seq(Header)
    BY <1>5, ReceivedPackets
  <2>2. CASE getmessage(Tail(p))
    BY <2>2, NotSending
  <2>3. CASE ip_sed_process(Tail(p), Head(Tail(p)).dst)
    BY <1>2, <1>3, <2>1, <2>3, SendKeeps
  <2>4. QED
    BY <1>5, <2>2, <2>3 DEF Unpack
<1>6. CASE getmessage(p)
  BY <1>6, NotSending
<1>7. QED
  BY <1>1, <1>4, <1>5, <1>6 DEF ip_rec_process

LEMMA Stutter == ASSUME IInv, UNCHANGED vars PROVE IInv'
<1>1. WrappedAfresh' /\ FarOnlyWrapped'
  BY StartKeepsLast DEF vars
<1>2. QED
  BY <1>1 DEF IInv, vars, startVars, DevicesKnown, VpnDeviceSet

LEMMA Inductive == IInv /\ [Next]_vars => IInv'
<1> SUFFICES ASSUME IInv, [Next]_vars PROVE IInv'
  OBVIOUS
<1>1. CASE StartStep
  BY <1>1, StartSteps
<1>2. CASE TcpSends \/ Receive
  <2>1. WrappedAfresh' /\ FarOnlyWrapped'
    BY <1>2, ClientStep, ReceiveStep
  <2>2. UNCHANGED startVars
    BY <1>2 DEF TcpSends, Receive
  <2>3. QED
    BY <2>1, <2>2 DEF IInv, startVars, DevicesKnown, VpnDeviceSet
<1>3. CASE UNCHANGED vars
  BY <1>3, Stutter
<1>4. QED
  BY <1>1, <1>2, <1>3 DEF Next

LEMMA Invariance == Spec => []IInv
<1>1. QED
  BY Initially, Inductive, PTL DEF Spec

\* A packet for the network behind the VPN never leaves unwrapped, whatever of the
\* start-up failed.
THEOREM FarPacketsWrapped == Spec => []FarOnlyWrapped
<1>1. IInv => FarOnlyWrapped
  BY DEF IInv
<1>2. QED
  BY Invariance, <1>1, PTL

\* A wrapped packet has an outer header of its own, never an earlier one's.
THEOREM HeadersFresh == Spec => []WrappedAfresh
<1>1. IInv => WrappedAfresh
  BY DEF IInv
<1>2. QED
  BY Invariance, <1>1, PTL

\* The route to the far host names eth4, whose device exists, and its address is known.
LEMMA RemoteReached ==
  ASSUME IInv, Whole, TcpSends
  PROVE  last'.what = "sent" /\ last'.frame = Plain(Remote)
<1>1. Remote.net = "lan" /\ Remote \in arp_table
  BY DEF Remote, Addr, arp_table
<1>2. 1 \in Usable(Remote)
  BY <1>1, RouteTable DEF Whole, Addressed, Listed, Usable, Routes, Named, IInv, DevicesKnown
<1>3. PICK r \in 1 .. 3 : /\ Routes(Remote) = {r} /\ route_info[r].destination = Remote.net
                          /\ reroute(Remote) \in DOMAIN device
                          /\ device[reroute(Remote)].interface = route_info[r].interface
  BY <1>2, RerouteFinds DEF IInv
<1>4. reroute(Remote) # 0
  BY <1>3 DEF IInv, DevicesKnown
<1>5. ~device[reroute(Remote)].vpn
  BY <1>1, <1>4, VpnIsFar DEF IInv
<1>6. ip_sed_process(Plain(Remote), Remote)
  BY DEF TcpSends
<1>7. QED
  BY <1>1, <1>4, <1>5, <1>6 DEF ip_sed_process, Keep

\* On a host set up as a whole the TCP client's segments leave at once, as they are.
THEOREM ClientServed == Spec => ClientReaches
<1>1. IInv /\ [Next]_vars
        => [Whole /\ TcpSends => last'.what = "sent" /\ last'.frame = Plain(Remote)]_vars
  BY RemoteReached
<1>2. QED
  BY Invariance, <1>1, PTL DEF Spec, ClientReaches
=============================================================================
