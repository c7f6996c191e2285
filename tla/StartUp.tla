------------------------------ MODULE StartUp ------------------------------
(***************************************************************************)
(* initial() of route.c, which sets up the router's tables before the      *)
(* threads start: the network devices the kernel lists, the VPN device,    *)
(* the routes and ARP entries initial_route writes, and a raw socket per   *)
(* device.  Every call to the kernel may fail.  The functions then return  *)
(* early, main does not look at the result, and the threads run with what  *)
(* has been set up so far.                                                 *)
(*                                                                         *)
(* An address is a network of 24 bits and a host on it.  A device's own    *)
(* networks are those its netmask does not tell from its address: one for  *)
(* 255.255.255.0, more for a shorter one, and all of them for the netmask  *)
(* 0 of a device that has not been read.                                   *)
(***************************************************************************)
EXTENDS Naturals, Sequences

CONSTANTS Names,         \* the interfaces the kernel may list (szname)
          OwnAddress,    \* the address each has, if it has one
          Netmasks       \* what a netmask may take in: sets of networks

Addr(n, h) == [net |-> n, host |-> h]
Nets       == {"lan", "wan", "far", "tunnel", "else"}  \* 192.168.1, .2, .3, .10
NoAddress  == Addr("zero", 0)
AllNets    == Nets \cup {"zero"}

ASSUME StartUpAssumption ==
  /\ Names \cap {"vpn_eth0", "none", "stray"} = {}
  /\ OwnAddress \in [Names -> [net : Nets, host : Nat]]
  /\ Netmasks \subseteq SUBSET AllNets

VARIABLES phase,         \* where initial() is, "running" once the threads are
          at,            \* the index of its loop
          device,        \* the table device[0 .. device_index - 1], from 1 here
          socket         \* socket_array: whose socket it is, "none" while 0,
                         \* "stray" if of whichever interface

startVars == <<phase, at, device, socket>>

Phases  == {"list", "addresses", "vpn", "sockets", "running"}
Macs    == Names \cup {"none"}
Address == [net : Nets, host : Nat] \cup {NoAddress}
Device  == [interface : Names \cup {"vpn_eth0"}, mac : Macs, ip : Address,
            nets : SUBSET AllNets, vpn : BOOLEAN]
Sockets == Macs \cup {"stray"}

StartTypeOK ==
  /\ phase \in Phases /\ at \in 1 .. Len(device) + 1
  /\ device \in Seq(Device)
  /\ socket \in [1 .. Len(device) -> Sockets]

-----------------------------------------------------------------------------
(* The tables initial_route writes, from 192.168.2.10 and so on *)

Peer   == Addr("wan", 10)
Remote == Addr("lan", 2)          \* mylink.dip

\* Mutant: the route for the network behind the VPN names the card of the other router.
CardVpnRoute ==
  << [destination |-> "lan", gateway |-> Addr("lan", 2), interface |-> "eth4"],
     [destination |-> "wan", gateway |-> Peer, interface |-> "eth5"],
     [destination |-> "far", gateway |-> Addr("far", 2), interface |-> "eth5"] >>

route_info ==
  << [destination |-> "lan", gateway |-> Addr("lan", 2), interface |-> "eth4"],
     [destination |-> "wan", gateway |-> Peer, interface |-> "eth5"],
     [destination |-> "far", gateway |-> Addr("far", 2), interface |-> "vpn_eth0"] >>

\* Mutant: the VPN route is for another network than the route to the VPN device.
WrongVpnRoute == << [vpn_des |-> "tunnel", des |-> Peer] >>

vpn_route == << [vpn_des |-> "far", des |-> Peer] >>

\* Mutant: arp_item_index is not counted up for the last entry.
ShortArpTable == {Peer, Addr("lan", 1)}

\* An entry's hardware address is named by the IP address of the host that has it.
arp_table == {Peer, Addr("lan", 1), Remote}

-----------------------------------------------------------------------------

\* The tables are cleared first.
StartInit == phase = "list" /\ at = 1 /\ device = <<>> /\ socket = <<>>

Listed(n) == \E k \in 1 .. Len(device) : device[k].interface = n

\* initial_device: one line of /proc/net/dev.
ListDevice ==
  /\ phase = "list"
  /\ \E n \in Names :
       /\ ~Listed(n)
       /\ device' = Append(device, [interface |-> n, mac |-> "none", ip |-> NoAddress,
                                    nets |-> AllNets, vpn |-> FALSE])
  /\ socket' = Append(socket, "none")
  /\ UNCHANGED <<phase, at>>

\* The last line, or no such file.
ListEnds == phase = "list" /\ phase' = "addresses" /\ UNCHANGED <<at, device, socket>>

\* initial_device_mac_getway: each of the address and the netmask is 0 if the kernel
\* does not tell it.
ReadDevice ==
  /\ phase = "addresses" /\ at <= Len(device)
  /\ LET n == device[at].interface IN
       \E ip \in {OwnAddress[n], NoAddress} :
         \E nets \in {N \in Netmasks : ip.net \in N} \cup {AllNets} :
           device' = [device EXCEPT ![at].mac = n, ![at].ip = ip, ![at].nets = nets]
  /\ at' = at + 1
  /\ UNCHANGED <<phase, socket>>

\* The loop is done, or returns on a device whose hardware address it cannot read.
ReadEnds ==
  /\ phase = "addresses"
  /\ phase' = "vpn"
  /\ UNCHANGED <<at, device, socket>>

\* initial_vpn_device.
AddVpnDevice ==
  /\ phase = "vpn"
  /\ device' = Append(device, [interface |-> "vpn_eth0", mac |-> "none",
                               ip |-> Addr("tunnel", 1), nets |-> {"tunnel"}, vpn |-> TRUE])
  /\ socket' = Append(socket, "none")
  /\ phase' = "sockets" /\ at' = 1

\* A raw socket for the next device; the VPN device has none.  A failure of the ioctl
\* that gets the interface's index is not looked at: the socket is then bound to
\* whatever index ifstruct holds.
OpenSocket ==
  /\ phase = "sockets" /\ at <= Len(device)
  /\ \E card \in {device[at].interface, "stray"} :
       socket' = IF device[at].vpn THEN socket ELSE [socket EXCEPT ![at] = card]
  /\ at' = at + 1
  /\ UNCHANGED <<phase, device>>

\* The loop is done, or returns -1 on a device it has no socket for; its index is gone.
OpenEnds ==
  /\ phase = "sockets"
  /\ phase' = "running" /\ at' = 1
  /\ UNCHANGED <<device, socket>>

StartNext == \/ ListDevice \/ ListEnds \/ ReadDevice \/ ReadEnds
             \/ AddVpnDevice \/ OpenSocket \/ OpenEnds
=============================================================================
