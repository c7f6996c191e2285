------------------------ MODULE ForwardingProperties ------------------------
(***************************************************************************)
(* What the IP layer does with packets, whatever of the start-up failed.   *)
(***************************************************************************)
EXTENDS Forwarding

\* The host has the two cards of the routes, and every card has told its address and
\* its netmask, of 24 bits.
Addressed ==
  /\ Listed("eth4") /\ Listed("eth5")
  /\ \A k \in DOMAIN device :
       device[k].ip # NoAddress /\ device[k].nets = {device[k].ip.net}

\* The start-up went well on such a host.
Whole ==
  /\ phase = "running" /\ Addressed
  /\ \A k \in DOMAIN device : ~device[k].vpn => socket[k] = device[k].interface

-----------------------------------------------------------------------------

\* On a host set up as a whole each frame leaves through the open socket of the card
\* on its next hop's network, also the wrapped ones, whose route names the VPN
\* device, which has no socket.
LeavesByItsNetwork ==
  Whole /\ last.what = "sent" =>
    /\ socket[last.card] # "none"
    /\ device[last.card].ip.net = last.hop.net

\* A wrapped frame has an outer header written for it, for the router at the far
\* end, and no other frame is changed: the header of an earlier packet that
\* ip_sed_process's buffer still holds never shows, whatever of the start-up failed.
WrappedAfresh ==
  last.frame # <<>> =>
    last.frame = last.packet \/ last.frame = Wrap(last.hop, last.packet)

\* A packet for the network behind the VPN never leaves unwrapped, whatever failed.
FarOnlyWrapped ==
  last.frame # <<>> /\ Head(last.packet).dst.net = "far"
    => last.frame = Wrap(Peer, last.packet)

\* On a host set up as a whole the TCP client's segments leave at once, as they are, in
\* whichever order the cards are listed.
ClientReaches ==
  [][Whole /\ TcpSends => last'.what = "sent" /\ last'.frame = Plain(Remote)]_vars

\* Cards that have not told their IP address, but a netmask: they do not take it for
\* one of their own.
Hidden ==
  {Hardware(k) : k \in {k \in DOMAIN device : Hardware(k).net \notin device[k].nets}}

\* whether_inout tells a frame received from one sent out: the router does not take in
\* again what it sent, whatever of the start-up failed.  There are two exceptions, a
\* packet without any route, which goes to whatever address a variable held, and a
\* wrapped packet for an address of the router that it does not know to be its own.
SentNotHeard ==
  last.what = "sent" /\ Routes(Head(last.packet).dst) # {} /\ last.hop \notin Hidden
    => ~whether_inout(last.hop)

-----------------------------------------------------------------------------
(* What the code says of itself *)

\* whether_ip_me tells "whether this ip is one's own": a packet kept is for an
\* address the router has.
OwnOnly ==
  Whole /\ last.what = "mine" =>
    \E k \in DOMAIN device : device[k].ip = Head(last.packet).dst
=============================================================================
