---------------------------- MODULE MCForwarding ----------------------------
(* The IP layer with the addresses the router and its neighbours have. *)
EXTENDS ForwardingProperties

\* eth4 and eth5 as the routes have them.
MCOwnAddress == [eth4 |-> Addr("lan", 1), eth5 |-> Addr("wan", 1)]
\* Netmasks of 24 bits, and one of 23, which takes wan and far for one network.
MCNetmasks == {{"lan"}, {"wan"}, {"zero"}, {"wan", "far"}}
MCDestinations == {Addr("lan", 1), Addr("wan", 7), Addr("far", 2), Addr("else", 9)}
=============================================================================
