----------------------------- MODULE MCChecksum -----------------------------
(* Octets of three values, with which every word and every carry occurs. *)
EXTENDS ChecksumProperties

MCPseudo == <<2, 1, 2, 2>>
=============================================================================
