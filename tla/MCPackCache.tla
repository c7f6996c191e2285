---------------------------- MODULE MCPackCache ----------------------------
(* The packet cache on small rings; the cfg files give the bounds. *)
EXTENDS PackCacheProperties
=============================================================================
