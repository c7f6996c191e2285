------------------------------ MODULE MCMyLink ------------------------------
(* The two threads on mylink; the cfg file gives the bounds. *)
EXTENDS MyLinkProperties
=============================================================================
