-------------------------------- MODULE MCArp --------------------------------
(* One host known from the start and two that are not, one of them without a card. *)
EXTENDS ArpProperties

MCInitialTable == << [ip |-> "known", mac |-> "m1"] >>
=============================================================================
