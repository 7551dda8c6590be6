------------------------------ MODULE MCCeremony ------------------------------
(* Bounded instances of Ceremony; the cfgs choose the configuration.       *)
EXTENDS Ceremony
=============================================================================
