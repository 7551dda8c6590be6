------------------------------ MODULE MCTarget ------------------------------
(* A bounded instance of Target.                                           *)
EXTENDS Target

CONSTANTS cut, other
=============================================================================
