------------------------------- MODULE MCAwait -------------------------------
(* Bounded instance of Await: two bodies of event a, and event b.          *)
EXTENDS Await

CONSTANTS p1, p2, p3, a, b

MCEventOf == [p \in Payloads |-> IF p = p3 THEN b ELSE a]
MCHeightOf == [p \in Payloads |-> IF p = p3 THEN 2 ELSE 1]
=============================================================================
