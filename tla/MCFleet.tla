------------------------------ MODULE MCFleet ------------------------------
EXTENDS Fleet, TLC
Symmetric == Permutations(Member)
=============================================================================
