------------------------------ MODULE MCDrill ------------------------------
EXTENDS Drill, TLC
CONSTANTS a, shared, b, dirA, dirB
MCDirOf == a :> dirA @@ shared :> dirA @@ b :> dirB
MCUses == [p \in Proc |-> IF p \in Drill THEN Config ELSE IF p \in Agent THEN {a} ELSE {shared}]
Symmetric == Permutations(Drill)
=============================================================================
