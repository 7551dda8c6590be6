------------------------------ MODULE OneChain ------------------------------
(***************************************************************************)
(* What an event promises about the chain.  A member goes ahead with the   *)
(* target on the word of the members its gate counted, and a member that   *)
(* returns to the old chain takes back its own word and nobody else's.  So *)
(* one may go ahead while another is back only if it had that member's     *)
(* word, given before the return.  No member does both, neither is undone, *)
(* and nobody is obliged to do either: a sealed member does neither.       *)
(***************************************************************************)
CONSTANT Member
VARIABLES ahead, back, counted

Init == ahead = {} /\ back = {} /\ counted = [m \in Member |-> {}]

\* A member passes its gate with the word of the members in c, or starts over
\* with nobody's.
Gate(m, c) == /\ m \notin ahead /\ c \cap back = {}
              /\ counted' = [counted EXCEPT ![m] = c]
              /\ UNCHANGED <<ahead, back>>

\* A member starts creating the target.
GoAhead(m) == /\ m \notin ahead \cup back /\ back \subseteq counted[m]
              /\ ahead' = ahead \cup {m}
              /\ UNCHANGED <<back, counted>>

\* A member that froze its source lets it produce again.
GoBack(m) == /\ m \notin ahead \cup back /\ \A p \in ahead : m \in counted[p]
             /\ back' = back \cup {m}
             /\ UNCHANGED <<ahead, counted>>

Next == \E m \in Member : GoAhead(m) \/ GoBack(m) \/ \E c \in SUBSET Member : Gate(m, c)

Spec == Init /\ [][Next]_<<ahead, back, counted>>
=============================================================================
