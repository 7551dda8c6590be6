------------------------------ MODULE MCJournal ------------------------------
(* Bounded instance of Journal: a few records, kills and power losses.     *)
EXTENDS Journal
=============================================================================
