---------------------------- MODULE EpisodeStack ----------------------------
(***************************************************************************)
(* Who owns the producer's pause, as the journal's pause-episode log says. *)
(*                                                                         *)
(* journal.rs keeps a log of pause, ack, resume and release records and    *)
(* folds it into a vector of (owner, open) episodes (pause_episodes).      *)
(* Every record acts on the LATEST OPEN episode, closing closes that one,  *)
(* and a closed episode is never looked at again: the fold is a stack of   *)
(* the owners of the open episodes, newest last. PauseEpisodes.tla keeps   *)
(* the vector as the code does and is checked to implement this stack.     *)
(***************************************************************************)
EXTENDS Naturals, Sequences

Owners == {"ours", "external", "unknown", "closing"}

(* The latest open episode; "none" when no episode is open. *)
Top(s) == IF s = <<>> THEN "none" ELSE s[Len(s)]

Ours(s)     == Top(s) = "ours"
External(s) == Top(s) = "external"
Unknown(s)  == Top(s) \in {"unknown", "closing"}

Push(s, owner) == Append(s, owner)

(* Close the latest open episode. *)
Close(s) == IF s = <<>> THEN s ELSE SubSeq(s, 1, Len(s) - 1)

(* Change the owner of the latest open episode, if it is `from'. *)
Settle(s, from, to) == IF Top(s) = from THEN Push(Close(s), to) ELSE s

(* One operator per record kind. An own pause intent is ownership UNKNOWN  *)
(* until its ack (`acks'; journals of older agents do not track acks).     *)
IntendOwned(s, acks) == Push(s, "ours")     \* mutant: no ack is needed
Intend(s, acks)   == Push(s, IF acks THEN "unknown" ELSE "ours")
Adopt(s)          == Push(s, "external")
Acknowledge(s)    == Settle(s, "unknown", "ours")
BeginResume(s)    == Settle(s, "ours", "closing")

(* An operator's release: ours for the run that journaled it (`live'),     *)
(* ownership unknown for every run that only recovers it.                  *)
ReleaseUnowned(s, live) ==                  \* mutant: nobody's on replay
  Push(Close(s), IF live THEN "ours" ELSE "none")
Release(s, live)  == Push(Close(s), IF live THEN "ours" ELSE "unknown")
=============================================================================
