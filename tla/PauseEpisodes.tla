---------------------------- MODULE PauseEpisodes ----------------------------
(***************************************************************************)
(* journal.rs pause_episodes, as written: a vector of (owner, open)        *)
(* entries, every event searching it from the newest entry for the latest  *)
(* open one. The running agent folds the events it journals                *)
(* (machine.rs push_pause_event); an agent that opens a journal folds the  *)
(* events it recovers. EpisodeStack says what the vector means.            *)
(***************************************************************************)
EXTENDS Naturals, Sequences

Stack == INSTANCE EpisodeStack

(* The PauseEvent variants. A release authorizes a resume only in the run  *)
(* that journaled it: recovered from the journal it is `stale'.            *)
Written == {"pause", "adopt", "ack", "resume", "closing", "release"}

OnReplayLive(e) == e                       \* mutant: a release stays live
OnReplay(e) == IF e = "release" THEN "stale" ELSE e

Entry(owner) == [owner |-> owner, open |-> TRUE]

(* eps.iter().rev().find(|(_, open)| *open): an index, 0 if there is none. *)
OpenEntries(eps) == {i \in DOMAIN eps : eps[i].open}
FirstOpen(eps) ==               \* mutant: the search runs from the oldest
  IF OpenEntries(eps) = {} THEN 0
  ELSE CHOOSE i \in OpenEntries(eps) : \A j \in OpenEntries(eps) : i <= j
LatestOpen(eps) ==
  IF OpenEntries(eps) = {} THEN 0
  ELSE CHOOSE i \in OpenEntries(eps) : \A j \in OpenEntries(eps) : j <= i

LatestOwner(eps) ==
  IF LatestOpen(eps) = 0 THEN "none" ELSE eps[LatestOpen(eps)].owner

SetOwner(eps, owner) == [eps EXCEPT ![LatestOpen(eps)].owner = owner]

Pause(eps, acks) == Append(eps, Entry(IF acks THEN "unknown" ELSE "ours"))
Adopt(eps) == Append(eps, Entry("external"))
Ack(eps) == IF LatestOwner(eps) = "unknown" THEN SetOwner(eps, "ours") ELSE eps
CloseOldest(eps) ==              \* mutant: closes the oldest open episode
  IF LatestOpen(eps) = 0 THEN eps
  ELSE [eps EXCEPT ![FirstOpen(eps)].open = FALSE]
CloseLatest(eps) ==
  IF LatestOpen(eps) = 0 THEN eps
  ELSE [eps EXCEPT ![LatestOpen(eps)].open = FALSE]
ResumeIntent(eps) ==
  IF LatestOwner(eps) = "ours" THEN SetOwner(eps, "closing") ELSE eps
ReleaseToNobody(eps, owner) ==   \* mutant: a recovered release names nobody
  Append(CloseLatest(eps), Entry(IF owner = "ours" THEN owner ELSE "none"))
Release(eps, owner) ==
  IF LatestOpen(eps) = 0 THEN Append(eps, Entry(owner)) ELSE SetOwner(eps, owner)

(* One event. `acks': the ARMED record said that own intents need an ack.  *)
Apply(eps, e, acks) ==
  CASE e = "pause"   -> Pause(eps, acks)
    [] e = "adopt"   -> Adopt(eps)
    [] e = "ack"     -> Ack(eps)
    [] e = "resume"  -> CloseLatest(eps)
    [] e = "closing" -> ResumeIntent(eps)
    [] e = "release" -> Release(eps, "ours")
    [] e = "stale"   -> Release(eps, "unknown")

(* The episodes of a journal, from the entry an older agent may have left. *)
Fold(events, legacy, acks) ==
  LET vec[n \in 0..Len(events)] ==
        IF n = 0 THEN (IF legacy THEN <<Entry("ours")>> ELSE <<>>)
        ELSE Apply(vec[n - 1], events[n], acks)
  IN  vec[Len(events)]

(* The owners of the open episodes, oldest first.                          *)
AddOpen(owners, entry) ==
  IF entry.open THEN Append(owners, entry.owner) ELSE owners
OpenOwners(eps) ==
  LET owners[n \in 0..Len(eps)] ==
        IF n = 0 THEN <<>> ELSE AddOpen(owners[n - 1], eps[n])
  IN  owners[Len(eps)]

(* What EpisodeStack makes of the same event.                              *)
StackStep(s, e, acks) ==
  CASE e = "pause"   -> Stack!Intend(s, acks)
    [] e = "adopt"   -> Stack!Adopt(s)
    [] e = "ack"     -> Stack!Acknowledge(s)
    [] e = "resume"  -> Stack!Close(s)
    [] e = "closing" -> Stack!BeginResume(s)
    [] e = "release" -> Stack!Release(s, TRUE)
    [] e = "stale"   -> Stack!Release(s, FALSE)
=============================================================================
