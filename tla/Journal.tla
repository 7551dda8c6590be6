------------------------------- MODULE Journal -------------------------------
(***************************************************************************)
(* journal.rs: the ceremony journal as a file. An agent takes the lock,    *)
(* repairs the tail, replays the records and appends to them; the process  *)
(* may be killed between any two steps, the machine may lose power, and a  *)
(* write may fail, in whole or in part.                                    *)
(*                                                                         *)
(* The file is a sequence of units: a record is its two halves and a line  *)
(* feed (the body and the LF are two write calls, journal.rs 400), and a   *)
(* line is a record exactly when it is one body's two halves. The records  *)
(* that matter here are the pause events; the agent's memory is the        *)
(* episode vector it folds them into.                                      *)
(*                                                                         *)
(* Abstracted: the other records (Ceremony models what replay makes of     *)
(* them), blank lines and CRs, unknown record kinds, and a disk that       *)
(* reports a failed fsync and later forgets the page.                      *)
(***************************************************************************)
EXTENDS PauseEpisodes, Functions

CONSTANTS MaxRecords,    \* bound: records an agent tries to write
          MaxCrash,      \* bound: kills and power losses
          PartialWrites  \* a full disk may take half of a record's bytes

ASSUME JournalAssumption ==
  MaxRecords \in Nat /\ MaxCrash \in Nat /\ PartialWrites \in BOOLEAN

VARIABLES
  file,     \* the bytes of the journal, as the kernel holds them
  synced,   \* how many of them are known to be on the disk
  pc,       \* of the agent that holds the journal's lock
  eps,      \* its episode vector; a dead agent's until the next replay
  settled,  \* the vector at the last fsync: what any agent acted on
  event,    \* record number -> the event it carries, in order of writing
  acked,    \* records whose write returned Ok: the machine acted on them
  legacy,   \* an older agent's journal, with a pause open before any event
  acks,     \* the ARMED record's `pause_ack' flag
  intent,   \* its last journaled event is its own, unconfirmed pause
  spoilt,   \* a failed write left bytes behind and the agent went on
  crashes

fileVars == <<file, synced>>
vars ==
  <<fileVars, pc, eps, settled, event, acked, legacy, acks, intent, spoilt, crashes>>

LF == [rec |-> 0, half |-> 0]
Half(r, h) == [rec |-> r, half |-> h]
Body(r) == <<Half(r, 1), Half(r, 2)>>

Prefix(n) == SubSeq(file, 1, n)

(* Where the lines end, and the bytes after the last of them.              *)
Ends == {b \in DOMAIN file : file[b] = LF}
TailStart == IF Ends = {} THEN 0 ELSE CHOOSE b \in Ends : \A c \in Ends : c <= b
Trailing == SubSeq(file, TailStart + 1, Len(file))

Parses(line) == Len(line) = 2 /\ line = Body(line[1].rec)

(* The line that ends at b parses: it is one body, and all of the line.    *)
LineParses(b) ==
  /\ b = 3 \/ b - 3 \in Ends
  /\ LET r == file[b - 2].rec
     IN  file[b - 2] = Half(r, 1) /\ file[b - 1] = Half(r, 2)

(* A replay reads line after line: when each is a record, three units each. *)
Corrupt == \E b \in Ends : ~LineParses(b)
Recovered == [k \in 1..(TailStart \div 3) |-> file[3 * k - 2].rec]
RecoveredEps ==
  LET rs == Recovered
  IN  Fold([k \in DOMAIN rs |-> OnReplay(event[rs[k]])], legacy, acks)

Init ==
  /\ file = <<>> /\ synced = 0
  /\ pc = "down" /\ event = <<>> /\ acked = {}
  /\ intent = FALSE /\ spoilt = FALSE /\ crashes = 0
  /\ legacy \in BOOLEAN
  /\ acks \in (IF legacy THEN {FALSE} ELSE BOOLEAN)
  /\ eps = Fold(<<>>, legacy, acks) /\ settled = eps
-----------------------------------------------------------------------------
(* Opening: the lock first, then the tail, then the replay.                *)

Goto(from, to) == pc = from /\ pc' = to
Agent ==
  UNCHANGED <<eps, settled, event, acked, legacy, acks, intent, spoilt, crashes>>

TakeLock == Goto("down", "tail") /\ UNCHANGED fileVars /\ Agent

(* The last complete record must parse; a tail that parses only misses its *)
(* newline, any other tail is torn.                                        *)
LastCorrupt == TailStart # 0 /\ ~LineParses(TailStart)

RepairRefuses == LastCorrupt /\ Goto("tail", "refused") /\ UNCHANGED fileVars /\ Agent

TailClean ==
  /\ ~LastCorrupt /\ Trailing = <<>> /\ Goto("tail", "replay")
  /\ UNCHANGED fileVars /\ Agent

AddNoNewline ==                \* mutant: a parsing tail is left as it is
  /\ ~LastCorrupt /\ Parses(Trailing) /\ Goto("tail", "flush")
  /\ UNCHANGED fileVars /\ Agent
AddNewline ==
  /\ ~LastCorrupt /\ Parses(Trailing) /\ Goto("tail", "flush")
  /\ file' = Append(file, LF)
  /\ UNCHANGED synced /\ Agent

(* The torn fragment is copied beside the journal, durably, then cut off.  *)
SaveAside ==
  /\ ~LastCorrupt /\ Trailing # <<>> /\ ~Parses(Trailing) /\ Goto("tail", "cut")
  /\ UNCHANGED fileVars /\ Agent

CutRecord ==                   \* mutant: cuts the last complete record too
  /\ Goto("cut", "flush")
  /\ file' = Prefix(IF TailStart = 0 THEN 0 ELSE TailStart - 3)
  /\ synced' = IF synced < Len(file') THEN synced ELSE Len(file')
  /\ Agent
Cut ==
  /\ Goto("cut", "flush")
  /\ file' = Prefix(TailStart)
  /\ synced' = IF synced < TailStart THEN synced ELSE TailStart
  /\ Agent

Flush ==
  /\ Goto("flush", "replay")
  /\ synced' = Len(file)
  /\ UNCHANGED file /\ Agent

ReplayRefuses == Corrupt /\ Goto("replay", "refused") /\ UNCHANGED fileVars /\ Agent

Replay ==
  /\ ~Corrupt /\ Goto("replay", "up")
  /\ eps' = RecoveredEps
  /\ settled' = IF synced = Len(file) THEN eps' ELSE settled
  /\ intent' = FALSE
  /\ UNCHANGED <<fileVars, event, acked, legacy, acks, spoilt, crashes>>
-----------------------------------------------------------------------------
(* write: body, line feed, fsync; the memory follows an Ok.                *)

This == Len(event)

(* Which pause event the machine journals next, by what its memory says:   *)
(* an intent or an adoption when the pause is not its own, the ack right   *)
(* after its own intent, a resume or its intent for its own pause, a       *)
(* release for one that is not.                                            *)
May(e) ==
  CASE e = "pause"   -> LatestOwner(eps) # "ours"
    [] e = "adopt"   -> LatestOwner(eps) \notin {"ours", "external"}
    [] e = "ack"     -> intent
    [] e = "resume"  -> LatestOwner(eps) \in {"ours", "closing"}
    [] e = "closing" -> LatestOwner(eps) = "ours"
    [] e = "release" -> LatestOwner(eps) \in {"external", "unknown", "closing"}

WriteBody(e) ==
  /\ Len(event) < MaxRecords /\ May(e) /\ pc \in {"up", "dirty"}
  /\ pc' = "line"
  /\ event' = Append(event, e)
  /\ file' = file \o Body(This')
  /\ spoilt' = (spoilt \/ pc = "dirty")
  /\ UNCHANGED <<synced, eps, settled, acked, legacy, acks, intent, crashes>>

(* The disk takes nothing, or (PartialWrites) the first bytes. The agent   *)
(* reports the error and goes on; `dirty' is a file it left bytes in.      *)
WriteFails(e) ==
  /\ Len(event) < MaxRecords /\ May(e) /\ pc \in {"up", "dirty"}
  /\ event' = Append(event, e)
  /\ \/ UNCHANGED <<file, pc, spoilt>>
     \/ /\ PartialWrites
        /\ file' = Append(file, Half(This', 1))
        /\ pc' = "dirty" /\ spoilt' = (spoilt \/ pc = "dirty")
  /\ UNCHANGED <<synced, eps, settled, acked, legacy, acks, intent, crashes>>

LineFeed ==
  /\ Goto("line", "sync")
  /\ file' = Append(file, LF)
  /\ UNCHANGED synced /\ Agent

LineFeedFails ==
  PartialWrites /\ Goto("line", "dirty") /\ UNCHANGED fileVars /\ Agent

Sync ==
  /\ Goto("sync", "up")
  /\ synced' = Len(file)
  /\ acked' = acked \cup {This}
  /\ eps' = Apply(eps, event[This], acks) /\ settled' = eps'
  /\ intent' = (event[This] = "pause" /\ acks)
  /\ UNCHANGED <<file, event, legacy, acks, spoilt, crashes>>

SyncFails == Goto("sync", "up") /\ UNCHANGED fileVars /\ Agent
-----------------------------------------------------------------------------
(* The process ends, or is killed (the kernel keeps what was written), or  *)
(* the machine loses power (any tail that was not synced may be gone). The *)
(* lock goes with the process.                                             *)
Dies ==
  /\ pc # "down" /\ crashes < MaxCrash
  /\ pc' = "down" /\ crashes' = crashes + 1
  /\ \E n \in synced..Len(file) : file' = Prefix(n)
  /\ UNCHANGED <<synced, eps, settled, event, acked, legacy, acks, intent, spoilt>>

Next ==
  \/ TakeLock \/ RepairRefuses \/ TailClean \/ AddNewline \/ SaveAside \/ Cut
  \/ Flush \/ ReplayRefuses \/ Replay
  \/ \E e \in Written : WriteBody(e) \/ WriteFails(e)
  \/ LineFeed \/ LineFeedFails \/ Sync \/ SyncFails \/ Dies

Spec == Init /\ [][Next]_vars
-----------------------------------------------------------------------------
TypeOK ==
  /\ file \in Seq([rec : 0..MaxRecords, half : 0..2])
  /\ synced \in 0..Len(file)
  /\ pc \in {"down", "tail", "cut", "flush", "replay", "refused",
             "up", "dirty", "line", "sync"}
  /\ event \in Seq(Written) /\ acked \subseteq DOMAIN event
  /\ eps \in Seq([owner : Stack!Owners, open : BOOLEAN])

(* Whatever died, what the next replay returns holds every record the      *)
(* machine ever acted on, once and in the order they were written, or it   *)
(* refuses (journal.rs:443: a complete record is never silently dropped,   *)
(* which could roll recovery backward).                                    *)
KeepsAcknowledged ==
  ~Corrupt => LET rs == Recovered
              IN  /\ acked \subseteq Range(rs)
                  /\ \A i, j \in DOMAIN rs : i < j => rs[i] < rs[j]

(* A crash, at any point of a write or of a repair, leaves a journal that  *)
(* the next agent opens. Writing on after a write that failed in part is   *)
(* what `spoilt' excludes.                                                 *)
OpensAgain == ~spoilt => pc # "refused"

(* The fold is the stack: each event moves the open owners exactly as      *)
(* EpisodeStack says and never reaches past the latest open episode.       *)
ImplementsStack ==
  [][eps' # eps /\ pc = "sync"
       => OpenOwners(eps') = StackStep(OpenOwners(eps), event[This], acks)]_vars

(* A restart never hands out ownership on its own: an agent that opens the *)
(* journal owns the pause only if an agent owned it when it last acted, or *)
(* the record that says so was written and never acknowledged: the ack of  *)
(* a pause that a read had confirmed, or an older agent's intent, which    *)
(* needs no ack. A completed resume never authorizes a later one (review   *)
(* R9-2), and a release that is only recovered gives nothing (R11-A).      *)
OwnershipIsEarned ==
  [][Replay /\ LatestOwner(eps') = "ours" =>
       \/ LatestOwner(settled) = "ours"
       \/ \E r \in DOMAIN event \ acked :
            /\ r \in Range(Recovered)
            /\ event[r] = IF acks THEN "ack" ELSE "pause"]_vars
=============================================================================
