---------------------------- MODULE PauseCustody ----------------------------
(***************************************************************************)
(* The custody protocol of one source producer's pause: how the agent      *)
(* (machine.rs) pauses and resumes a nodeos that operators, schedulers and *)
(* nodeos restarts also pause and un-pause, and that cannot say whose      *)
(* pause it holds. The primitives are                                      *)
(*   read_paused            every read of the producer state,              *)
(*   src_pause              adopt | intent, RPC, confirming read, ack,     *)
(*   reassert_seal          the re-pause of the verification pipeline,     *)
(*   src_resume             intent, RPC, confirming read, closing record,  *)
(*   release                the operator's journaled release.              *)
(* Ceremony.tla runs these primitives under the ceremony's control flow;   *)
(* here their callers may start any of them at any time they are guarded   *)
(* for. Every durable record, every RPC and every read is a step of its    *)
(* own; between two steps the agent may die and others may pause or        *)
(* un-pause the producer.                                                  *)
(*                                                                         *)
(* A retried read is one read with the retry's outcome; an RPC may take    *)
(* effect or not whatever it answers, but not after its answer.            *)
(***************************************************************************)
EXTENDS EpisodeStack

CONSTANTS MaxExternal,   \* bound: steps of other actors on the producer
          MaxDepth,      \* bound: open episodes
          MaxCrash       \* bound: deaths of the agent

ASSUME CustodyAssumption ==
  MaxExternal \in Nat /\ MaxDepth \in Nat /\ MaxCrash \in Nat

VARIABLES
  pause,    \* ground truth: who holds the producer paused, or "none"
  jopen,    \* what a replay of the journal folds to (durable)
  open,     \* Machine::pause_events folded (the running agent's view)
  ever,     \* ever_paused_by_us: the journal holds an intent of our own
  step,     \* where the agent is inside a primitive; "down" = no agent
  answer,   \* the last RPC's answer, then the primitive's result
  trusted,  \* ghost: the agent acknowledged a pause of its own and has not
            \* read the producer producing, nor started to resume it, since
  hidden,   \* ghost: the present external pause began where no read of
            \* the agent could see it (see ExternalPause)
  ext,      \* external steps so far (bound)
  crashes   \* deaths so far (bound)

vars == <<pause, jopen, open, ever, step, answer, trusted, hidden, ext,
          crashes>>
world == <<pause, hidden, ext>>
episodes == <<jopen, open, ever>>

Holders == {"none", "agent", "external"}
Steps   == {"down", "idle", "pausing", "acking", "resuming", "confirming",
            "settled"}
Answers == {"none", "ok", "err", "ignored"}
Seen    == {"paused", "producing", "unreadable"}

Init ==
  /\ pause \in {"none", "external"}
  /\ jopen = <<>> /\ open = <<>> /\ ever = FALSE
  /\ step = "down" /\ answer = "none"
  /\ trusted = FALSE /\ hidden = FALSE /\ ext = 0 /\ crashes = 0

(***************************************************************************)
(* read_paused: a "producing" answer while our own episode is open means   *)
(* someone else un-paused the producer; the episode is closed, durably.    *)
(***************************************************************************)
Observe(seen) ==
  /\ seen = "paused" => pause # "none"
  /\ seen = "producing" => pause = "none"
  /\ IF seen = "producing" /\ Ours(open)
     THEN open' = Close(open) /\ jopen' = Close(jopen)
     ELSE UNCHANGED <<jopen, open>>
  /\ UNCHANGED ever
  /\ trusted' = (trusted /\ seen # "producing")

Read(seen) ==
  /\ step = "idle"
  /\ Observe(seen)
  /\ UNCHANGED <<world, step, answer, crashes>>

(***************************************************************************)
(* Mutants: what a plausible mistake would make of an action below. No     *)
(* specification uses them; each breaks a property (see README.md).        *)
(***************************************************************************)
PauseIntentAgain ==   \* mutant: a new episode over one that is ours already
  /\ step = "idle" /\ pause = "none"
  /\ Len(open) < MaxDepth
  /\ open' = Intend(open, TRUE) /\ jopen' = Intend(jopen, TRUE)
  /\ ever' = TRUE
  /\ step' = "pausing" /\ answer' = "none" /\ trusted' = FALSE
  /\ UNCHANGED <<world, crashes>>

PauseAckUnrecorded(seen) ==   \* mutant: acknowledged in memory only
  /\ step = "acking" /\ seen = "paused" /\ pause # "none"
  /\ open' = Acknowledge(open) /\ UNCHANGED jopen
  /\ trusted' = TRUE
  /\ step' = "idle" /\ answer' = "ok"
  /\ UNCHANGED <<world, ever, crashes>>

ResumeConfirmTrusting(seen) ==   \* mutant: an ok answer is taken as proof
  /\ step = "confirming"
  /\ Observe(seen)
  /\ IF answer = "ok" \/ seen = "producing"
     THEN step' = "settled" /\ answer' = "ok"
     ELSE step' = "idle" /\ answer' = "err"
  /\ UNCHANGED <<world, crashes>>

(***************************************************************************)
(* src_pause. Not ours yet: a fresh read decides. Paused: adopted, never   *)
(* paused again (an already adopted pause needs no new record).            *)
(***************************************************************************)
AdoptExternalPause ==
  /\ step = "idle" /\ ~Ours(open) /\ pause # "none"
  /\ External(open) \/ Len(open) < MaxDepth
  /\ IF External(open) THEN UNCHANGED <<jopen, open>>
     ELSE open' = Adopt(open) /\ jopen' = Adopt(jopen)
  /\ UNCHANGED ever
  /\ answer' = "ok"
  /\ UNCHANGED <<world, trusted, step, crashes>>

PauseUnreadable ==
  /\ step = "idle" /\ ~Ours(open)
  /\ answer' = "err"
  /\ UNCHANGED <<world, trusted, episodes, step, crashes>>

(* Producing: the intent is journaled before the RPC.                      *)
PauseIntent ==
  /\ step = "idle" /\ ~Ours(open) /\ pause = "none"
  /\ Len(open) < MaxDepth
  /\ open' = Intend(open, TRUE) /\ jopen' = Intend(jopen, TRUE)
  /\ ever' = TRUE
  /\ step' = "pausing" /\ answer' = "none" /\ trusted' = FALSE
  /\ UNCHANGED <<world, crashes>>

(* Already ours: the idempotent RPC is sent again without a new episode.   *)
PauseAgain ==
  /\ step = "idle" /\ Ours(open)
  /\ step' = "pausing" /\ answer' = "none"
  /\ UNCHANGED <<world, trusted, episodes, crashes>>

(* reassert_seal: the pipeline's tick saw the producer producing: the open *)
(* episode is closed and a new own intent journaled in its place.          *)
SealTick ==
  /\ step = "idle" /\ Top(open) \in {"ours", "unknown"} /\ pause = "none"
  /\ open' = Intend(Close(open), TRUE) /\ jopen' = Intend(Close(jopen), TRUE)
  /\ ever' = TRUE
  /\ step' = "pausing" /\ answer' = "none" /\ trusted' = FALSE
  /\ UNCHANGED <<world, crashes>>

PauseRpc(applied, ok) ==
  /\ step = "pausing"
  /\ pause' = IF applied /\ pause = "none" THEN "agent" ELSE pause
  /\ step' = IF ok /\ Unknown(open) THEN "acking" ELSE "idle"
  /\ answer' = IF ok THEN "ok" ELSE "err"
  /\ UNCHANGED <<trusted, hidden, ext, episodes, crashes>>

(* The pause is ours once the RPC succeeded AND a read saw it paused.      *)
PauseAck(seen) ==
  /\ step = "acking"
  /\ seen = "paused" => pause # "none"
  /\ seen = "producing" => pause = "none"
  /\ IF seen = "paused"
     THEN open' = Acknowledge(open) /\ jopen' = Acknowledge(jopen)
     ELSE UNCHANGED <<jopen, open>>
  /\ trusted' = (seen = "paused")
  /\ step' = "idle" /\ answer' = "ok"
  /\ UNCHANGED <<world, ever, crashes>>

(***************************************************************************)
(* src_resume gives ownership up before the RPC: the episode is closing.   *)
(* Its callers hold an own episode, except the FROZEN recovery, which      *)
(* comes here after adopt_external_pause read the producer producing.      *)
(***************************************************************************)
ResumeIntent ==
  /\ step = "idle"
  /\ open' = BeginResume(open) /\ jopen' = BeginResume(jopen)
  /\ step' = "resuming" /\ answer' = "none" /\ trusted' = FALSE
  /\ UNCHANGED <<world, ever, crashes>>

ResumeOwn == Ours(open) /\ ResumeIntent
ResumeUnpaused == ~Ours(open) /\ pause = "none" /\ ResumeIntent

ResumeRpc(applied, ok) ==
  /\ step = "resuming"
  /\ pause' = IF applied THEN "none" ELSE pause
  /\ hidden' = (hidden /\ pause' = "external")
  /\ step' = "confirming"
  /\ answer' = IF ok THEN "ok" ELSE "err"
  /\ UNCHANGED <<trusted, ext, episodes, crashes>>

(* Only a confirming "producing" read settles a resume; paused or          *)
(* unreadable leaves the episode closing (ownership unknown).              *)
ResumeConfirm(seen) ==
  /\ step = "confirming"
  /\ Observe(seen)
  /\ IF seen = "producing"
     THEN step' = "settled" /\ answer' = "ok"
     ELSE /\ step' = "idle"
          /\ answer' = IF answer = "ok" /\ seen = "paused"
                       THEN "ignored" ELSE "err"
  /\ UNCHANGED <<world, crashes>>

(* The caller's closing record: `rollback_step: resume', or                *)
(* `resumed_production_for_snapshot'.                                      *)
ResumeClose ==
  /\ step = "settled"
  /\ open' = Close(open) /\ jopen' = Close(jopen)
  /\ step' = "idle" /\ answer' = "ok"
  /\ UNCHANGED <<world, trusted, ever, crashes>>

(* The FROZEN recovery reads once more before its closing record.          *)
ResumeRecheck(seen) ==
  /\ step = "settled" /\ seen # "producing"
  /\ Observe(seen)
  /\ step' = "idle" /\ answer' = "err"
  /\ UNCHANGED <<world, crashes>>

(* The operator's release: ours in memory, ownership unknown on replay.    *)
ReleaseExternal ==
  /\ step = "idle" /\ ~Ours(open) /\ Len(Close(open)) < MaxDepth
  /\ open' = Release(open, TRUE) /\ jopen' = Release(jopen, FALSE)
  /\ answer' = "none"
  /\ UNCHANGED <<world, trusted, ever, step, crashes>>

(* A death loses the memory; the next agent replays the journal.           *)
Crash ==
  /\ step # "down" /\ crashes < MaxCrash
  /\ crashes' = crashes + 1
  /\ step' = "down" /\ answer' = "none" /\ open' = jopen
  /\ UNCHANGED <<world, trusted, jopen, ever>>

(* The run or the operator's command ends: the same, but not a fault.      *)
Exit ==
  /\ step = "idle"
  /\ step' = "down" /\ answer' = "none" /\ open' = jopen
  /\ UNCHANGED <<world, trusted, jopen, ever, crashes>>

Restart ==
  /\ step = "down"
  /\ step' = "idle"
  /\ UNCHANGED <<world, trusted, episodes, answer, crashes>>

(***************************************************************************)
(* Other actors: an operator, a hook or a scheduler pauses or resumes the  *)
(* producer; a nodeos restart clears its runtime pause. A pause that       *)
(* starts while the agent has not seen its own one end (RISK-REGISTER      *)
(* A-21), or between one of its reads and the RPC and read that follow it  *)
(* (A-20), cannot be told from the agent's own by any read: hidden.        *)
(***************************************************************************)
Blind == trusted \/ step \in {"pausing", "acking", "resuming"}

ExternalPause ==
  /\ ext < MaxExternal /\ pause = "none"
  /\ pause' = "external" /\ hidden' = Blind
  /\ ext' = ext + 1
  /\ UNCHANGED <<trusted, episodes, step, answer, crashes>>

ExternalUnpause ==
  /\ ext < MaxExternal /\ pause # "none"
  /\ pause' = "none" /\ hidden' = FALSE
  /\ ext' = ext + 1
  /\ UNCHANGED <<trusted, episodes, step, answer, crashes>>

Pausing ==
  \/ AdoptExternalPause \/ PauseUnreadable \/ PauseIntent \/ PauseAgain
  \/ SealTick
  \/ \E applied, ok \in BOOLEAN : PauseRpc(applied, ok)
  \/ \E seen \in Seen : PauseAck(seen)

Resuming ==
  \/ ResumeOwn \/ ResumeUnpaused \/ ResumeClose
  \/ \E applied, ok \in BOOLEAN : ResumeRpc(applied, ok)
  \/ \E seen \in Seen : ResumeConfirm(seen) \/ ResumeRecheck(seen)

Next ==
  \/ \E seen \in Seen : Read(seen)
  \/ Pausing \/ Resuming \/ ReleaseExternal
  \/ Crash \/ Exit \/ Restart \/ ExternalPause \/ ExternalUnpause

Spec == Init /\ [][Next]_vars
-----------------------------------------------------------------------------
TypeOK ==
  /\ pause \in Holders
  /\ jopen \in Seq(Owners) /\ open \in Seq(Owners)
  /\ step \in Steps /\ answer \in Answers /\ ever \in BOOLEAN
  /\ trusted \in BOOLEAN /\ hidden \in BOOLEAN
  /\ ext \in Nat /\ crashes \in Nat

(* The ownership in use comes from an operator's release by this very run: *)
(* the journal alone would call the same episode unknown.                  *)
Released == Top(open) \in {"ours", "closing"} /\ Top(jopen) = "unknown"

(* No foreign resume: while a resume RPC is in flight, a pause of someone  *)
(* else is in force only if the operator released it to this run or it     *)
(* began in a window no read of the agent can see (src_resume; R1,         *)
(* tests/model.rs I3; RISK-REGISTER A-20, A-21).                           *)
NoForeignResume ==
  step = "resuming" /\ pause = "external" => hidden \/ Released

(* An old episode never becomes an authority again: only the newest open   *)
(* episode can be ours, so closing it never uncovers an ownership this     *)
(* ceremony once had (review R9-2).                                        *)
NoBuriedOwnership == \A i \in 1..Len(open) - 1 : open[i] # "ours"

(* The agent's own pause is never forgotten: as long as it holds the       *)
(* producer paused, the durable log has an open episode, so no rollback on *)
(* this journal can find "nothing to undo".                                *)
OwnPauseIsRecorded == pause = "agent" => jopen # <<>>

(* A crash never changes who may resume: what a replay of the journal      *)
(* would recover differs from what the agent believes only at a release    *)
(* made by this run, which a replay never honours (R11-A), never at a      *)
(* pause the agent acknowledged. Unknown and closing are one class.        *)
SameClass(a, b) == a = b \/ {a, b} = {"unknown", "closing"}
ReplayLosesOnlyReleases ==
  /\ Len(open) = Len(jopen)
  /\ \A i \in 1..Len(open) :
       \/ SameClass(open[i], jopen[i])
       \/ i = Len(open) /\ open[i] = "ours" /\ jopen[i] = "unknown"
  /\ trusted => Ours(jopen)
=============================================================================
