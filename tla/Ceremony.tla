------------------------------- MODULE Ceremony -------------------------------
(***************************************************************************)
(* One coordinated producer's ceremony as machine.rs runs it: `run' from   *)
(* ARMED to LIVE, the agent's own abort, the operator's `rollback', the    *)
(* STRANDED and HALTED seals, and the recovery of a journal after a death  *)
(* at any step. Every touch of the producer's pause is a step of           *)
(* PauseCustody, so the theorems about that module hold here.              *)
(*                                                                         *)
(* journal  what a replay recovers (journal.rs);                           *)
(* agent    the running process, lost when it dies;                        *)
(* site     what the hooks and the producer's whitelist are in fact.       *)
(*                                                                         *)
(* Left out: join and unhalt, api mode, shadow journals, journals of older *)
(* agents. The fleet guard, the relay, the snapshot, the verification      *)
(* tools and the target answer either way at any time. A read and the      *)
(* journal record it decides are one step; so are the audit and            *)
(* re-application of the admission lock that end a tick.                   *)
(***************************************************************************)
EXTENDS EpisodeStack

CONSTANTS
  Scheduled,      \* freeze_strategy = schedule_at_h
  Coordinated,    \* an event id is configured
  AutoRollback,   \* target.auto_rollback
  FreezeHook,     \* hooks.on_freeze is configured
  AbortHook,      \* hooks.on_abort is configured
  AdmissionLock,  \* ceremony.admission_lock
  Forced,         \* the operator may use --force-after-ignite, --force-stranded
  MaxExternal, MaxDepth, MaxCrash    \* bounds, as in PauseCustody

ASSUME CeremonyAssumption ==
  /\ {Scheduled, Coordinated, AutoRollback, FreezeHook, AbortHook,
      AdmissionLock, Forced} \subseteq BOOLEAN
  /\ {MaxExternal, MaxDepth, MaxCrash} \subseteq Nat

VARIABLES pause, jopen, open, ever, step, answer, trusted, hidden, ext,
          crashes,                \* of PauseCustody
          journal, agent, site

custody == <<pause, jopen, open, ever, step, answer, trusted, hidden, ext,
             crashes>>
vars == <<custody, journal, agent, site>>

P == INSTANCE PauseCustody

JournalStates == {"none", "ARMED", "FROZEN", "SNAPSHOTTED", "VERIFIED",
                  "IGNITED", "LIVE", "ABORTED", "STRANDED", "HALTED"}
RollbackSteps == {"resume", "admission_unlock", "on_abort"}

NewJournal ==
  [state   |-> "none",
   froze   |-> FALSE,   \* a FROZEN transition exists (frozen_ts_ms)
   writes  |-> FALSE,   \* writes_closed_by_us: the freeze intent
   lock    |-> FALSE,   \* admission_lock: the lock intent, not restored
   target  |-> "no",    \* create_chain / ignite_started records
   pending |-> FALSE,   \* rollback_pending
   strand  |-> FALSE,   \* strand_intent
   steps   |-> {},      \* rollback_steps_done
   done    |-> FALSE]   \* aborted_rollback_complete

NoAgent ==
  [pc      |-> "off",
   back    |-> "off",   \* where src_pause returns to
   ret     |-> "off",   \* where hold_source_sealed and the seal return to
   resumed |-> FALSE,   \* this run replayed an existing journal
   force   |-> FALSE, fs |-> FALSE,      \* the operator's two flags
   perform |-> FALSE,   \* rollback_steps: undo, or only record the abort
   fenced  |-> FALSE,   \* this command stopped the local target
   rres    |-> "none",  \* the rollback's resume: "ok", "err", "ignored"
   keep    |-> FALSE,   \* keep_frozen: the reopen read did not see producing
   failed  |-> FALSE,
   sealing |-> FALSE,   \* the pipeline re-asserts the pause (reassert)
   readAt  |-> 0]       \* ghost: `ext' at the last read before a reopen

Init ==
  /\ P!Init
  /\ journal = NewJournal
  /\ agent = NoAgent
  /\ site = [edge |-> "open", whitelist |-> "original", orphan |-> "none"]

At(l) == agent.pc = l
Go(l) == agent' = [agent EXCEPT !.pc = l]

(* A transition record and what a replay forgets at it.                    *)
Moved(s) ==
  [journal EXCEPT !.state = s, !.done = FALSE,
     !.froze   = @ \/ s = "FROZEN",
     !.pending = @ /\ s \notin {"ABORTED", "STRANDED"},
     !.strand  = @ /\ s # "STRANDED",
     !.steps   = IF s = "ABORTED" THEN @ ELSE {}]
Move(s) == journal' = Moved(s)

(* mark_step: a rollback step that succeeded is journaled and never redone.*)
MarkMisnamed(name) == [journal EXCEPT !.steps = @ \cup {"step"}]   \* mutant
MarkStep(name)     == [journal EXCEPT !.steps = @ \cup {name}]

PastNoReturn ==
  journal.target # "no" \/ journal.state \in {"IGNITED", "LIVE", "HALTED"}

StatePc(s) ==
  CASE s = "ARMED" -> "armed" [] s = "FROZEN" -> "frozen"
    [] s = "SNAPSHOTTED" -> "snapshotted" [] s = "VERIFIED" -> "verified"
    [] OTHER -> "ignited"

(* check_admission_lock with reapply: a lost lock is put back, or not.     *)
Relock ==
  \/ UNCHANGED site
  \/ /\ AdmissionLock /\ journal.lock /\ site.whitelist # "sentinel"
     /\ site' = [site EXCEPT !.whitelist = "sentinel"]

(***************************************************************************)
(* src_pause as a subroutine: PauseCustody's steps until it is idle again, *)
(* then `answer' tells what came of it.                                    *)
(***************************************************************************)
Pause ==
  /\ At("pause")
  /\ \/ P!AdoptExternalPause \/ P!PauseUnreadable \/ P!PauseIntent
     \/ P!PauseAgain
     \/ \E applied, ok \in BOOLEAN : P!PauseRpc(applied, ok)
     \/ \E seen \in P!Seen : P!PauseAck(seen)
  /\ Go(IF step' = "idle" THEN agent.back ELSE "pause")
  /\ UNCHANGED <<journal, site>>

(* ensure_source_paused: pause unless a read says paused; best effort.     *)
Seal ==
  /\ At("seal")
  /\ \E seen \in P!Seen :
       /\ P!Read(seen)
       /\ IF seen = "paused" THEN Go(agent.ret) /\ Relock
          ELSE /\ agent' = [agent EXCEPT !.pc = "pause", !.back = "sealed"]
               /\ UNCHANGED site
  /\ UNCHANGED journal

(* hold_source_sealed: the tick of every wait after this ceremony's pause. *)
(* An ownership that is adopted or unknown is left alone.                  *)
Hold ==
  /\ At("hold")
  /\ \/ ~ever /\ Go(agent.ret) /\ UNCHANGED <<custody, site>>
     \/ /\ ever
        /\ External(open) \/ Unknown(open)
        /\ Go(agent.ret) /\ Relock /\ UNCHANGED custody
     \/ /\ ever /\ ~External(open) /\ ~Unknown(open)
        /\ \E seen \in P!Seen :
             /\ P!Read(seen)
             /\ IF seen # "producing" THEN Go(agent.ret) /\ Relock
                ELSE /\ agent' = [agent EXCEPT !.pc = "pause",
                                               !.back = "sealed"]
                     /\ UNCHANGED site
  /\ UNCHANGED journal

(* Both read once more after a pause that succeeded, and re-lock.          *)
SealedSurely ==     \* mutant: seals until a read says paused
  /\ At("sealed")
  /\ \E seen \in P!Seen :
       /\ P!Read(seen)
       /\ IF seen = "paused" THEN Go(agent.ret) ELSE Go("seal")
  /\ Relock
  /\ UNCHANGED journal
Sealed ==
  /\ At("sealed")
  /\ IF answer = "ok" THEN \E seen \in P!Seen : P!Read(seen)
     ELSE UNCHANGED custody
  /\ Go(agent.ret) /\ Relock
  /\ UNCHANGED journal

HoldThen(l) == agent' = [agent EXCEPT !.pc = "hold", !.ret = l]
SealThen(l) == agent' = [agent EXCEPT !.pc = "seal", !.ret = l]

(***************************************************************************)
(* Commands. Each starts a process that replays the journal.               *)
(***************************************************************************)
StartRun ==
  /\ At("off") /\ P!Restart
  /\ agent' = [NoAgent EXCEPT !.pc = "run",
                              !.resumed = journal.state # "none",
                              !.perform = AutoRollback]
  /\ UNCHANGED <<journal, site>>

Exit ==
  /\ At("exit") /\ P!Exit
  /\ agent' = NoAgent
  /\ UNCHANGED <<journal, site>>

(* A stop point, or a read that fails for good: the run ends where it is.  *)
RunEnds ==
  /\ agent.pc \in {"armed", "frozen", "fr_read", "fr_adopt", "fr_own",
                   "snapshot", "fr_paused", "quiesce", "snapshotted",
                   "verified", "ignite", "igniting", "ignited"}
  /\ Go("exit")
  /\ UNCHANGED <<custody, journal, site>>

StrandUnfinished ==
  /\ journal.strand
  /\ journal.state \notin {"STRANDED", "ABORTED", "HALTED", "LIVE"}

(* An abort that had decided to seal finishes its strand before anything   *)
(* else, the orphaned hooks included.                                      *)
RunStrand ==
  /\ At("run") /\ StrandUnfinished
  /\ Go("strand")
  /\ UNCHANGED <<custody, journal, site>>

(* A rollback in progress, an orphan that cannot be stopped, a halt.       *)
RunRefused ==
  /\ At("run") /\ ~StrandUnfinished
  /\ journal.pending \/ site.orphan # "none" \/ journal.state = "HALTED"
  /\ Go("exit")
  /\ UNCHANGED <<custody, journal, site>>

ResumableRollback == ~StrandUnfinished /\ journal.state # "HALTED"   \* mutant
Resumable ==
  ~StrandUnfinished /\ ~journal.pending /\ journal.state # "HALTED"

RunOn ==
  /\ At("run") /\ Resumable
  /\ site' = [site EXCEPT !.orphan = "none"]
  /\ LET s == journal.state
         inDoubt == s \in {"ARMED", "FROZEN", "SNAPSHOTTED", "VERIFIED"}
                    /\ journal.target \in {"creating", "ignited"}
     IN  /\ IF s = "none" THEN Move("ARMED")
            ELSE IF inDoubt THEN Move("HALTED") ELSE UNCHANGED journal
         /\ IF s = "STRANDED" THEN SealThen("exit")
            ELSE Go(IF inDoubt \/ s \in {"LIVE", "ABORTED"} THEN "exit"
                    ELSE "preflight")
  /\ UNCHANGED custody

(* A producer that is already paused is refused at a fresh arming only.    *)
Preflight(seen) ==
  LET freshArm == \/ ~agent.resumed
                  \/ journal.state = "ARMED" /\ ~journal.writes /\ ~Ours(open)
  IN  /\ At("preflight")
      /\ P!Read(seen)
      /\ \/ Go("abort")
         \/ /\ seen # "unreadable" /\ ~(seen = "paused" /\ freshArm)
            /\ Go(StatePc(journal.state))
      /\ UNCHANGED <<journal, site>>

(* Any of the refusals and failures the states wait for or run into.       *)
Fails ==
  /\ agent.pc \in {"armed", "fr_read", "snapshot", "quiesce", "verify",
                   "verified", "ignite", "ignited"}
  /\ Go("abort")
  /\ UNCHANGED <<custody, journal, site>>

(***************************************************************************)
(* ARMED: the admission lock, then the write freeze, each an intent record *)
(* before its effect. Re-runs keep the first attempt's intents.            *)
(***************************************************************************)
Armed ==
  /\ At("armed")
  /\ Go(IF AdmissionLock THEN "lock" ELSE "freeze")
  /\ UNCHANGED <<custody, journal, site>>

(* Another ceremony's lock, or an unreadable list, aborts.                 *)
LockIntent ==
  /\ At("lock")
  /\ \/ /\ journal.lock \/ site.whitelist # "sentinel"
        /\ journal' = [journal EXCEPT !.lock = TRUE]
        /\ Go("lock_rpc")
     \/ ~journal.lock /\ Go("abort") /\ UNCHANGED journal
  /\ UNCHANGED <<custody, site>>

LockRpc(applied, ok) ==
  /\ At("lock_rpc")
  /\ ok => applied
  /\ site' = IF applied THEN [site EXCEPT !.whitelist = "sentinel"] ELSE site
  /\ Go(IF ok THEN "freeze" ELSE "abort")
  /\ UNCHANGED <<custody, journal>>

FreezeIntent ==
  /\ At("freeze")
  /\ IF FreezeHook
     THEN Go("freeze_hook") /\ journal' = [journal EXCEPT !.writes = TRUE]
     ELSE Go("frozen") /\ Move("FROZEN")
  /\ UNCHANGED <<custody, site>>

FreezeHookRuns(effect, ok) ==
  /\ At("freeze_hook")
  /\ ok => effect
  /\ site' = IF effect THEN [site EXCEPT !.edge = "frozen"] ELSE site
  /\ IF ok THEN Go("frozen") /\ Move("FROZEN")
     ELSE Go("abort") /\ UNCHANGED journal
  /\ UNCHANGED custody

(***************************************************************************)
(* FROZEN: whose pause is it, if the producer is paused? Ours is resumed   *)
(* for the snapshot (kept when H is final), another one is adopted.        *)
(***************************************************************************)
Frozen ==
  /\ At("frozen")
  /\ IF agent.resumed /\ ever THEN HoldThen("fr_read") ELSE Go("fr_read")
  /\ IF agent.resumed THEN Relock ELSE UNCHANGED site
  /\ UNCHANGED <<custody, journal>>

FrozenRead(seen) ==
  /\ At("fr_read") /\ seen # "unreadable"
  /\ P!Read(seen)
  /\ Go(IF seen = "producing" THEN "snapshot"
        ELSE IF Ours(open) THEN "fr_own" ELSE "fr_adopt")
  /\ UNCHANGED <<journal, site>>

FrozenAdopt ==
  /\ At("fr_adopt") /\ P!AdoptExternalPause
  /\ Go("snapshot")
  /\ UNCHANGED <<journal, site>>

(* With a scheduled snapshot of a final H the pause can stay.              *)
KeepPaused ==
  /\ Scheduled
  /\ \/ At("fr_own")
     \/ At("fr_adopt") /\ pause = "none"
  /\ Go("snapshot")
  /\ UNCHANGED <<custody, journal, site>>

(* src_resume, also when adopt_external_pause read the producer producing. *)
FrozenResume ==
  /\ \/ At("fr_own") /\ P!ResumeOwn
     \/ At("fr_adopt") /\ P!ResumeUnpaused
  /\ Go("fr_resume")
  /\ UNCHANGED <<journal, site>>

FrozenResumes ==
  /\ At("fr_resume")
  /\ \/ \E applied, ok \in BOOLEAN : P!ResumeRpc(applied, ok)
     \/ \E seen \in P!Seen : P!ResumeConfirm(seen) \/ P!ResumeRecheck(seen)
     \/ pause = "none" /\ P!ResumeClose
  /\ Go(IF step' # "idle" THEN "fr_resume"
        ELSE IF step = "settled" /\ answer' = "ok" THEN "snapshot" ELSE "exit")
  /\ UNCHANGED <<journal, site>>

Snapshot ==
  /\ At("snapshot")
  /\ agent' = [agent EXCEPT !.pc = "pause", !.back = "fr_paused"]
  /\ Relock
  /\ UNCHANGED <<custody, journal>>

FrozenPaused ==
  /\ At("fr_paused")
  /\ IF answer = "err" THEN Go("abort") /\ UNCHANGED <<custody, site>>
     ELSE \E seen \in P!Seen :
            /\ P!Read(seen)
            /\ Go(IF seen = "paused" THEN "quiesce" ELSE "abort")
            /\ IF seen = "unreadable" THEN UNCHANGED site ELSE Relock
  /\ UNCHANGED journal

(* The tick of the quiescence window; a late block reads the producer.     *)
QuiesceTick ==
  /\ At("quiesce")
  /\ \/ HoldThen("quiesce") /\ UNCHANGED custody
     \/ /\ Ours(open) /\ \E seen \in P!Seen : P!Read(seen)
        /\ UNCHANGED agent
  /\ UNCHANGED <<journal, site>>

(* Quiescent, and nothing landed after the cut.                            *)
Quiesced ==
  /\ At("quiesce")
  /\ Move("SNAPSHOTTED") /\ Go("snapshotted") /\ Relock
  /\ UNCHANGED custody

(***************************************************************************)
(* SNAPSHOTTED: the pipeline re-asserts a pause that was ours at its start.*)
(***************************************************************************)
Snapshotted ==
  /\ At("snapshotted")
  /\ agent' = [agent EXCEPT !.pc = "verify", !.sealing = Ours(open)]
  /\ UNCHANGED <<custody, journal, site>>

VerifyTick ==
  /\ At("verify") /\ agent.sealing
  /\ \/ /\ P!SealTick
        /\ agent' = [agent EXCEPT !.pc = "pause", !.back = "verify"]
     \/ UNCHANGED <<custody, agent>>
  /\ Relock
  /\ UNCHANGED journal

Verified ==
  /\ At("verify")
  /\ Move("VERIFIED") /\ Go("verified")
  /\ UNCHANGED <<custody, site>>

(***************************************************************************)
(* VERIFIED: the fleet gate's ticks, then creation and ignition, each only *)
(* over a source that a read shows paused, each intent a point of no       *)
(* return.                                                                 *)
(***************************************************************************)
VerifiedTick ==
  /\ At("verified") /\ journal.target = "no"
  /\ HoldThen("verified")
  /\ UNCHANGED <<custody, journal, site>>

Boundary(from, intent, to, seen) ==
  /\ At(from)
  /\ P!Read(seen)
  /\ IF seen = "paused"
     THEN journal' = [journal EXCEPT !.target = intent] /\ Go(to)
     ELSE Go("abort") /\ UNCHANGED journal
  /\ UNCHANGED site

CreateIntent(seen) ==
  journal.target = "no" /\ Boundary("verified", "creating", "create", seen)

Created ==
  /\ At("create")
  /\ \/ journal' = [journal EXCEPT !.target = "created"] /\ Go("ignite")
     \/ Go("abort") /\ UNCHANGED journal
  /\ UNCHANGED <<custody, site>>

(* A target a previous run created, or the fork backend, which creates none. *)
NoCreation ==
  /\ At("verified") /\ journal.target \in {"no", "created"}
  /\ Go("ignite")
  /\ UNCHANGED <<custody, journal, site>>

IgniteIntent(seen) == Boundary("ignite", "ignited", "igniting", seen)

Ignited ==
  /\ At("igniting")
  /\ \/ Move("IGNITED") /\ Go("ignited")
     \/ Go("abort") /\ UNCHANGED journal
  /\ UNCHANGED <<custody, site>>

Live ==
  /\ At("ignited")
  /\ Move("LIVE") /\ Go("exit")
  /\ UNCHANGED <<custody, site>>

(***************************************************************************)
(* abort(): a halt after the point of no return; before it the resume      *)
(* guard, passed twice, and the rollback, whose intent is journaled first. *)
(***************************************************************************)
Halt ==
  /\ At("abort") /\ PastNoReturn
  /\ Move("HALTED") /\ Go("exit")
  /\ UNCHANGED <<custody, site>>

NeedsResumeGuard ==
  Coordinated /\ journal.state \in {"FROZEN", "SNAPSHOTTED", "VERIFIED"}

AbortUnguarded ==
  /\ At("abort") /\ ~PastNoReturn /\ ~NeedsResumeGuard
  /\ journal' = [journal EXCEPT !.pending = @ \/ AutoRollback]
  /\ Go("rb")
  /\ UNCHANGED <<custody, site>>

AbortGuarded(clear) ==
  /\ At("abort") /\ ~PastNoReturn /\ NeedsResumeGuard
  /\ journal' = IF clear THEN [journal EXCEPT !.pending = TRUE] ELSE journal
  /\ Go(IF clear THEN "withdraw" ELSE "strand")
  /\ UNCHANGED <<custody, site>>

(* The VERIFIED report is withdrawn; the guard is asked again.             *)
Withdrawn(clear) ==
  /\ At("withdraw")
  /\ Go(IF ~clear THEN "strand"
        ELSE IF agent.ret = "op_go" THEN "op_go" ELSE "rb")
  /\ UNCHANGED <<custody, journal, site>>

(* strand(): what holds the producer is read, the source sealed, and only  *)
(* then STRANDED is journaled.                                             *)
StrandRead ==
  /\ At("strand")
  /\ \E seen \in P!Seen : P!Read(seen)
  /\ SealThen("stranded")
  /\ UNCHANGED <<journal, site>>

Stranded ==
  /\ At("stranded")
  /\ Move("STRANDED") /\ Go("exit")
  /\ UNCHANGED <<custody, site>>

(***************************************************************************)
(* rollback_steps: resume an own pause, decide on a fresh read whether     *)
(* writes may reopen, record ABORTED, reopen. Each step done is recorded   *)
(* and skipped by the next attempt.                                        *)
(***************************************************************************)
RollbackResumeAny ==        \* mutant: whoever's pause it is
  /\ At("rb") /\ agent.perform /\ open # <<>> /\ P!ResumeIntent
  /\ Go("rb_resume")
  /\ UNCHANGED <<journal, site>>

RollbackResume ==
  /\ At("rb") /\ agent.perform /\ P!ResumeOwn
  /\ Go("rb_resume")
  /\ UNCHANGED <<journal, site>>

RollbackNoResume ==
  /\ At("rb") /\ ~(agent.perform /\ Ours(open))
  /\ Go("rb_check")
  /\ UNCHANGED <<custody, journal, site>>

RollbackResumes ==
  /\ At("rb_resume")
  /\ \/ \E applied, ok \in BOOLEAN : P!ResumeRpc(applied, ok)
     \/ \E seen \in P!Seen : P!ResumeConfirm(seen)
     \/ P!ResumeClose
  /\ IF step' # "idle" THEN UNCHANGED <<agent, journal>>
     ELSE /\ agent' = [agent EXCEPT !.pc = "rb_check", !.rres = answer']
          /\ journal' = IF answer' = "ok"
                        THEN MarkStep("resume")
                        ELSE journal
  /\ UNCHANGED site

ReopenPending ==
  AbortHook /\ journal.writes /\ "on_abort" \notin journal.steps
MustConfirmOwn ==           \* mutant: not for writes this journal froze
  agent.perform /\ (agent.rres = "ok" \/ Unknown(open))
MustConfirm ==
  agent.perform /\ (agent.rres = "ok" \/ Unknown(open) \/ journal.writes)

(* A pause that is not ours, or is not known to be, keeps writes frozen: a *)
(* performed rollback seals instead, its intent first.                     *)
Seals(seen) ==
  /\ agent.perform /\ seen # "producing"
  /\ \/ agent.rres \in {"none", "ok"}
     \/ agent.rres = "ignored" /\ seen = "paused"

RollbackCheck(seen) ==
  /\ At("rb_check")
  /\ ReopenPending \/ MustConfirm
  /\ P!Read(seen)
  /\ IF Seals(seen)
     THEN /\ journal' = [journal EXCEPT !.strand = TRUE]
          /\ IF seen = "unreadable" THEN Go("strand") ELSE SealThen("stranded")
     ELSE /\ Move("ABORTED")
          /\ agent' = [agent EXCEPT !.pc = "rb_reopen",
                                    !.keep = seen # "producing"]
  /\ UNCHANGED site

RollbackNoCheck ==
  /\ At("rb_check") /\ ~(ReopenPending \/ MustConfirm)
  /\ Move("ABORTED") /\ Go("rb_reopen")
  /\ UNCHANGED <<custody, site>>

SourceBack    == ~agent.keep /\ agent.rres \notin {"err", "ignored"}
ReopenHook    == SourceBack /\ ReopenPending
UnlockWithHook == ReopenHook /\ journal.lock       \* mutant
UnlockPending == SourceBack /\ journal.lock

RollbackRecheckFailOpen(seen) ==      \* mutant: an unreadable producer passes
  /\ At("rb_reopen")
  /\ ReopenHook \/ UnlockPending
  /\ P!Read(seen)
  /\ agent' = IF seen # "paused"
              THEN [agent EXCEPT !.pc = "rb_unlock", !.readAt = ext]
              ELSE [agent EXCEPT !.pc = "rb_finish", !.failed = TRUE]
  /\ UNCHANGED <<journal, site>>

(* One more read right before reopening.                                   *)
RollbackRecheck(seen) ==
  /\ At("rb_reopen")
  /\ ReopenHook \/ UnlockPending
  /\ P!Read(seen)
  /\ agent' = IF seen = "producing"
              THEN [agent EXCEPT !.pc = "rb_unlock", !.readAt = ext]
              ELSE [agent EXCEPT !.pc = "rb_finish", !.failed = TRUE]
  /\ UNCHANGED <<journal, site>>

RollbackNothingToReopen ==
  /\ At("rb_reopen") /\ ~(ReopenHook \/ UnlockPending)
  /\ Go("rb_finish")
  /\ UNCHANGED <<custody, journal, site>>

(* release_admission: from our sentinel only; a list someone else set, or  *)
(* the original, is left as it is and the step is done.                    *)
Unlock(applied, ok) ==
  /\ At("rb_unlock") /\ UnlockPending
  /\ ok => applied
  /\ site' = IF applied /\ site.whitelist = "sentinel"
             THEN [site EXCEPT !.whitelist = "original"] ELSE site
  /\ journal' = IF ok THEN [MarkStep("admission_unlock") EXCEPT !.lock = FALSE]
                ELSE journal
  /\ agent' = [agent EXCEPT !.pc = "rb_hook", !.failed = @ \/ ~ok]
  /\ UNCHANGED custody

NoUnlock ==
  /\ At("rb_unlock") /\ ~UnlockPending
  /\ Go("rb_hook")
  /\ UNCHANGED <<custody, journal, site>>

AbortHookAssumed(effect, ok) ==       \* mutant: its failure is not looked at
  /\ At("rb_hook") /\ ReopenHook
  /\ ok => effect
  /\ site' = IF effect THEN [site EXCEPT !.edge = "open"] ELSE site
  /\ journal' = MarkStep("on_abort")
  /\ Go("rb_finish")
  /\ UNCHANGED custody

AbortHookRuns(effect, ok) ==
  /\ At("rb_hook") /\ ReopenHook
  /\ ok => effect
  /\ site' = IF effect THEN [site EXCEPT !.edge = "open"] ELSE site
  /\ journal' = IF ok THEN MarkStep("on_abort")
                ELSE journal
  /\ agent' = [agent EXCEPT !.pc = "rb_finish", !.failed = @ \/ ~ok]
  /\ UNCHANGED custody

NoAbortHook ==
  /\ At("rb_hook") /\ ~ReopenHook
  /\ Go("rb_finish")
  /\ UNCHANGED <<custody, journal, site>>

(* The staged file is moved aside; rollback_done only when nothing failed, *)
(* and only if this attempt undid, or there was nothing to undo.           *)
NothingToUndo == ~ever /\ ~journal.writes /\ ~journal.lock
ResumeFailed == agent.rres \in {"err", "ignored"}

RollbackFinishAnyway(unstaged) ==     \* mutant: a failed resume is forgotten
  /\ At("rb_finish")
  /\ journal' = [journal EXCEPT !.done =
        /\ unstaged /\ ~agent.failed
        /\ agent.perform \/ NothingToUndo]
  /\ Go("exit")
  /\ UNCHANGED <<custody, site>>

RollbackFinish(unstaged) ==
  /\ At("rb_finish")
  /\ journal' = [journal EXCEPT !.done =
        /\ unstaged /\ ~agent.failed /\ ~ResumeFailed
        /\ agent.perform \/ NothingToUndo]
  /\ Go("exit")
  /\ UNCHANGED <<custody, site>>

(***************************************************************************)
(* The operator's rollback.                                                *)
(***************************************************************************)
StartRollback(force, fs) ==
  /\ At("off") /\ journal.state # "none"
  /\ force \/ fs => Forced
  /\ P!Restart
  /\ agent' = [NoAgent EXCEPT !.pc = "op", !.force = force, !.fs = fs,
                              !.perform = TRUE]
  /\ UNCHANGED <<journal, site>>

OpOrphanKept ==
  /\ At("op") /\ site.orphan # "none"
  /\ Go("exit")
  /\ UNCHANGED <<custody, journal, site>>

OpOrphan ==
  /\ At("op")
  /\ site' = [site EXCEPT !.orphan = "none"]
  /\ Go("op_held")
  /\ UNCHANGED <<custody, journal>>

RolledBack == journal.state = "ABORTED" /\ journal.done

(* A pause that is not ours is released by an explicit decision only; an   *)
(* unreadable producer holds a pause of unknown ownership.                 *)
HeldCandidate ==
  ~Ours(open) /\ (Unknown(open) \/ ReopenPending) /\ ~RolledBack

OpNotHeld ==
  /\ At("op_held") /\ ~HeldCandidate
  /\ Go("op_guard")
  /\ UNCHANGED <<custody, journal, site>>

OpHeld(seen) ==
  /\ At("op_held") /\ HeldCandidate
  /\ P!Read(seen)
  /\ IF seen = "paused" \/ (seen = "unreadable" /\ Unknown(open))
     THEN agent' = [agent EXCEPT !.pc = IF agent.fs THEN "op_guard" ELSE "exit",
                                 !.back = IF agent.fs THEN "release" ELSE "off"]
     ELSE Go("op_guard")
  /\ UNCHANGED <<journal, site>>

OpNeedsGuard ==
  /\ Coordinated /\ ~PastNoReturn /\ "resume" \notin journal.steps
  /\ \/ journal.state \in {"STRANDED", "FROZEN", "SNAPSHOTTED", "VERIFIED"}
     \/ journal.state = "ABORTED" /\ ~journal.done /\ journal.froze

OpUnguarded ==
  /\ At("op_guard")
  /\ ~OpNeedsGuard \/ agent.fs
  /\ Go("op_go")
  /\ UNCHANGED <<custody, journal, site>>

OpGuarded(clear) ==
  /\ At("op_guard") /\ OpNeedsGuard /\ ~agent.fs
  /\ IF journal.state \in {"STRANDED", "ABORTED"}
     THEN /\ UNCHANGED journal
          /\ IF clear THEN Go("op_go")
             ELSE IF journal.state = "STRANDED" THEN SealThen("exit")
             ELSE Go("exit")
     ELSE IF clear
          THEN /\ journal' = [journal EXCEPT !.pending = TRUE]
               /\ agent' = [agent EXCEPT !.pc = "withdraw", !.ret = "op_go"]
          ELSE Go("strand") /\ UNCHANGED journal
  /\ UNCHANGED <<custody, site>>

(* Done already, or past the point of no return without the force: refused.*)
OpRefused ==
  /\ At("op_go")
  /\ RolledBack \/ (PastNoReturn /\ ~agent.force)
  /\ Go("exit")
  /\ UNCHANGED <<custody, journal, site>>

(* The intent comes first: a rollback that dies is never run on.           *)
OpIntent ==
  /\ At("op_go") /\ ~RolledBack /\ ~(PastNoReturn /\ ~agent.force)
  /\ journal' = [journal EXCEPT !.pending = TRUE]
  /\ Go(IF agent.back = "release" THEN "op_release"
        ELSE IF PastNoReturn THEN "op_fence" ELSE "rb")
  /\ UNCHANGED <<custody, site>>

OpRelease ==
  /\ At("op_release") /\ P!ReleaseExternal
  /\ Go(IF PastNoReturn THEN "op_fence" ELSE "rb")
  /\ UNCHANGED <<journal, site>>

OpFenceIgnored ==     \* mutant: a failed fence does not stop the rollback
  /\ At("op_fence")
  /\ \E fenced \in BOOLEAN :
       agent' = [agent EXCEPT !.pc = "rb", !.fenced = fenced]
  /\ UNCHANGED <<custody, journal, site>>

OpFence ==
  /\ At("op_fence")
  /\ \/ agent' = [agent EXCEPT !.pc = "rb", !.fenced = TRUE]
     \/ Go("exit")
  /\ UNCHANGED <<custody, journal, site>>

(***************************************************************************)
(* The world: a death, whose hook may live on; other actors on the         *)
(* producer and its whitelist; a nodeos restart, which clears both.        *)
(***************************************************************************)
Crash ==
  /\ P!Crash
  /\ site' \in
       {site, [site EXCEPT !.orphan = CASE At("freeze_hook") -> "freeze"
                                        [] At("rb_hook") -> "abort"
                                        [] OTHER -> @]}
  /\ agent' = NoAgent
  /\ UNCHANGED journal

OrphanRuns ==
  /\ site.orphan # "none"
  /\ site' = [site EXCEPT !.orphan = "none",
                !.edge = IF site.orphan = "freeze" THEN "frozen" ELSE "open"]
  /\ UNCHANGED <<custody, journal, agent>>

OthersPause == P!ExternalPause /\ UNCHANGED <<journal, agent, site>>
OthersUnpause == P!ExternalUnpause /\ UNCHANGED <<journal, agent, site>>

NodeosRestart ==
  /\ site.whitelist # "original" \/ pause # "none"
  /\ IF pause # "none" THEN P!ExternalUnpause ELSE UNCHANGED custody
  /\ site' = [site EXCEPT !.whitelist = "original"]
  /\ UNCHANGED <<journal, agent>>

OthersWhitelist ==
  /\ AdmissionLock /\ site.whitelist # "other"
  /\ site' = [site EXCEPT !.whitelist = "other"]
  /\ UNCHANGED <<custody, journal, agent>>

Run ==
  \/ RunStrand \/ RunRefused \/ RunOn \/ RunEnds
  \/ \E seen \in P!Seen : Preflight(seen)
  \/ Armed \/ LockIntent \/ FreezeIntent
  \/ \E applied, ok \in BOOLEAN :
       LockRpc(applied, ok) \/ FreezeHookRuns(applied, ok)
  \/ Frozen \/ FrozenAdopt \/ KeepPaused \/ FrozenResume \/ FrozenResumes
  \/ Snapshot \/ FrozenPaused \/ QuiesceTick \/ Quiesced
  \/ Snapshotted \/ VerifyTick \/ Verified \/ VerifiedTick
  \/ Created \/ NoCreation \/ Ignited \/ Live
  \/ \E seen \in P!Seen :
       FrozenRead(seen) \/ CreateIntent(seen) \/ IgniteIntent(seen)
  \/ Fails

Undo ==
  \/ Halt \/ AbortUnguarded \/ StrandRead \/ Stranded
  \/ \E clear \in BOOLEAN : AbortGuarded(clear) \/ Withdrawn(clear)
  \/ RollbackResume \/ RollbackNoResume \/ RollbackResumes
  \/ RollbackNoCheck \/ RollbackNothingToReopen
  \/ \E seen \in P!Seen : RollbackCheck(seen) \/ RollbackRecheck(seen)
  \/ \E applied, ok \in BOOLEAN :
       Unlock(applied, ok) \/ AbortHookRuns(applied, ok)
  \/ \E unstaged \in BOOLEAN : RollbackFinish(unstaged)
  \/ NoUnlock \/ NoAbortHook

Operator ==
  \/ OpOrphanKept \/ OpOrphan \/ OpNotHeld \/ OpUnguarded \/ OpRefused
  \/ OpIntent \/ OpRelease \/ OpFence
  \/ \E seen \in P!Seen : OpHeld(seen)
  \/ \E clear \in BOOLEAN : OpGuarded(clear)

Agent == Pause \/ Seal \/ Hold \/ Sealed \/ Run \/ Undo \/ Operator \/ Exit

Commands ==
  StartRun \/ \E force, fs \in BOOLEAN : StartRollback(force, fs)

World ==
  \/ Crash \/ OrphanRuns \/ OthersPause \/ OthersUnpause \/ NodeosRestart
  \/ OthersWhitelist

Next == Agent \/ Commands \/ World

Spec == Init /\ [][Next]_vars

(* A running agent takes its next step, and the waits with a deadline end: *)
(* quiescence_timeout_secs, the tools' timeouts, the fleet gate's deadline.*)
(* The wait for H in ARMED has none: it ends when the producer's head gets *)
(* there, on an abort or on a stop, and none of them has to come.          *)
FairSpec ==
  /\ Spec
  /\ WF_vars(Agent /\ ~At("armed"))
  /\ SF_vars(Quiesced \/ (At("quiesce") /\ Fails))
  /\ SF_vars(Verified \/ (At("verify") /\ Fails))
  /\ SF_vars(\/ \E seen \in P!Seen : CreateIntent(seen)
             \/ NoCreation \/ (At("verified") /\ Fails))
-----------------------------------------------------------------------------
TypeOK ==
  /\ P!TypeOK
  /\ journal \in
       [state : JournalStates, froze : BOOLEAN, writes : BOOLEAN,
        lock : BOOLEAN, target : {"no", "creating", "created", "ignited"},
        pending : BOOLEAN, strand : BOOLEAN, steps : SUBSET RollbackSteps,
        done : BOOLEAN]
  /\ DOMAIN agent = DOMAIN NoAgent
  /\ agent.rres \in {"none", "ok", "err", "ignored"}
  /\ site \in [edge : {"open", "frozen"},
               whitelist : {"original", "sentinel", "other"},
               orphan : {"none", "freeze", "abort"}]

(* Every touch of the producer's pause is a step of PauseCustody.          *)
Custody == P!Spec

(* tests/model.rs I1: no pause the agent made is left in place once the    *)
(* journal ends ABORTED, rolled back.                                      *)
NoOwnPauseLeft == RolledBack => pause # "agent"

(* I2: the agent reopens writes, or its producer's admission, into a       *)
(* paused producer only if someone else paused it after the last read      *)
(* (RISK-REGISTER A-20), and never under its own pause.                    *)
ReopensOnlyIntoProducing ==
  [][(\/ site.edge = "frozen" /\ site'.edge = "open"
      \/ site.whitelist = "sentinel" /\ site'.whitelist = "original"
         /\ At("rb_unlock"))
     => /\ pause # "agent"
        /\ pause = "external" /\ agent.pc \in {"rb_unlock", "rb_hook"}
             => ext > agent.readAt]_vars

(* I4: past the point of no return the source is resumed only by a forced  *)
(* rollback that fenced this box's target first.                           *)
NoResumePastNoReturn ==
  [][step # "resuming" /\ step' = "resuming" =>
       ~PastNoReturn \/ agent.fenced]_vars

(* I7: a rollback that is provably done left the edge open.                *)
DoneMeansOpen == RolledBack /\ AbortHook /\ journal.writes => site.edge = "open"

(* I8: and the producer's admission is no longer ours to restore.          *)
DoneMeansUnlocked == RolledBack => ~journal.lock /\ site.whitelist # "sentinel"

(* A ceremony that decided to go back, durably, never goes on: from a      *)
(* rollback intent the journal moves only to ABORTED, STRANDED or HALTED.  *)
NeverRunsOn ==
  [][journal.pending \/ journal.strand =>
       journal'.state \in {journal.state, "ABORTED", "STRANDED", "HALTED"}]_vars

(* tests/model.rs I6: every run and every command ends, or is a run that   *)
(* waits in ARMED for the source's head to reach the freeze height.  Past  *)
(* that wait, and in every undo, no step waits for what need not come.     *)
EveryCommandEnds == agent.pc # "off" ~> agent.pc \in {"off", "armed"}

(* machine.rs, doc of strand: a STRANDED journal has rolled nothing back   *)
(* and keeps writes frozen: never recorded over an edge that on_abort has  *)
(* reopened, as the journal itself says.                                   *)
StrandedIsFrozen ==
  [][journal.state # "STRANDED" /\ journal'.state = "STRANDED"
       /\ journal.froze /\ "on_abort" \in journal.steps
     => site.edge = "frozen"]_vars
=============================================================================
