--------------------------- MODULE CeremonyProofs ---------------------------
(***************************************************************************)
(* Every step of a ceremony is a step of PauseCustody or leaves it alone,  *)
(* whatever the configuration: so what is proved of the custody protocol   *)
(* for callers that start its primitives at any time holds for run, abort, *)
(* the operator's rollback and every recovery in between.                  *)
(***************************************************************************)
EXTENDS Ceremony, TLAPS

CustodyStep == P!Next \/ UNCHANGED custody

(* Reads and the calls of the subroutines are custody steps.               *)
LEMMA ReadSteps ==
  \A seen \in P!Seen : P!Read(seen) => CustodyStep
  BY DEF CustodyStep, P!Next

(* The subroutine src_pause.                                               *)
LEMMA PauseSteps == Pause => CustodyStep
  BY DEF Pause, CustodyStep, P!Next, P!Pausing

(* The seals: hold_source_sealed and ensure_source_paused.                 *)
LEMMA SealSteps == Seal \/ Hold \/ Sealed => CustodyStep
  <1>1. Seal => CustodyStep
    BY ReadSteps DEF Seal
  <1>2. Hold => CustodyStep
    BY ReadSteps DEF Hold, CustodyStep
  <1>3. Sealed => CustodyStep
    BY ReadSteps DEF Sealed, CustodyStep
  <1> QED BY <1>1, <1>2, <1>3

(* The run: it pauses and resumes the source at FROZEN only, and otherwise *)
(* reads it.                                                               *)
LEMMA RunSteps == Run => CustodyStep
  <1>1. FrozenAdopt \/ FrozenResume => CustodyStep
    BY DEF FrozenAdopt, FrozenResume, CustodyStep, P!Next, P!Pausing,
           P!Resuming
  <1>2. FrozenResumes => CustodyStep
    BY DEF FrozenResumes, CustodyStep, P!Next, P!Resuming
  <1>3. VerifyTick => CustodyStep
    BY DEF VerifyTick, CustodyStep, P!Next, P!Pausing
  <1>4. FrozenPaused \/ QuiesceTick => CustodyStep
    BY ReadSteps DEF FrozenPaused, QuiesceTick, CustodyStep
  <1>5. ASSUME NEW seen \in P!Seen,
               \/ Preflight(seen) \/ FrozenRead(seen)
               \/ CreateIntent(seen) \/ IgniteIntent(seen)
        PROVE  CustodyStep
    BY <1>5, ReadSteps
    DEF Preflight, FrozenRead, CreateIntent, IgniteIntent, Boundary
  <1>6. RunStrand \/ RunRefused \/ RunOn \/ RunEnds => CustodyStep
    BY DEF RunStrand, RunRefused, RunOn, RunEnds, CustodyStep
  <1>7. ASSUME NEW applied \in BOOLEAN, NEW ok \in BOOLEAN,
               LockRpc(applied, ok) \/ FreezeHookRuns(applied, ok)
        PROVE  CustodyStep
    BY <1>7 DEF LockRpc, FreezeHookRuns, CustodyStep
  <1>8. Armed \/ LockIntent \/ FreezeIntent \/ Frozen \/ KeepPaused
          => CustodyStep
    BY DEF Armed, LockIntent, FreezeIntent, Frozen, KeepPaused, CustodyStep
  <1>9. Snapshot \/ Quiesced \/ Snapshotted \/ Verified \/ VerifiedTick
          => CustodyStep
    BY DEF Snapshot, Quiesced, Snapshotted, Verified, VerifiedTick,
           CustodyStep
  <1>10. Created \/ NoCreation \/ Ignited \/ Live \/ Fails => CustodyStep
    BY DEF Created, NoCreation, Ignited, Live, Fails, CustodyStep
  <1> QED
    BY <1>1, <1>2, <1>3, <1>4, <1>5, <1>6, <1>7, <1>8, <1>9, <1>10 DEF Run

(* The undo: it resumes an own pause only, and otherwise reads.            *)
LEMMA UndoSteps == Undo => CustodyStep
  <1>1. RollbackResume => CustodyStep
    BY DEF RollbackResume, CustodyStep, P!Next, P!Resuming
  <1>2. RollbackResumes => CustodyStep
    BY DEF RollbackResumes, CustodyStep, P!Next, P!Resuming
  <1>3. StrandRead => CustodyStep
    BY ReadSteps DEF StrandRead
  <1>4. ASSUME NEW seen \in P!Seen,
               RollbackCheck(seen) \/ RollbackRecheck(seen)
        PROVE  CustodyStep
    BY <1>4, ReadSteps DEF RollbackCheck, RollbackRecheck
  <1>5. ASSUME NEW applied \in BOOLEAN, NEW ok \in BOOLEAN,
               Unlock(applied, ok) \/ AbortHookRuns(applied, ok)
        PROVE  CustodyStep
    BY <1>5 DEF Unlock, AbortHookRuns, CustodyStep
  <1>6. ASSUME NEW b \in BOOLEAN,
               AbortGuarded(b) \/ Withdrawn(b) \/ RollbackFinish(b)
        PROVE  CustodyStep
    BY <1>6 DEF AbortGuarded, Withdrawn, RollbackFinish, CustodyStep
  <1>7. Halt \/ AbortUnguarded \/ Stranded => CustodyStep
    BY DEF Halt, AbortUnguarded, Stranded, CustodyStep
  <1>8. RollbackNoResume \/ RollbackNoCheck => CustodyStep
    BY DEF RollbackNoResume, RollbackNoCheck, CustodyStep
  <1>9. RollbackNothingToReopen \/ NoUnlock \/ NoAbortHook => CustodyStep
    BY DEF RollbackNothingToReopen, NoUnlock, NoAbortHook, CustodyStep
  <1> QED
    BY <1>1, <1>2, <1>3, <1>4, <1>5, <1>6, <1>7, <1>8, <1>9 DEF Undo

(* The operator's command: it reads, and releases a pause that is held.    *)
LEMMA OperatorSteps == Operator => CustodyStep
  <1>1. OpRelease => CustodyStep
    BY DEF OpRelease, CustodyStep, P!Next
  <1>2. ASSUME NEW seen \in P!Seen, OpHeld(seen)
        PROVE  CustodyStep
    BY <1>2, ReadSteps DEF OpHeld
  <1>3. ASSUME NEW clear \in BOOLEAN, OpGuarded(clear)
        PROVE  CustodyStep
    BY <1>3 DEF OpGuarded, CustodyStep
  <1>4. OpOrphanKept \/ OpOrphan \/ OpNotHeld \/ OpUnguarded => CustodyStep
    BY DEF OpOrphanKept, OpOrphan, OpNotHeld, OpUnguarded, CustodyStep
  <1>5. OpRefused \/ OpIntent \/ OpFence => CustodyStep
    BY DEF OpRefused, OpIntent, OpFence, CustodyStep
  <1> QED BY <1>1, <1>2, <1>3, <1>4, <1>5 DEF Operator

(* A command starts an agent and ends it.                                  *)
LEMMA CommandSteps == Exit \/ Commands => CustodyStep
  BY DEF Exit, Commands, StartRun, StartRollback, CustodyStep, P!Next

(* Deaths and the other actors.                                            *)
LEMMA WorldSteps == World => CustodyStep
  <1>1. Crash \/ OrphanRuns => CustodyStep
    BY DEF Crash, OrphanRuns, CustodyStep, P!Next
  <1>2. OthersPause \/ OthersUnpause => CustodyStep
    BY DEF OthersPause, OthersUnpause, CustodyStep, P!Next
  <1>3. NodeosRestart \/ OthersWhitelist => CustodyStep
    BY DEF NodeosRestart, OthersWhitelist, CustodyStep, P!Next
  <1> QED BY <1>1, <1>2, <1>3 DEF World

(* A step of the ceremony is a step of the custody protocol or a stutter.  *)
THEOREM StepRefines == [Next]_vars => [P!Next]_(P!vars)
  <1>1. Next => CustodyStep
    BY PauseSteps, SealSteps, RunSteps, UndoSteps, OperatorSteps,
       CommandSteps, WorldSteps DEF Next, Agent
  <1>2. UNCHANGED vars => CustodyStep
    BY DEF vars, CustodyStep
  <1>3. UNCHANGED custody => UNCHANGED P!vars
    BY DEF custody, P!vars
  <1> QED BY <1>1, <1>2, <1>3 DEF CustodyStep

(* The ceremony implements the custody protocol, with every configuration  *)
(* of hooks, strategies and flags.                                         *)
THEOREM ImplementsCustody == Spec => Custody
  <1>1. Init => P!Init
    BY DEF Init
  <1> QED BY <1>1, StepRefines, PTL DEF Spec, Custody, P!Spec
-----------------------------------------------------------------------------
C == INSTANCE PauseCustodyProofs

(* The bounds of a ceremony are bounds of its custody protocol.            *)
LEMMA Bounds == C!CustodyAssumption
  BY CeremonyAssumption DEF CeremonyAssumption, C!CustodyAssumption

(* The two instances of PauseCustody are one.                              *)
LEMMA SameNext == [P!Next]_(P!vars) => [C!Next]_(C!vars)
  BY DEF
       P!Observe, C!Observe, P!Read, C!Read, P!AdoptExternalPause,
       C!AdoptExternalPause, P!PauseUnreadable, C!PauseUnreadable,
       P!PauseIntent, C!PauseIntent, P!PauseAgain, C!PauseAgain,
       P!SealTick, C!SealTick, P!PauseRpc, C!PauseRpc, P!PauseAck,
       C!PauseAck, P!ResumeIntent, C!ResumeIntent, P!ResumeOwn,
       C!ResumeOwn, P!ResumeUnpaused, C!ResumeUnpaused, P!ResumeRpc,
       C!ResumeRpc, P!ResumeConfirm, C!ResumeConfirm, P!ResumeClose,
       C!ResumeClose, P!ResumeRecheck, C!ResumeRecheck,
       P!ReleaseExternal, C!ReleaseExternal, P!Crash, C!Crash, P!Exit,
       C!Exit, P!Restart, C!Restart, P!ExternalPause, C!ExternalPause,
       P!ExternalUnpause, C!ExternalUnpause, P!Blind, C!Blind,
       P!Pausing, C!Pausing, P!Resuming, C!Resuming, P!Next, C!Next,
       P!vars, C!vars, P!world, C!world, P!episodes, C!episodes,
       P!Seen, C!Seen, P!Top, C!Top, P!Ours, C!Ours, P!External,
       C!External, P!Unknown, C!Unknown, P!Push, C!Push, P!Close,
       C!Close, P!Settle, C!Settle, P!Intend, C!Intend, P!Adopt,
       C!Adopt, P!Acknowledge, C!Acknowledge, P!BeginResume,
       C!BeginResume, P!Release, C!Release

(* No command of a ceremony resumes a foreign pause it could have seen.    *)
THEOREM CeremonyResumesOnlyItsOwn == Spec => []P!NoForeignResume
  <1>1. P!Init => C!Init
    BY DEF P!Init, C!Init
  <1>2. C!NoForeignResume => P!NoForeignResume
    BY DEF C!NoForeignResume, P!NoForeignResume, C!Released, P!Released,
           C!Top, P!Top
  <1>3. C!Spec => []C!NoForeignResume
    BY Bounds, C!ResumesOnlyItsOwn
  <1> QED
    BY <1>1, <1>2, <1>3, SameNext, ImplementsCustody, PTL
    DEF Custody, P!Spec, C!Spec

(* No command of a ceremony leaves the agent's own pause out of the        *)
(* durable log: a rollback on this journal always has it to undo.          *)
THEOREM CeremonyForgetsNoPause == Spec => []P!OwnPauseIsRecorded
  <1>1. P!Init => C!Init
    BY DEF P!Init, C!Init
  <1>2. C!OwnPauseIsRecorded => P!OwnPauseIsRecorded
    BY DEF C!OwnPauseIsRecorded, P!OwnPauseIsRecorded
  <1>3. C!Spec => []C!OwnPauseIsRecorded
    BY Bounds, C!OwnPauseIsDurable
  <1> QED
    BY <1>1, <1>2, <1>3, SameNext, ImplementsCustody, PTL
    DEF Custody, P!Spec, C!Spec
=============================================================================
