------------------------- MODULE CeremonySafetyProofs -------------------------
(***************************************************************************)
(* What a ceremony never does, for every configuration, from layers of     *)
(* invariants, each inductive given the ones before it. Fields: the        *)
(* records keep their fields. PathInv: the place a process is at agrees    *)
(* with the journal. EndInv: what a rollback has yet to do is not called   *)
(* done, and nothing reopens before a read saw the producer producing.     *)
(* SiteInv: the same of the hooks and the whitelist, orphans included.     *)
(* Unwritten, Cleared: with a freeze hook, a ceremony that recorded no     *)
(* write freeze has not come near the producer's pause, and a rollback     *)
(* that undoes has seen it gone.                                           *)
(***************************************************************************)
EXTENDS CeremonyProofs

(* The records keep their fields.                                          *)
Labels ==
  {"off", "exit", "run", "preflight", "armed", "lock", "lock_rpc", "freeze",
   "freeze_hook", "frozen", "fr_read", "fr_adopt", "fr_own", "fr_resume",
   "snapshot", "fr_paused", "quiesce", "snapshotted", "verify", "verified",
   "create", "ignite", "igniting", "ignited", "pause", "seal", "hold",
   "sealed", "abort", "withdraw", "strand", "stranded", "rb", "rb_resume",
   "rb_check", "rb_reopen", "rb_unlock", "rb_hook", "rb_finish", "op",
   "op_held", "op_guard", "op_go", "op_release", "op_fence", "release"}
Backs == {"off", "sealed", "fr_paused", "verify", "release"}
Rets == {"off", "exit", "stranded", "fr_read", "quiesce", "verified", "op_go"}
Outcomes == {"none", "ok", "err", "ignored"}
AgentRecord ==
  [pc : Labels, back : Backs, ret : Rets, resumed : BOOLEAN,
   force : BOOLEAN, fs : BOOLEAN, perform : BOOLEAN, fenced : BOOLEAN,
   rres : Outcomes, keep : BOOLEAN,
   failed : BOOLEAN, sealing : BOOLEAN, readAt : Nat]
JournalRecord ==
  [state : JournalStates, froze : BOOLEAN, writes : BOOLEAN,
   lock : BOOLEAN, target : {"no", "creating", "created", "ignited"},
   pending : BOOLEAN, strand : BOOLEAN, steps : SUBSET RollbackSteps,
   done : BOOLEAN]
SiteRecord ==
  [edge : {"open", "frozen"}, whitelist : {"original", "sentinel", "other"},
   orphan : {"none", "freeze", "abort"}]
Fields == agent \in AgentRecord /\ journal \in JournalRecord /\ site \in SiteRecord

(* What an update leaves in the agent and the journal.                     *)
LEMMA Updates ==
  ASSUME NEW a \in AgentRecord
  PROVE  /\ \A l \in Labels : [a EXCEPT !.pc = l] \in AgentRecord
         /\ \A b \in Backs : [a EXCEPT !.back = b] \in AgentRecord
         /\ \A r \in Rets : [a EXCEPT !.ret = r] \in AgentRecord
         /\ \A o \in Outcomes : [a EXCEPT !.rres = o] \in AgentRecord
         /\ \A b \in BOOLEAN : /\ [a EXCEPT !.resumed = b] \in AgentRecord
                               /\ [a EXCEPT !.force = b] \in AgentRecord
                               /\ [a EXCEPT !.fs = b] \in AgentRecord
                               /\ [a EXCEPT !.perform = b] \in AgentRecord
                               /\ [a EXCEPT !.fenced = b] \in AgentRecord
                               /\ [a EXCEPT !.keep = b] \in AgentRecord
                               /\ [a EXCEPT !.failed = b] \in AgentRecord
                               /\ [a EXCEPT !.sealing = b] \in AgentRecord
         /\ \A n \in Nat : [a EXCEPT !.readAt = n] \in AgentRecord
  BY DEF AgentRecord

LEMMA Names ==
  /\ Rets \subseteq Labels /\ Backs \subseteq Labels
  /\ agent \in AgentRecord =>
       /\ agent.ret \in Rets /\ agent.back \in Backs /\ agent.pc \in Labels
       /\ agent.failed \in BOOLEAN
  BY DEF Rets, Backs, Labels, AgentRecord

LEMMA GoType ==
  ASSUME agent \in AgentRecord, NEW l \in Labels, Go(l)
  PROVE  agent' \in AgentRecord
  BY Updates DEF Go

LEMMA HoldType ==
  ASSUME agent \in AgentRecord, NEW r \in Rets, HoldThen(r)
  PROVE  agent' \in AgentRecord
  BY Updates DEF HoldThen, Labels

LEMMA SealType ==
  ASSUME agent \in AgentRecord, NEW r \in Rets, SealThen(r)
  PROVE  agent' \in AgentRecord
  BY Updates DEF SealThen, Labels

LEMMA CallType ==
  ASSUME agent \in AgentRecord, NEW b \in Backs,
         agent' = [agent EXCEPT !.pc = "pause", !.back = b]
  PROVE  agent' \in AgentRecord
  BY Updates DEF Labels

LEMMA AgentSeal ==
  ASSUME agent \in AgentRecord, Pause \/ Seal \/ Hold \/ Sealed \/ Exit
  PROVE  agent' \in AgentRecord
  <1>1. "sealed" \in Backs /\ "pause" \in Labels /\ "seal" \in Labels
    BY DEF Backs, Labels
  <1>2. Pause => Go(agent.back) \/ Go("pause")
    BY DEF Pause
  <1>3. Seal \/ Hold => Go(agent.ret) \/ agent' = [agent EXCEPT !.pc = "pause", !.back = "sealed"]
    BY DEF Seal, Hold
  <1>4. Sealed => Go(agent.ret)
    BY DEF Sealed
  <1>5. NoAgent \in AgentRecord
    BY DEF NoAgent, AgentRecord, Labels, Backs, Rets, Outcomes
  <1> QED BY <1>1, <1>2, <1>3, <1>4, <1>5, GoType, HoldType, SealType, CallType, Names
       DEF Exit

LEMMA AgentRun ==
  ASSUME agent \in AgentRecord, Run
  PROVE  agent' \in AgentRecord
  <1> USE DEF Labels
  <1>1. RunStrand \/ RunRefused \/ RunEnds \/ Armed \/ Fails \/ KeepPaused => agent' \in AgentRecord
    BY GoType, HoldType, SealType, CallType DEF RunStrand, RunRefused, RunEnds, Armed,
         Fails, KeepPaused
  <1>2. RunOn => Go("exit") \/ Go("preflight") \/ SealThen("exit")
    BY DEF RunOn
  <1>3. ASSUME NEW seen \in P!Seen, Preflight(seen) PROVE agent' \in AgentRecord
    BY <1>3, GoType, HoldType, SealType, CallType DEF Preflight, StatePc
  <1>4. LockIntent \/ FreezeIntent \/ FrozenAdopt \/ FrozenResume \/ FrozenResumes \/ FrozenPaused
          => agent' \in AgentRecord
    BY GoType, HoldType, SealType, CallType DEF LockIntent, FreezeIntent, FrozenAdopt,
         FrozenResume, FrozenResumes, FrozenPaused
  <1>5. ASSUME NEW applied \in BOOLEAN, NEW ok \in BOOLEAN,
               LockRpc(applied, ok) \/ FreezeHookRuns(applied, ok)
        PROVE  agent' \in AgentRecord
    BY <1>5, GoType, HoldType, SealType, CallType DEF LockRpc, FreezeHookRuns
  <1>6. "fr_read" \in Rets /\ "quiesce" \in Rets /\ "verified" \in Rets /\ "exit" \in Rets
        /\ "fr_paused" \in Backs /\ "verify" \in Backs
    BY DEF Rets, Backs
  <1>7. Frozen \/ QuiesceTick \/ VerifiedTick => agent' \in AgentRecord
    BY <1>6, GoType, HoldType, SealType, CallType DEF Frozen, QuiesceTick, VerifiedTick
  <1>8. Snapshot \/ VerifyTick => agent' \in AgentRecord
    BY <1>6, GoType, HoldType, SealType, CallType DEF Snapshot, VerifyTick
  <1>9. Snapshotted => agent' \in AgentRecord
    <2>1. Snapshotted => agent' = [agent EXCEPT !.pc = "verify", !.sealing = Ours(open)]
      BY DEF Snapshotted
    <2>2. Ours(open) \in BOOLEAN
      BY DEF Ours
    <2>3. CASE agent' = [agent EXCEPT !.pc = "verify", !.sealing = Ours(open)]
      <3>1. [agent EXCEPT !.pc = "verify"] \in AgentRecord
        BY Updates
      <3> QED BY <2>2, <2>3, <3>1, Updates
    <2> QED BY <2>1, <2>3
  <1>10. Quiesced \/ Verified \/ Ignited \/ Live \/ Created \/ NoCreation => agent' \in AgentRecord
    BY GoType, HoldType, SealType, CallType DEF Quiesced, Verified, Ignited, Live, Created,
         NoCreation
  <1>11. ASSUME NEW seen \in P!Seen, FrozenRead(seen) \/ CreateIntent(seen) \/ IgniteIntent(seen)
         PROVE  agent' \in AgentRecord
    BY <1>11, GoType, HoldType, SealType, CallType DEF FrozenRead, CreateIntent,
         IgniteIntent, Boundary
  <1> QED
    BY <1>1, <1>2, <1>3, <1>4, <1>5, <1>6, <1>7, <1>8, <1>9, <1>10, <1>11, GoType, HoldType,
         SealType, CallType DEF Run

LEMMA AgentUndo ==
  ASSUME agent \in AgentRecord, ext \in Nat, Undo
  PROVE  agent' \in AgentRecord
  <1> USE DEF Labels
  <1>1. Halt \/ Stranded \/ AbortUnguarded \/ RollbackResume \/ RollbackNoResume \/ RollbackNoCheck
        \/ RollbackNothingToReopen \/ NoUnlock \/ NoAbortHook => agent' \in AgentRecord
    BY GoType, HoldType, SealType, CallType DEF Halt, Stranded, AbortUnguarded,
         RollbackResume, RollbackNoResume,
         RollbackNoCheck, RollbackNothingToReopen, NoUnlock, NoAbortHook
  <1>2. "stranded" \in Rets
    BY DEF Rets
  <1>3. StrandRead => agent' \in AgentRecord
    BY <1>2, GoType, HoldType, SealType, CallType DEF StrandRead
  <1>4. ASSUME NEW b \in BOOLEAN, AbortGuarded(b) \/ Withdrawn(b) \/ RollbackFinish(b)
        PROVE  agent' \in AgentRecord
    BY <1>4, GoType, HoldType, SealType, CallType DEF AbortGuarded, Withdrawn,
         RollbackFinish
  <1>5. RollbackResumes => agent' \in AgentRecord
    <2>1. RollbackResumes => answer' \in Outcomes
      BY DEF RollbackResumes, P!ResumeRpc, P!ResumeConfirm, P!ResumeClose, Outcomes
    <2>2. RollbackResumes => \/ agent' = agent
                             \/ agent' = [agent EXCEPT !.pc = "rb_check", !.rres = answer']
      BY DEF RollbackResumes
    <2>3. ASSUME RollbackResumes, agent' = [agent EXCEPT !.pc = "rb_check", !.rres = answer']
          PROVE  agent' \in AgentRecord
      BY <2>1, <2>3, Updates
    <2> QED BY <2>2, <2>3
  <1>6. ASSUME NEW seen \in P!Seen, RollbackCheck(seen) PROVE agent' \in AgentRecord
    <2>1. \/ Go("strand") \/ SealThen("stranded")
          \/ agent' = [agent EXCEPT !.pc = "rb_reopen", !.keep = seen # "producing"]
      BY <1>6 DEF RollbackCheck
    <2>2. CASE agent' = [agent EXCEPT !.pc = "rb_reopen", !.keep = seen # "producing"]
      BY <2>2, Updates
    <2> QED BY <1>2, <2>1, <2>2, GoType, SealType
  <1>7. ASSUME NEW seen \in P!Seen, RollbackRecheck(seen) PROVE agent' \in AgentRecord
    <2>1. \/ agent' = [agent EXCEPT !.pc = "rb_unlock", !.readAt = ext]
          \/ agent' = [agent EXCEPT !.pc = "rb_finish", !.failed = TRUE]
      BY <1>7 DEF RollbackRecheck
    <2>2. CASE agent' = [agent EXCEPT !.pc = "rb_unlock", !.readAt = ext]
      BY <2>2, Updates
    <2>3. CASE agent' = [agent EXCEPT !.pc = "rb_finish", !.failed = TRUE]
      BY <2>3, Updates
    <2> QED BY <2>1, <2>2, <2>3
  <1>8. ASSUME NEW applied \in BOOLEAN, NEW ok \in BOOLEAN,
               Unlock(applied, ok) \/ AbortHookRuns(applied, ok)
        PROVE  agent' \in AgentRecord
    <2>1. \/ agent' = [agent EXCEPT !.pc = "rb_hook", !.failed = agent.failed \/ ~ok]
          \/ agent' = [agent EXCEPT !.pc = "rb_finish", !.failed = agent.failed \/ ~ok]
      BY <1>8 DEF Unlock, AbortHookRuns
    <2>2. (agent.failed \/ ~ok) \in BOOLEAN
      OBVIOUS
    <2>3. CASE agent' = [agent EXCEPT !.pc = "rb_hook", !.failed = agent.failed \/ ~ok]
      BY <2>2, <2>3, Updates
    <2>4. CASE agent' = [agent EXCEPT !.pc = "rb_finish", !.failed = agent.failed \/ ~ok]
      BY <2>2, <2>4, Updates
    <2> QED BY <2>1, <2>3, <2>4
  <1> QED BY <1>1, <1>3, <1>4, <1>5, <1>6, <1>7, <1>8 DEF Undo

LEMMA StartUpdates ==
  ASSUME NEW a \in AgentRecord, NEW l \in Labels, NEW b \in BOOLEAN, NEW c \in BOOLEAN
  PROVE  /\ [a EXCEPT !.pc = l, !.resumed = b, !.perform = c] \in AgentRecord
         /\ [a EXCEPT !.pc = l, !.force = b, !.fs = c, !.perform = TRUE] \in AgentRecord
  <1>1. [a EXCEPT !.pc = l] \in AgentRecord
    BY Updates
  <1>2. /\ [a EXCEPT !.pc = l, !.resumed = b] \in AgentRecord
        /\ [a EXCEPT !.pc = l, !.force = b] \in AgentRecord
    BY <1>1, Updates
  <1>3. [a EXCEPT !.pc = l, !.force = b, !.fs = c] \in AgentRecord
    BY <1>2, Updates
  <1> QED BY <1>2, <1>3, Updates

LEMMA AgentRest ==
  ASSUME agent \in AgentRecord, Operator \/ Commands \/ World
  PROVE  agent' \in AgentRecord
  <1> USE DEF Labels
  <1>1. OpOrphanKept \/ OpNotHeld \/ OpUnguarded \/ OpRefused \/ OpRelease \/ OpOrphan \/ OpIntent
          => agent' \in AgentRecord
    BY GoType, HoldType, SealType, CallType DEF OpOrphanKept, OpNotHeld, OpUnguarded,
         OpRefused, OpRelease, OpOrphan, OpIntent
  <1>2. OpFence => agent' \in AgentRecord
    <2>1. OpFence => Go("exit") \/ agent' = [agent EXCEPT !.pc = "rb", !.fenced = TRUE]
      BY DEF OpFence
    <2>2. CASE agent' = [agent EXCEPT !.pc = "rb", !.fenced = TRUE]
      BY <2>2, Updates
    <2> QED BY <2>1, <2>2, GoType
  <1>3. "release" \in Backs /\ "off" \in Backs /\ "op_go" \in Rets /\ "exit" \in Rets
    BY DEF Backs, Rets
  <1>4. ASSUME NEW seen \in P!Seen, OpHeld(seen) PROVE agent' \in AgentRecord
    <2>1. \/ Go("op_guard")
          \/ agent' = [agent EXCEPT !.pc = "op_guard", !.back = "release"]
          \/ agent' = [agent EXCEPT !.pc = "exit", !.back = "off"]
      BY <1>4 DEF OpHeld
    <2>2. CASE agent' = [agent EXCEPT !.pc = "op_guard", !.back = "release"]
      BY <1>3, <2>2, Updates
    <2>3. CASE agent' = [agent EXCEPT !.pc = "exit", !.back = "off"]
      BY <1>3, <2>3, Updates
    <2> QED BY <2>1, <2>2, <2>3, GoType
  <1>5. ASSUME NEW clear \in BOOLEAN, OpGuarded(clear) PROVE agent' \in AgentRecord
    <2>1. \/ Go("op_go") \/ Go("exit") \/ Go("strand") \/ SealThen("exit")
          \/ agent' = [agent EXCEPT !.pc = "withdraw", !.ret = "op_go"]
      BY <1>5 DEF OpGuarded
    <2>2. CASE agent' = [agent EXCEPT !.pc = "withdraw", !.ret = "op_go"]
      BY <1>3, <2>2, Updates
    <2> QED BY <1>3, <2>1, <2>2, GoType, SealType
  <1>6. NoAgent \in AgentRecord
    BY DEF NoAgent, AgentRecord, Backs, Rets, Outcomes
  <1>7. StartRun => agent' \in AgentRecord
    <2>1. AutoRollback \in BOOLEAN /\ (journal.state # "none") \in BOOLEAN
      BY CeremonyAssumption DEF CeremonyAssumption
    <2>2. StartRun =>
            agent' = [NoAgent EXCEPT !.pc = "run", !.resumed = (journal.state # "none"),
                                     !.perform = AutoRollback]
      BY DEF StartRun
    <2>3. ASSUME agent' = [NoAgent EXCEPT !.pc = "run", !.resumed = (journal.state # "none"),
                                          !.perform = AutoRollback]
          PROVE  agent' \in AgentRecord
      BY <1>6, <2>1, <2>3, StartUpdates
    <2> QED BY <2>2, <2>3
  <1>8. ASSUME NEW force \in BOOLEAN, NEW fs \in BOOLEAN, StartRollback(force, fs)
        PROVE  agent' \in AgentRecord
    BY <1>6, <1>8, StartUpdates DEF StartRollback
  <1>9. World => agent' = agent \/ agent' = NoAgent
    BY DEF World, Crash, OrphanRuns, OthersPause, OthersUnpause, NodeosRestart,
         OthersWhitelist
  <1> QED
    BY <1>1, <1>2, <1>4, <1>5, <1>6, <1>7, <1>8, <1>9 DEF Operator, Commands


LEMMA AgentTyped ==
  ASSUME agent \in AgentRecord, ext \in Nat, [Next]_vars
  PROVE  agent' \in AgentRecord
  <1>1. Agent => agent' \in AgentRecord
    BY AgentSeal, AgentRun, AgentUndo, AgentRest DEF Agent
  <1>2. UNCHANGED vars => agent' = agent
    BY DEF vars
  <1> QED BY <1>1, <1>2, AgentRest DEF Next

(* What a record of the journal leaves in it.                              *)
LEMMA RecordUpdates ==
  ASSUME NEW j \in JournalRecord
  PROVE  /\ \A s \in JournalStates : [j EXCEPT !.state = s] \in JournalRecord
         /\ \A t \in {"no", "creating", "created", "ignited"} :
              [j EXCEPT !.target = t] \in JournalRecord
         /\ \A S \in SUBSET RollbackSteps : [j EXCEPT !.steps = S] \in JournalRecord
         /\ \A b \in BOOLEAN : /\ [j EXCEPT !.froze = b] \in JournalRecord
                               /\ [j EXCEPT !.writes = b] \in JournalRecord
                               /\ [j EXCEPT !.lock = b] \in JournalRecord
                               /\ [j EXCEPT !.pending = b] \in JournalRecord
                               /\ [j EXCEPT !.strand = b] \in JournalRecord
                               /\ [j EXCEPT !.done = b] \in JournalRecord
  BY DEF JournalRecord

LEMMA MoveFields ==
  ASSUME journal \in JournalRecord, NEW s \in JournalStates, Move(s)
  PROVE  /\ journal' \in JournalRecord
         /\ journal'.state = s /\ journal'.done = FALSE
         /\ journal'.froze = (journal.froze \/ s = "FROZEN")
         /\ journal'.writes = journal.writes /\ journal'.lock = journal.lock
         /\ journal'.target = journal.target
         /\ journal'.pending = (journal.pending /\ s \notin {"ABORTED", "STRANDED"})
         /\ journal'.strand = (journal.strand /\ s # "STRANDED")
         /\ journal'.steps = IF s = "ABORTED" THEN journal.steps ELSE {}
  <1> DEFINE f == journal.froze \/ s = "FROZEN"
             p == journal.pending /\ s \notin {"ABORTED", "STRANDED"}
             q == journal.strand /\ s # "STRANDED"
             S == IF s = "ABORTED" THEN journal.steps ELSE {}
  <1>1. journal' = [journal EXCEPT !.state = s, !.done = FALSE, !.froze = f,
                                   !.pending = p, !.strand = q, !.steps = S]
    BY DEF Move, Moved
  <1>2. f \in BOOLEAN /\ p \in BOOLEAN /\ q \in BOOLEAN
    OBVIOUS
  <1>3. S \in SUBSET RollbackSteps
    BY DEF JournalRecord
  <1> HIDE DEF f, p, q, S
  <1>4. [journal EXCEPT !.state = s, !.done = FALSE] \in JournalRecord
    <2>1. [journal EXCEPT !.state = s] \in JournalRecord
      BY RecordUpdates
    <2> QED BY <2>1, RecordUpdates
  <1>5. [journal EXCEPT !.state = s, !.done = FALSE, !.froze = f, !.pending = p] \in JournalRecord
    <2>1. [journal EXCEPT !.state = s, !.done = FALSE, !.froze = f] \in JournalRecord
      BY <1>2, <1>4, RecordUpdates
    <2> QED BY <1>2, <2>1, RecordUpdates
  <1>6. journal' \in JournalRecord
    <2>1. [journal EXCEPT !.state = s, !.done = FALSE, !.froze = f, !.pending = p, !.strand = q]
            \in JournalRecord
      BY <1>2, <1>5, RecordUpdates
    <2> QED BY <1>1, <1>3, <2>1, RecordUpdates
  <1>7. /\ journal'.state = s /\ journal'.done = FALSE /\ journal'.froze = f
        /\ journal'.writes = journal.writes /\ journal'.lock = journal.lock
        /\ journal'.target = journal.target
        /\ journal'.pending = p /\ journal'.strand = q /\ journal'.steps = S
    BY <1>1 DEF JournalRecord
  <1> QED BY <1>6, <1>7 DEF f, p, q, S

LEMMA MarkFields ==
  ASSUME journal \in JournalRecord, NEW name \in RollbackSteps
  PROVE  /\ MarkStep(name) \in JournalRecord
         /\ MarkStep(name).state = journal.state
         /\ MarkStep(name).steps = journal.steps \cup {name}
         /\ MarkStep(name).done = journal.done
         /\ MarkStep(name).froze = journal.froze
         /\ MarkStep(name).writes = journal.writes
         /\ MarkStep(name).lock = journal.lock
         /\ MarkStep(name).target = journal.target
         /\ MarkStep(name).pending = journal.pending
         /\ MarkStep(name).strand = journal.strand
  BY DEF MarkStep, JournalRecord

LEMMA AgentFields ==
  ASSUME agent \in AgentRecord, NEW l \in Labels, Go(l)
  PROVE  /\ agent'.pc = l
         /\ agent'.back = agent.back /\ agent'.ret = agent.ret
         /\ agent'.resumed = agent.resumed
         /\ agent'.force = agent.force /\ agent'.fs = agent.fs
         /\ agent'.perform = agent.perform /\ agent'.fenced = agent.fenced
         /\ agent'.rres = agent.rres /\ agent'.keep = agent.keep
         /\ agent'.failed = agent.failed /\ agent'.sealing = agent.sealing
         /\ agent'.readAt = agent.readAt
  BY DEF Go, AgentRecord

LEMMA HoldFields ==
  ASSUME agent \in AgentRecord, NEW l \in Rets, HoldThen(l) \/ SealThen(l)
  PROVE  /\ agent'.pc = IF HoldThen(l) THEN "hold" ELSE "seal"
         /\ agent'.ret = l /\ agent'.back = agent.back
         /\ agent'.perform = agent.perform /\ agent'.fenced = agent.fenced
         /\ agent'.rres = agent.rres /\ agent'.keep = agent.keep
         /\ agent'.failed = agent.failed /\ agent'.readAt = agent.readAt
  <1>1. CASE HoldThen(l)
    BY <1>1 DEF HoldThen, AgentRecord
  <1>2. CASE SealThen(l) /\ ~HoldThen(l)
    BY <1>2 DEF SealThen, AgentRecord
  <1> QED BY <1>1, <1>2

LEMMA CallFields ==
  ASSUME agent \in AgentRecord, NEW b \in Backs,
         agent' = [agent EXCEPT !.pc = "pause", !.back = b]
  PROVE  /\ agent'.pc = "pause" /\ agent'.back = b /\ agent'.ret = agent.ret
         /\ agent'.perform = agent.perform /\ agent'.fenced = agent.fenced
         /\ agent'.rres = agent.rres /\ agent'.keep = agent.keep
         /\ agent'.failed = agent.failed /\ agent'.readAt = agent.readAt
  BY DEF AgentRecord

LEMMA States ==
  /\ {"none", "ARMED", "FROZEN", "SNAPSHOTTED", "VERIFIED", "IGNITED", "LIVE",
      "ABORTED", "STRANDED", "HALTED"} \subseteq JournalStates
  /\ {"resume", "admission_unlock", "on_abort"} \subseteq RollbackSteps
  BY DEF JournalStates, RollbackSteps

LEMMA JournalRun ==
  ASSUME journal \in JournalRecord, Run
  PROVE  journal' \in JournalRecord
  <1>1. RunStrand \/ RunRefused \/ RunEnds \/ Armed \/ Fails \/ KeepPaused \/ Frozen
        \/ FrozenAdopt \/ FrozenResume \/ FrozenResumes \/ FrozenPaused \/ Snapshot
        \/ QuiesceTick \/ Snapshotted \/ VerifyTick \/ VerifiedTick \/ NoCreation
          => journal' = journal
    BY DEF RunStrand, RunRefused, RunEnds, Armed, Fails, KeepPaused, Frozen,
           FrozenAdopt, FrozenResume, FrozenResumes, FrozenPaused, Snapshot,
           QuiesceTick, Snapshotted, VerifyTick, VerifiedTick, NoCreation
  <1>2. RunOn => Move("ARMED") \/ Move("HALTED") \/ journal' = journal
    BY DEF RunOn
  <1>3. LockIntent => journal' = journal \/ journal' = [journal EXCEPT !.lock = TRUE]
    BY DEF LockIntent
  <1>4. FreezeIntent => Move("FROZEN") \/ journal' = [journal EXCEPT !.writes = TRUE]
    BY DEF FreezeIntent
  <1>5. ASSUME NEW applied \in BOOLEAN, NEW ok \in BOOLEAN,
               LockRpc(applied, ok) \/ FreezeHookRuns(applied, ok)
        PROVE  Move("FROZEN") \/ journal' = journal
    BY <1>5 DEF LockRpc, FreezeHookRuns
  <1>6. Quiesced \/ Verified \/ Ignited \/ Live =>
          \/ Move("SNAPSHOTTED") \/ Move("VERIFIED") \/ Move("IGNITED") \/ Move("LIVE")
          \/ journal' = journal
    BY DEF Quiesced, Verified, Ignited, Live
  <1>7. Created => journal' = journal \/ journal' = [journal EXCEPT !.target = "created"]
    BY DEF Created
  <1>8. ASSUME NEW seen \in P!Seen,
               Preflight(seen) \/ FrozenRead(seen) \/ CreateIntent(seen) \/ IgniteIntent(seen)
        PROVE  \/ journal' = journal
               \/ journal' = [journal EXCEPT !.target = "creating"]
               \/ journal' = [journal EXCEPT !.target = "ignited"]
    BY <1>8 DEF Preflight, FrozenRead, CreateIntent, IgniteIntent, Boundary
  <1> QED
    BY <1>1, <1>2, <1>3, <1>4, <1>5, <1>6, <1>7, <1>8, States, RecordUpdates, MoveFields
    DEF Run

LEMMA JournalUndo ==
  ASSUME journal \in JournalRecord, Undo
  PROVE  journal' \in JournalRecord
  <1>1. StrandRead \/ RollbackResume \/ RollbackNoResume \/ RollbackNothingToReopen
        \/ NoUnlock \/ NoAbortHook => journal' = journal
    BY DEF StrandRead, RollbackResume, RollbackNoResume, RollbackNothingToReopen,
           NoUnlock, NoAbortHook
  <1>2. Halt \/ Stranded \/ RollbackNoCheck =>
          Move("HALTED") \/ Move("STRANDED") \/ Move("ABORTED")
    BY DEF Halt, Stranded, RollbackNoCheck
  <1>3. AbortUnguarded => journal' \in JournalRecord
    <2>1. AbortUnguarded =>
            journal' = [journal EXCEPT !.pending = (journal.pending \/ AutoRollback)]
      BY DEF AbortUnguarded
    <2>2. (journal.pending \/ AutoRollback) \in BOOLEAN
      OBVIOUS
    <2> QED BY <2>1, <2>2, RecordUpdates
  <1>4. RollbackResumes => journal' = journal \/ journal' = MarkStep("resume")
    BY DEF RollbackResumes
  <1>5. ASSUME NEW seen \in P!Seen, RollbackCheck(seen) \/ RollbackRecheck(seen)
        PROVE  \/ journal' = journal \/ Move("ABORTED")
               \/ journal' = [journal EXCEPT !.strand = TRUE]
    BY <1>5 DEF RollbackCheck, RollbackRecheck
  <1>6. ASSUME NEW applied \in BOOLEAN, NEW ok \in BOOLEAN, Unlock(applied, ok)
        PROVE  journal' \in JournalRecord
    <2>1. \/ journal' = journal
          \/ journal' = [MarkStep("admission_unlock") EXCEPT !.lock = FALSE]
      BY <1>6 DEF Unlock
    <2> QED BY <2>1, States, MarkFields, RecordUpdates
  <1>7. ASSUME NEW applied \in BOOLEAN, NEW ok \in BOOLEAN, AbortHookRuns(applied, ok)
        PROVE  journal' = journal \/ journal' = MarkStep("on_abort")
    BY <1>7 DEF AbortHookRuns
  <1>8. ASSUME NEW b \in BOOLEAN, AbortGuarded(b) \/ Withdrawn(b)
        PROVE  journal' = journal \/ journal' = [journal EXCEPT !.pending = TRUE]
    BY <1>8 DEF AbortGuarded, Withdrawn
  <1>9. ASSUME NEW b \in BOOLEAN, RollbackFinish(b) PROVE journal' \in JournalRecord
    <2> DEFINE d == b /\ ~agent.failed /\ ~ResumeFailed /\ (agent.perform \/ NothingToUndo)
    <2>1. journal' = [journal EXCEPT !.done = d]
      BY <1>9 DEF RollbackFinish
    <2>2. d \in BOOLEAN
      OBVIOUS
    <2> QED BY <2>1, <2>2, RecordUpdates
  <1> QED
    BY <1>1, <1>2, <1>3, <1>4, <1>5, <1>6, <1>7, <1>8, <1>9,
       States, RecordUpdates, MoveFields, MarkFields
    DEF Undo

LEMMA JournalRest ==
  ASSUME journal \in JournalRecord,
         Operator \/ Commands \/ World \/ Pause \/ Seal \/ Hold \/ Sealed \/ Exit
  PROVE  journal' \in JournalRecord
  <1>1. Pause \/ Seal \/ Hold \/ Sealed \/ Exit \/ Commands => journal' = journal
    BY DEF Pause, Seal, Hold, Sealed, Exit, Commands, StartRun, StartRollback
  <1>2. World => journal' = journal
    BY DEF World, Crash, OrphanRuns, OthersPause, OthersUnpause, NodeosRestart,
         OthersWhitelist
  <1>3. OpOrphanKept \/ OpOrphan \/ OpNotHeld \/ OpUnguarded \/ OpRefused \/ OpRelease \/ OpFence
          => journal' = journal
    BY DEF OpOrphanKept, OpOrphan, OpNotHeld, OpUnguarded, OpRefused, OpRelease, OpFence
  <1>4. ASSUME NEW seen \in P!Seen, OpHeld(seen) PROVE journal' = journal
    BY <1>4 DEF OpHeld
  <1>5. ASSUME NEW clear \in BOOLEAN, OpIntent \/ OpGuarded(clear)
        PROVE  journal' = journal \/ journal' = [journal EXCEPT !.pending = TRUE]
    BY <1>5 DEF OpGuarded, OpIntent
  <1> QED BY <1>1, <1>2, <1>3, <1>4, <1>5, RecordUpdates DEF Operator

(* What a step leaves in the site.                                         *)
LEMMA SiteUpdates ==
  ASSUME site \in SiteRecord
  PROVE  /\ \A e \in {"open", "frozen"} : [site EXCEPT !.edge = e] \in SiteRecord
         /\ \A w \in {"original", "sentinel", "other"} :
              [site EXCEPT !.whitelist = w] \in SiteRecord
         /\ \A o \in {"none", "freeze", "abort"} : [site EXCEPT !.orphan = o] \in SiteRecord
         /\ \A e \in {"open", "frozen"} :
              [site EXCEPT !.orphan = "none", !.edge = e] \in SiteRecord
  BY DEF SiteRecord

LEMMA RelockSite ==
  ASSUME Relock
  PROVE  \/ site' = site
         \/ journal.lock /\ site' = [site EXCEPT !.whitelist = "sentinel"]
  BY DEF Relock

LEMMA SiteRun ==
  ASSUME site \in SiteRecord, Pause \/ Seal \/ Hold \/ Sealed \/ Exit \/ Run
  PROVE  site' \in SiteRecord
  <1>1. RunStrand \/ RunRefused \/ RunEnds \/ Armed \/ Fails \/ KeepPaused
        \/ FrozenAdopt \/ FrozenResume \/ FrozenResumes
        \/ Snapshotted \/ VerifiedTick \/ NoCreation \/ Created \/ QuiesceTick
        \/ LockIntent \/ FreezeIntent \/ Verified \/ Ignited \/ Live
        \/ Pause \/ Exit => site' = site
    BY DEF RunStrand, RunRefused, RunEnds, Armed, Fails, KeepPaused,
           FrozenAdopt, FrozenResume, FrozenResumes,
           Snapshotted, VerifiedTick, NoCreation, Created, QuiesceTick,
           LockIntent, FreezeIntent, Verified, Ignited, Live, Pause, Exit
  <1>2. Seal \/ Hold \/ Sealed \/ Frozen \/ FrozenPaused \/ Snapshot \/ VerifyTick \/ Quiesced
          => site' = site \/ Relock
    BY DEF Seal, Hold, Sealed, Frozen, FrozenPaused, Snapshot, VerifyTick, Quiesced
  <1>3. RunOn => site' = [site EXCEPT !.orphan = "none"]
    BY DEF RunOn
  <1>4. ASSUME NEW applied \in BOOLEAN, NEW ok \in BOOLEAN,
               LockRpc(applied, ok) \/ FreezeHookRuns(applied, ok)
        PROVE  \/ site' = site \/ site' = [site EXCEPT !.whitelist = "sentinel"]
               \/ site' = [site EXCEPT !.edge = "frozen"]
    BY <1>4 DEF LockRpc, FreezeHookRuns
  <1>5. ASSUME NEW seen \in P!Seen,
               Preflight(seen) \/ FrozenRead(seen) \/ CreateIntent(seen) \/ IgniteIntent(seen)
        PROVE  site' = site
    BY <1>5 DEF Preflight, FrozenRead, CreateIntent, IgniteIntent, Boundary
  <1> QED BY <1>1, <1>2, <1>3, <1>4, <1>5, SiteUpdates, RelockSite DEF Run

LEMMA SiteRest ==
  ASSUME site \in SiteRecord, Undo \/ Operator \/ Commands \/ World
  PROVE  site' \in SiteRecord
  <1>1. Halt \/ AbortUnguarded \/ StrandRead \/ Stranded
        \/ RollbackResume \/ RollbackNoResume \/ RollbackResumes
        \/ RollbackNoCheck \/ RollbackNothingToReopen \/ NoUnlock \/ NoAbortHook => site' = site
    BY DEF Halt, AbortUnguarded, StrandRead, Stranded, RollbackResume,
           RollbackNoResume, RollbackResumes, RollbackNoCheck, RollbackNothingToReopen,
           NoUnlock, NoAbortHook
  <1>2. ASSUME NEW seen \in P!Seen,
               RollbackCheck(seen) \/ RollbackRecheck(seen) \/ OpHeld(seen)
        PROVE  site' = site
    BY <1>2 DEF RollbackCheck, RollbackRecheck, OpHeld
  <1>3. ASSUME NEW applied \in BOOLEAN, NEW ok \in BOOLEAN,
               Unlock(applied, ok) \/ AbortHookRuns(applied, ok)
        PROVE  \/ site' = site \/ site' = [site EXCEPT !.whitelist = "original"]
               \/ site' = [site EXCEPT !.edge = "open"]
    BY <1>3 DEF Unlock, AbortHookRuns
  <1>4. ASSUME NEW b \in BOOLEAN,
               AbortGuarded(b) \/ Withdrawn(b) \/ RollbackFinish(b) \/ OpGuarded(b)
        PROVE  site' = site
    BY <1>4 DEF AbortGuarded, Withdrawn, RollbackFinish, OpGuarded
  <1>5. OpOrphanKept \/ OpNotHeld \/ OpUnguarded \/ OpRefused \/ OpRelease \/ OpFence
        \/ OpIntent \/ Commands => site' = site
    BY DEF OpOrphanKept, OpNotHeld, OpUnguarded, OpRefused, OpRelease, OpFence,
           OpIntent, Commands, StartRun, StartRollback
  <1>6. OpOrphan => site' = [site EXCEPT !.orphan = "none"]
    BY DEF OpOrphan
  <1>7. Crash => \/ site' = site \/ site' = [site EXCEPT !.orphan = "freeze"]
                 \/ site' = [site EXCEPT !.orphan = "abort"]
                 \/ site' = [site EXCEPT !.orphan = site.orphan]
    BY DEF Crash
  <1>8. OrphanRuns => \/ site' = [site EXCEPT !.orphan = "none", !.edge = "frozen"]
                      \/ site' = [site EXCEPT !.orphan = "none", !.edge = "open"]
    BY DEF OrphanRuns
  <1>9. OthersPause \/ OthersUnpause \/ NodeosRestart \/ OthersWhitelist =>
          \/ site' = site \/ site' = [site EXCEPT !.whitelist = "original"]
          \/ site' = [site EXCEPT !.whitelist = "other"]
    BY DEF OthersPause, OthersUnpause, NodeosRestart, OthersWhitelist
  <1>10. [site EXCEPT !.orphan = site.orphan] \in SiteRecord
    BY DEF SiteRecord
  <1> QED
    BY <1>1, <1>2, <1>3, <1>4, <1>5, <1>6, <1>7, <1>8, <1>9, <1>10, SiteUpdates
    DEF Undo, Operator, World

(* The custody invariant holds of the ceremony, in its own instance's      *)
(* names.                                                                  *)
LEMMA CustodyInv == Spec => [](C!IInv)
  <1>1. P!Init => C!Init
    BY DEF P!Init, C!Init
  <1>2. C!Spec => []C!IInv
    BY Bounds, C!Invariance
  <1> QED
    BY <1>1, <1>2, SameNext, ImplementsCustody, PTL DEF Custody, P!Spec, C!Spec

LEMMA CustodyFacts ==
  ASSUME C!IInv
  PROVE  /\ P!TypeOK /\ ext \in Nat /\ open \in Seq(Owners) /\ jopen \in Seq(Owners)
         /\ Len(open) = Len(jopen)
         /\ step = "down" => open = jopen
         /\ step \in {"pausing", "acking"} => Top(open) \in {"ours", "unknown"}
         /\ step = "settled" => pause # "agent"
  BY DEF C!IInv, C!TypeOK, P!TypeOK, C!Owners, C!Holders, P!Holders, C!Steps, P!Steps,
         C!Answers, P!Answers, C!Views, C!StepInv, C!Top, Top, P!Owners, Owners

LEMMA FieldsInit == Init => Fields
  BY DEF Init, Fields, NoAgent, NewJournal, AgentRecord, JournalRecord, SiteRecord,
         Labels, Backs, Rets, Outcomes, JournalStates, RollbackSteps

LEMMA FieldsStep == C!IInv /\ Fields /\ [Next]_vars => Fields'
  <1> SUFFICES ASSUME C!IInv, Fields, [Next]_vars PROVE Fields'
    OBVIOUS
  <1>1. agent' \in AgentRecord
    BY AgentTyped, CustodyFacts DEF Fields
  <1>2. journal' \in JournalRecord
    BY JournalRun, JournalUndo, JournalRest DEF Fields, Next, Agent, vars
  <1>3. site' \in SiteRecord
    BY SiteRun, SiteRest DEF Fields, Next, Agent, vars
  <1> QED BY <1>1, <1>2, <1>3 DEF Fields

(* A ceremony's records keep their fields, and their fields their ranges.  *)
THEOREM CeremonyTypeCorrect == Spec => []TypeOK
  <1>1. C!IInv /\ Fields => TypeOK
    <2> SUFFICES ASSUME C!IInv, Fields PROVE TypeOK
      OBVIOUS
    <2>1. P!TypeOK
      BY CustodyFacts
    <2>2. DOMAIN agent = DOMAIN NoAgent /\ agent.rres \in Outcomes
      BY DEF Fields, AgentRecord, NoAgent
    <2> QED BY <2>1, <2>2 DEF Fields, TypeOK, JournalRecord, SiteRecord, Outcomes
  <1> QED BY <1>1, CustodyInv, FieldsInit, FieldsStep, PTL DEF Spec

-----------------------------------------------------------------------------
(* The place of the run: a subroutine counts as where it returns to.       *)
Place ==
  IF agent.pc = "pause"
  THEN IF agent.back = "sealed" THEN agent.ret ELSE agent.back
  ELSE IF agent.pc \in {"hold", "seal", "sealed"} THEN agent.ret ELSE agent.pc
Arming == {"armed", "lock", "lock_rpc", "freeze", "freeze_hook"}
Freezing == {"frozen", "fr_read", "fr_adopt", "fr_own", "fr_resume",
             "snapshot", "fr_paused", "quiesce"}
Snapshotting == {"snapshotted", "verify"}
Verifying == {"verified", "create", "ignite", "igniting"}
Running == {"ARMED", "FROZEN", "SNAPSHOTTED", "VERIFIED", "IGNITED"}
Undoing == {"rb_reopen", "rb_unlock", "rb_hook", "rb_finish"}
Forward ==
  Arming \cup Freezing \cup Snapshotting \cup Verifying
    \cup {"preflight", "ignited", "abort"}

Waiting ==
  /\ agent.pc = "pause" => agent.back \in {"sealed", "fr_paused", "verify"}
  /\ (\/ agent.pc \in {"hold", "seal", "sealed"}
      \/ agent.pc = "pause" /\ agent.back = "sealed")
     => agent.ret \in {"exit", "stranded", "fr_read", "quiesce", "verified"}
(* What the journal holds at a place, and, past the point of no return,    *)
(* whether the source may be touched: a fence, or nothing.                 *)
Beyond(j) == j.target # "no" \/ j.state \in {"IGNITED", "LIVE", "HALTED"}
Fits(l, j, fenced) ==
  /\ l \in Arming => j.state = "ARMED"
  /\ l \in Freezing => j.state = "FROZEN"
  /\ l \in Snapshotting => j.state = "SNAPSHOTTED"
  /\ l \in Verifying => j.state = "VERIFIED"
  /\ l = "ignited" => j.state = "IGNITED"
  /\ l \in {"preflight", "abort"} => j.state \in Running
  /\ l \in Undoing => j.state = "ABORTED"
  /\ l \in Forward => ~j.pending /\ ~j.strand
  /\ j.target # "no" => j.state \notin {"none", "ARMED", "FROZEN", "SNAPSHOTTED"}
  /\ l = "withdraw" => ~Beyond(j)
  /\ l = "rb" => ~Beyond(j) \/ fenced
PathInv == Waiting /\ Fits(Place, journal, agent.fenced)

Places == Labels \ {"pause", "hold", "seal", "sealed"}
Sealers == {"exit", "stranded", "fr_read", "quiesce", "verified"}

(* A step keeps the path by the place it goes to.                          *)
LEMMA PathGo ==
  ASSUME agent \in AgentRecord, NEW l \in Places, Go(l),
         Fits(l, journal', agent.fenced)
  PROVE  PathInv'
  <1>1. l \in Labels /\ l \notin {"pause", "hold", "seal", "sealed"}
    BY DEF Places
  <1>2. agent'.pc = l /\ agent'.fenced = agent.fenced
    BY <1>1, AgentFields
  <1>3. Place' = l /\ Waiting'
    BY <1>1, <1>2 DEF Place, Waiting
  <1> QED BY <1>2, <1>3 DEF PathInv

LEMMA PathSeal ==
  ASSUME agent \in AgentRecord, NEW l \in Sealers, HoldThen(l) \/ SealThen(l),
         Fits(l, journal', agent.fenced)
  PROVE  PathInv'
  <1>1. l \in Rets
    BY DEF Sealers, Rets
  <1>2. agent'.pc \in {"hold", "seal"} /\ agent'.ret = l /\ agent'.fenced = agent.fenced
    BY <1>1, HoldFields
  <1>3. Place' = l /\ Waiting'
    BY <1>2 DEF Place, Waiting, Sealers
  <1> QED BY <1>2, <1>3 DEF PathInv

LEMMA PathCall ==
  ASSUME agent \in AgentRecord, NEW b \in {"fr_paused", "verify"},
         agent' = [agent EXCEPT !.pc = "pause", !.back = b],
         Fits(b, journal', agent.fenced)
  PROVE  PathInv'
  <1>1. b \in Backs
    BY DEF Backs
  <1>2. agent'.pc = "pause" /\ agent'.back = b /\ agent'.fenced = agent.fenced
    BY <1>1, CallFields
  <1>3. Place' = b /\ Waiting'
    BY <1>2 DEF Place, Waiting
  <1> QED BY <1>2, <1>3 DEF PathInv

LEMMA PathSame ==
  ASSUME PathInv, journal' = journal, agent'.pc = agent.pc, agent'.back = agent.back,
         agent'.ret = agent.ret, agent'.fenced = agent.fenced
  PROVE  PathInv'
  BY DEF PathInv, Place, Waiting

(* The subroutines stay at the place they were called from.                *)
LEMMA PathSealing ==
  ASSUME Fields, PathInv, Pause \/ Seal \/ Hold \/ Sealed
  PROVE  PathInv'
  <1> USE DEF Fields
  <1>1. journal' = journal /\ agent \in AgentRecord
    BY DEF Pause, Seal, Hold, Sealed
  <1>2. CASE Pause
    <2>1. At("pause") /\ (Go(agent.back) \/ Go("pause"))
      BY <1>2 DEF Pause
    <2>2. CASE Go("pause")
      <3>1. agent'.pc = "pause" /\ agent'.back = agent.back /\ agent'.ret = agent.ret
            /\ agent'.fenced = agent.fenced
        BY <1>1, <2>2, AgentFields DEF Labels
      <3> QED BY <1>1, <2>1, <3>1, PathSame DEF At
    <2>3. CASE Go(agent.back)
      <3>1. agent'.pc = agent.back /\ agent'.back = agent.back /\ agent'.ret = agent.ret
            /\ agent'.fenced = agent.fenced
        BY <1>1, <2>3, AgentFields, Names
      <3> QED BY <1>1, <2>1, <3>1 DEF At, PathInv, Place, Waiting
    <2> QED BY <2>1, <2>2, <2>3
  <1>3. CASE Seal \/ Hold \/ Sealed
    <2>1. /\ agent.pc \in {"seal", "hold", "sealed"}
          /\ Go(agent.ret) \/ agent' = [agent EXCEPT !.pc = "pause", !.back = "sealed"]
      BY <1>3 DEF Seal, Hold, Sealed, At
    <2>2. CASE Go(agent.ret)
      <3>1. agent'.pc = agent.ret /\ agent'.back = agent.back /\ agent'.ret = agent.ret
            /\ agent'.fenced = agent.fenced
        BY <1>1, <2>2, AgentFields, Names
      <3> QED BY <1>1, <2>1, <3>1 DEF PathInv, Place, Waiting
    <2>3. CASE agent' = [agent EXCEPT !.pc = "pause", !.back = "sealed"]
      <3>1. agent'.pc = "pause" /\ agent'.back = "sealed" /\ agent'.ret = agent.ret
            /\ agent'.fenced = agent.fenced
        BY <1>1, <2>3, CallFields DEF Backs
      <3> QED BY <1>1, <2>1, <3>1 DEF PathInv, Place, Waiting
    <2> QED BY <2>1, <2>2, <2>3
  <1> QED BY <1>2, <1>3

(* Leaving for a place that asks nothing of the journal.                   *)
Neutral == {"off", "exit", "run", "strand", "stranded", "rb_resume", "rb_check",
            "op", "op_held", "op_guard", "op_go", "op_release", "op_fence"}
TargetFits(j) ==
  j.target # "no" => j.state \notin {"none", "ARMED", "FROZEN", "SNAPSHOTTED"}

LEMMA FitsNeutral ==
  ASSUME NEW l \in Neutral, NEW j, NEW f, TargetFits(j)
  PROVE  Fits(l, j, f) /\ l \in Places
  BY DEF Fits, TargetFits, Neutral, Places, Labels, Arming, Freezing, Snapshotting,
         Verifying, Undoing, Forward

LEMMA FitsTarget ==
  ASSUME PathInv PROVE TargetFits(journal)
  BY DEF PathInv, Fits, TargetFits

(* Where a forward step may go while the state stays.                      *)
LEMMA FitsForward ==
  ASSUME NEW j, NEW f, NEW k, Fits(k, j, f), k \in Forward, k # "abort"
  PROVE  /\ Fits("abort", j, f) /\ "abort" \in Places
         /\ \A S \in {Arming, Freezing, Snapshotting, Verifying} :
              k \in S => \A l \in S : Fits(l, j, f) /\ l \in Places
  <1>1. ~j.pending /\ ~j.strand
    BY DEF Fits
  <1>2. j.state \in Running
    BY DEF Fits, Forward, Running
  <1>3. Fits("abort", j, f) /\ "abort" \in Places
    BY <1>1, <1>2 DEF Fits, Arming, Freezing, Snapshotting, Verifying, Undoing, Forward,
                      Places, Labels
  <1>4. k \in Arming => \A l \in Arming : Fits(l, j, f) /\ l \in Places
    BY <1>1 DEF Fits, Arming, Freezing, Snapshotting, Verifying, Undoing, Forward, Places,
         Labels
  <1>5. k \in Freezing => \A l \in Freezing : Fits(l, j, f) /\ l \in Places
    BY <1>1 DEF Fits, Arming, Freezing, Snapshotting, Verifying, Undoing, Forward, Places,
         Labels
  <1>6. k \in Snapshotting => \A l \in Snapshotting : Fits(l, j, f) /\ l \in Places
    BY <1>1 DEF Fits, Arming, Freezing, Snapshotting, Verifying, Undoing, Forward, Places,
         Labels
  <1>7. k \in Verifying => \A l \in Verifying : Fits(l, j, f) /\ l \in Places
    BY <1>1 DEF Fits, Arming, Freezing, Snapshotting, Verifying, Undoing, Forward, Places,
         Labels
  <1> QED BY <1>3, <1>4, <1>5, <1>6, <1>7

LEMMA PathLeave ==
  ASSUME Fields, NEW l \in Neutral, Go(l), TargetFits(journal')
  PROVE  PathInv'
  BY FitsNeutral, PathGo DEF Fields

LEMMA PlaceAt ==
  ASSUME PathInv, agent.pc \notin {"pause", "hold", "seal", "sealed"}
  PROVE  Place = agent.pc /\ Fits(agent.pc, journal, agent.fenced)
  BY DEF Place, PathInv

LEMMA PathStay ==
  ASSUME Fields, PathInv, journal' = journal,
         NEW S \in {Arming, Freezing, Snapshotting, Verifying},
         agent.pc \in S, NEW l \in S \cup {"abort"}, Go(l)
  PROVE  PathInv'
  <1>1. agent.pc \in Forward /\ agent.pc # "abort"
        /\ agent.pc \notin {"pause", "hold", "seal", "sealed"}
    BY DEF Arming, Freezing, Snapshotting, Verifying, Forward
  <1>2. Fits(l, journal, agent.fenced) /\ l \in Places
    BY <1>1, PlaceAt, FitsForward
  <1> QED BY <1>2, PathGo DEF Fields

LEMMA PathRun ==
  ASSUME Fields, PathInv, Run
  PROVE  PathInv'
  <1> USE DEF At, Fields
  <1>1. TargetFits(journal)
    BY FitsTarget
  <1>2. "exit" \in Neutral /\ "strand" \in Neutral
    BY DEF Neutral
  <1>3. RunStrand \/ RunRefused \/ RunEnds => PathInv'
    BY <1>1, <1>2, PathLeave DEF RunStrand, RunRefused, RunEnds
  <1>4. CASE RunOn
    <2> DEFINE s == journal.state
               inDoubt == s \in {"ARMED", "FROZEN", "SNAPSHOTTED", "VERIFIED"}
                          /\ journal.target \in {"creating", "ignited"}
    <2>0. Fields
      OBVIOUS
    <2>1. /\ IF s = "none" THEN Move("ARMED")
             ELSE IF inDoubt THEN Move("HALTED") ELSE journal' = journal
          /\ IF s = "STRANDED" THEN SealThen("exit")
             ELSE Go(IF inDoubt \/ s \in {"LIVE", "ABORTED"} THEN "exit" ELSE "preflight")
          /\ Resumable
      BY <1>4 DEF RunOn
    <2>2. CASE s = "none"
      <3>1. journal'.state = "ARMED" /\ journal'.target = "no"
        BY <1>1, <2>1, <2>2, MoveFields, States DEF TargetFits, JournalRecord
      <3>2. ~journal'.pending /\ ~journal'.strand
        BY <2>1, <2>2, MoveFields, States DEF Resumable, StrandUnfinished
      <3>3. Go("preflight")
        BY <2>1, <2>2
      <3>4. Fits("preflight", journal', agent.fenced) /\ "preflight" \in Places
        BY <3>1, <3>2 DEF Fits, Arming, Freezing, Snapshotting, Verifying, Undoing, Forward,
             Running, Places, Labels
      <3> QED BY <3>3, <3>4, PathGo
    <2>3. CASE s # "none" /\ inDoubt
      <3>1. Move("HALTED") /\ Go("exit")
        BY <2>1, <2>3
      <3>2. TargetFits(journal')
        BY <3>1, MoveFields, States DEF TargetFits
      <3> QED BY <1>2, <2>0, <3>1, <3>2, PathLeave
    <2>4. CASE s = "STRANDED"
      <3>1. SealThen("exit") /\ journal' = journal /\ "exit" \in Sealers
        BY <2>1, <2>4 DEF Sealers
      <3>2. Fits("exit", journal', agent.fenced)
        BY <1>1, <1>2, <3>1, FitsNeutral
      <3> QED BY <3>1, <3>2, PathSeal
    <2>5. CASE s # "none" /\ ~inDoubt /\ s \in {"LIVE", "ABORTED"}
      <3>1. Go("exit") /\ journal' = journal
        BY <2>1, <2>5
      <3> QED BY <1>1, <1>2, <2>0, <3>1, PathLeave
    <2>6. CASE s \notin {"none", "STRANDED", "LIVE", "ABORTED"} /\ ~inDoubt
      <3>1. Go("preflight") /\ journal' = journal
        BY <2>1, <2>6
      <3>2. ~journal.pending /\ ~journal.strand /\ s \in Running
        BY <2>1, <2>6 DEF Resumable, StrandUnfinished, JournalRecord, JournalStates, Running
      <3>3. Fits("preflight", journal', agent.fenced) /\ "preflight" \in Places
        BY <1>1, <3>1, <3>2 DEF Fits, Arming, Freezing, Snapshotting, Verifying, Undoing,
             Forward,
             TargetFits, Places, Labels
      <3> QED BY <3>1, <3>3, PathGo
    <2> QED BY <2>2, <2>3, <2>4, <2>5, <2>6
  <1>5. ASSUME NEW seen \in P!Seen, Preflight(seen) PROVE PathInv'
    <2>1. agent.pc = "preflight" /\ journal' = journal
          /\ (Go("abort") \/ Go(StatePc(journal.state)))
      BY <1>5 DEF Preflight
    <2>2. Fits("preflight", journal, agent.fenced)
      BY <2>1, PlaceAt
    <2>3. journal.state \in Running /\ ~journal.pending /\ ~journal.strand
      BY <2>2 DEF Fits, Forward
    <2>4. /\ StatePc(journal.state) \in Places /\ "abort" \in Places
          /\ Fits(StatePc(journal.state), journal, agent.fenced)
          /\ Fits("abort", journal, agent.fenced)
      BY <1>1, <2>3 DEF StatePc, Running, Fits, Arming, Freezing, Snapshotting, Verifying,
           Undoing, Forward, TargetFits, Places, Labels
    <2> QED BY <2>1, <2>4, PathGo
  <1>6. Armed => PathInv'
    BY PathStay DEF Armed, Arming
  <1>7. LockIntent => PathInv'
    <2>1. ASSUME LockIntent, journal' = journal PROVE PathInv'
      BY <2>1, PathStay DEF LockIntent, Arming
    <2>2. ASSUME At("lock"), journal' = [journal EXCEPT !.lock = TRUE], Go("lock_rpc")
          PROVE  PathInv'
      <3>1. journal'.state = journal.state /\ journal'.pending = journal.pending
            /\ journal'.strand = journal.strand /\ journal'.target = journal.target
        BY <2>2 DEF JournalRecord
      <3>2. Fits("lock", journal, agent.fenced)
        BY <2>2, PlaceAt
      <3>3. Fits("lock_rpc", journal', agent.fenced) /\ "lock_rpc" \in Places
        BY <3>1, <3>2 DEF Fits, Arming, Freezing, Snapshotting, Verifying, Undoing, Forward,
             Beyond, Places, Labels
      <3> QED BY <2>2, <3>3, PathGo
    <2> QED BY <2>1, <2>2 DEF LockIntent
  <1>8. ASSUME NEW applied \in BOOLEAN, NEW ok \in BOOLEAN, LockRpc(applied, ok)
        PROVE  PathInv'
    BY <1>8, PathStay DEF LockRpc, Arming
  <1>9. ASSUME At("freeze") \/ At("freeze_hook"), Move("FROZEN"), Go("frozen")
        PROVE  PathInv'
    <2>1. Fits(agent.pc, journal, agent.fenced) /\ agent.pc \in Arming
      BY <1>9, PlaceAt DEF Arming
    <2>2. journal'.state = "FROZEN" /\ ~journal'.pending /\ ~journal'.strand
          /\ journal'.target = "no"
      BY <1>9, <2>1, MoveFields, States DEF Fits, Forward
    <2>3. Fits("frozen", journal', agent.fenced) /\ "frozen" \in Places
      BY <2>2 DEF Fits, Arming, Freezing, Snapshotting, Verifying, Undoing, Forward, Places,
           Labels
    <2> QED BY <1>9, <2>3, PathGo
  <1>10. FreezeIntent => PathInv'
    <2>1. ASSUME At("freeze"), Go("freeze_hook"), journal' = [journal EXCEPT !.writes = TRUE]
          PROVE  PathInv'
      <3>1. journal'.state = journal.state /\ journal'.pending = journal.pending
            /\ journal'.strand = journal.strand /\ journal'.target = journal.target
        BY <2>1 DEF JournalRecord
      <3>2. Fits("freeze", journal, agent.fenced)
        BY <2>1, PlaceAt
      <3>3. Fits("freeze_hook", journal', agent.fenced) /\ "freeze_hook" \in Places
        BY <3>1, <3>2 DEF Fits, Arming, Freezing, Snapshotting, Verifying, Undoing, Forward,
             Beyond, Places, Labels
      <3> QED BY <2>1, <3>3, PathGo
    <2> QED BY <1>9, <2>1 DEF FreezeIntent
  <1>11. ASSUME NEW applied \in BOOLEAN, NEW ok \in BOOLEAN, FreezeHookRuns(applied, ok)
         PROVE  PathInv'
    <2>1. ASSUME journal' = journal, At("freeze_hook"), Go("abort") PROVE PathInv'
      BY <2>1, PathStay DEF Arming
    <2> QED BY <1>9, <1>11, <2>1 DEF FreezeHookRuns
  <1>12. Frozen => PathInv'
    <2>1. ASSUME journal' = journal, At("frozen"), HoldThen("fr_read") PROVE PathInv'
      <3>1. Fits("fr_read", journal, agent.fenced)
        BY <2>1, PlaceAt, FitsForward DEF Freezing, Forward
      <3> QED BY <2>1, <3>1, PathSeal DEF Sealers
    <2>2. ASSUME journal' = journal, At("frozen"), Go("fr_read") PROVE PathInv'
      BY <2>2, PathStay DEF Freezing
    <2> QED BY <2>1, <2>2 DEF Frozen
  <1>13. ASSUME NEW seen \in P!Seen, FrozenRead(seen) PROVE PathInv'
    BY <1>13, PathStay DEF FrozenRead, Freezing
  <1>14. FrozenAdopt \/ KeepPaused \/ FrozenResume => PathInv'
    BY PathStay DEF FrozenAdopt, KeepPaused, FrozenResume, Freezing
  <1>15. FrozenResumes => PathInv'
    <2>1. FrozenResumes =>
            agent.pc = "fr_resume" /\ journal' = journal
            /\ (Go("fr_resume") \/ Go("snapshot") \/ Go("exit"))
      BY DEF FrozenResumes
    <2> QED BY <1>1, <1>2, <2>1, PathStay, PathLeave DEF Freezing
  <1>16. Snapshot => PathInv'
    <2>1. ASSUME Snapshot PROVE agent' = [agent EXCEPT !.pc = "pause", !.back = "fr_paused"]
          /\ agent.pc = "snapshot" /\ journal' = journal
      BY <2>1 DEF Snapshot
    <2>2. ASSUME Snapshot PROVE Fits("fr_paused", journal', agent.fenced)
      BY <2>1, <2>2, PlaceAt, FitsForward DEF Freezing, Forward
    <2> QED BY <2>1, <2>2, PathCall
  <1>17. FrozenPaused => PathInv'
    <2>1. FrozenPaused => agent.pc = "fr_paused" /\ journal' = journal
                          /\ (Go("abort") \/ Go("quiesce"))
      BY DEF FrozenPaused
    <2> QED BY <2>1, PathStay DEF Freezing
  <1>18. QuiesceTick => PathInv'
    <2>1. ASSUME journal' = journal, At("quiesce"), HoldThen("quiesce") PROVE PathInv'
      <3>1. Fits("quiesce", journal, agent.fenced)
        BY <2>1, PlaceAt
      <3> QED BY <2>1, <3>1, PathSeal DEF Sealers
    <2>2. QuiesceTick => At("quiesce") /\ journal' = journal
                         /\ (HoldThen("quiesce") \/ agent' = agent)
      BY DEF QuiesceTick
    <2> QED BY <2>1, <2>2, PathSame
  <1>19. Quiesced => PathInv'
    <2>1. ASSUME At("quiesce"), Move("SNAPSHOTTED"), Go("snapshotted") PROVE PathInv'
      <3>1. Fits("quiesce", journal, agent.fenced)
        BY <2>1, PlaceAt
      <3>2. journal'.state = "SNAPSHOTTED" /\ ~journal'.pending /\ ~journal'.strand
            /\ journal'.target = "no"
        BY <2>1, <3>1, MoveFields, States DEF Fits, Forward, Freezing
      <3>3. Fits("snapshotted", journal', agent.fenced) /\ "snapshotted" \in Places
        BY <3>2 DEF Fits, Arming, Freezing, Snapshotting, Verifying, Undoing, Forward,
             Places, Labels
      <3> QED BY <2>1, <3>3, PathGo
    <2> QED BY <2>1 DEF Quiesced
  <1>20. Snapshotted => PathInv'
    <2>1. ASSUME At("snapshotted"), journal' = journal,
                 agent' = [agent EXCEPT !.pc = "verify", !.sealing = Ours(open)]
          PROVE  PathInv'
      <3>1. Fits("verify", journal, agent.fenced)
        BY <2>1, PlaceAt, FitsForward DEF Snapshotting, Forward
      <3>2. agent'.pc = "verify" /\ agent'.fenced = agent.fenced
        BY <2>1 DEF AgentRecord
      <3> QED BY <2>1, <3>1, <3>2 DEF PathInv, Place, Waiting
    <2> QED BY <2>1 DEF Snapshotted
  <1>21. VerifyTick => PathInv'
    <2>1. ASSUME At("verify"), journal' = journal,
                 agent' = [agent EXCEPT !.pc = "pause", !.back = "verify"]
          PROVE  PathInv'
      BY <2>1, PlaceAt, PathCall
    <2>2. VerifyTick => At("verify") /\ journal' = journal
                        /\ (agent' = agent \/ agent' = [agent EXCEPT !.pc = "pause", !.back = "verify"])
      BY DEF VerifyTick
    <2> QED BY <2>1, <2>2, PathSame
  <1>22. Verified => PathInv'
    <2>1. ASSUME At("verify"), Move("VERIFIED"), Go("verified") PROVE PathInv'
      <3>1. Fits("verify", journal, agent.fenced)
        BY <2>1, PlaceAt
      <3>2. journal'.state = "VERIFIED" /\ ~journal'.pending /\ ~journal'.strand
        BY <2>1, <3>1, MoveFields, States DEF Fits, Forward, Snapshotting
      <3>3. Fits("verified", journal', agent.fenced) /\ "verified" \in Places
        BY <3>2 DEF Fits, Arming, Freezing, Snapshotting, Verifying, Undoing, Forward,
             Places, Labels
      <3> QED BY <2>1, <3>3, PathGo
    <2> QED BY <2>1 DEF Verified
  <1>23. VerifiedTick => PathInv'
    <2>1. ASSUME journal' = journal, At("verified"), HoldThen("verified") PROVE PathInv'
      <3>1. Fits("verified", journal, agent.fenced)
        BY <2>1, PlaceAt
      <3> QED BY <2>1, <3>1, PathSeal DEF Sealers
    <2> QED BY <2>1 DEF VerifiedTick
  <1>24. NoCreation => PathInv'
    BY PathStay DEF NoCreation, Verifying
  <1>25. ASSUME NEW k \in Verifying, At(k), NEW l \in Verifying, Go(l),
                NEW t \in {"creating", "created", "ignited"},
                journal' = [journal EXCEPT !.target = t]
         PROVE  PathInv'
    <2>1. Fits(k, journal, agent.fenced)
      BY <1>25, PlaceAt DEF Verifying
    <2>2. journal'.state = "VERIFIED" /\ ~journal'.pending /\ ~journal'.strand
      BY <1>25, <2>1 DEF Fits, Forward, JournalRecord
    <2>3. Fits(l, journal', agent.fenced) /\ l \in Places
      BY <2>2 DEF Fits, Arming, Freezing, Snapshotting, Verifying, Undoing, Forward, Places,
           Labels
    <2> QED BY <1>25, <2>3, PathGo
  <1>26. Created => PathInv'
    BY <1>25, PathStay DEF Created, Verifying
  <1>27. ASSUME NEW seen \in P!Seen, CreateIntent(seen) \/ IgniteIntent(seen) PROVE PathInv'
    BY <1>25, <1>27, PathStay DEF CreateIntent, IgniteIntent, Boundary, Verifying
  <1>28. Ignited => PathInv'
    <2>1. ASSUME At("igniting"), Move("IGNITED"), Go("ignited") PROVE PathInv'
      <3>1. Fits("igniting", journal, agent.fenced)
        BY <2>1, PlaceAt
      <3>2. journal'.state = "IGNITED" /\ ~journal'.pending /\ ~journal'.strand
        BY <2>1, <3>1, MoveFields, States DEF Fits, Forward, Verifying
      <3>3. Fits("ignited", journal', agent.fenced) /\ "ignited" \in Places
        BY <3>2 DEF Fits, Arming, Freezing, Snapshotting, Verifying, Undoing, Forward,
             Places, Labels
      <3> QED BY <2>1, <3>3, PathGo
    <2> QED BY <2>1, PathStay DEF Ignited, Verifying
  <1>29. Live => PathInv'
    <2>1. ASSUME Move("LIVE"), Go("exit") PROVE PathInv'
      <3>1. TargetFits(journal')
        BY <2>1, MoveFields, States DEF TargetFits
      <3> QED BY <1>2, <2>1, <3>1, PathLeave
    <2> QED BY <2>1 DEF Live
  <1>30. Fails => PathInv'
    <2>1. ASSUME Fails PROVE agent.pc \in Forward /\ agent.pc # "abort" /\ Go("abort") /\ journal' = journal
            /\ agent.pc \notin {"pause", "hold", "seal", "sealed"}
      BY <2>1 DEF Fails, Forward, Arming, Freezing, Snapshotting, Verifying
    <2> QED BY <2>1, PlaceAt, FitsForward, PathGo
  <1> QED
    BY <1>3, <1>4, <1>5, <1>6, <1>7, <1>8, <1>10, <1>11, <1>12, <1>13, <1>14, <1>15, <1>16,
       <1>17, <1>18, <1>19, <1>20, <1>21, <1>22, <1>23, <1>24, <1>26, <1>27, <1>28, <1>29, <1>30
    DEF Run

LEMMA PathUndo ==
  ASSUME Fields, PathInv, Undo
  PROVE  PathInv'
  <1> USE DEF At, Fields
  <1>1. TargetFits(journal)
    BY FitsTarget
  <1>2. {"exit", "strand", "stranded", "rb_resume", "rb_check", "op_go"} \subseteq Neutral
        /\ {"exit", "stranded"} \subseteq Sealers
    BY DEF Neutral, Sealers
  <1>3. ASSUME NEW l \in {"exit", "stranded"}, SealThen(l), TargetFits(journal')
        PROVE  PathInv'
    BY <1>2, <1>3, FitsNeutral, PathSeal
  <1>4. Halt => PathInv'
    <2>1. ASSUME Move("HALTED"), Go("exit") PROVE PathInv'
      <3>1. TargetFits(journal')
        BY <2>1, MoveFields, States DEF TargetFits
      <3> QED BY <1>2, <2>1, <3>1, PathLeave
    <2> QED BY <2>1 DEF Halt
  <1>5. Stranded => PathInv'
    <2>1. ASSUME Move("STRANDED"), Go("exit") PROVE PathInv'
      <3>1. TargetFits(journal')
        BY <2>1, MoveFields, States DEF TargetFits
      <3> QED BY <1>2, <2>1, <3>1, PathLeave
    <2> QED BY <2>1 DEF Stranded
  <1>6. PastNoReturn = Beyond(journal)
    BY DEF PastNoReturn, Beyond
  <1>7. ASSUME NEW b \in BOOLEAN, journal' = [journal EXCEPT !.pending = b], ~PastNoReturn,
               NEW l \in {"withdraw", "rb"}, Go(l)
        PROVE  PathInv'
    <2>1. journal'.state = journal.state /\ journal'.target = journal.target
      BY <1>7 DEF JournalRecord
    <2>2. Fits(l, journal', agent.fenced) /\ l \in Places
      BY <1>1, <1>6, <1>7, <2>1 DEF Fits, TargetFits, Beyond, Arming, Freezing,
           Snapshotting,
           Verifying, Undoing, Forward, Places, Labels
    <2> QED BY <1>7, <2>2, PathGo
  <1>8. AbortUnguarded => PathInv'
    <2>1. AbortUnguarded => /\ ~PastNoReturn /\ Go("rb")
                            /\ journal' = [journal EXCEPT !.pending = (journal.pending \/ AutoRollback)]
      BY DEF AbortUnguarded
    <2>2. (journal.pending \/ AutoRollback) \in BOOLEAN
      OBVIOUS
    <2> QED BY <1>7, <2>1, <2>2
  <1>9. ASSUME NEW clear \in BOOLEAN, AbortGuarded(clear) PROVE PathInv'
    <2>1. \/ Go("strand") /\ journal' = journal
          \/ Go("withdraw") /\ ~PastNoReturn /\ journal' = [journal EXCEPT !.pending = TRUE]
      BY <1>9 DEF AbortGuarded
    <2> QED BY <1>1, <1>2, <1>7, <2>1, PathLeave
  <1>10. ASSUME NEW clear \in BOOLEAN, Withdrawn(clear) PROVE PathInv'
    <2>1. agent.pc = "withdraw" /\ journal' = journal
          /\ (Go("strand") \/ Go("op_go") \/ Go("rb"))
      BY <1>10 DEF Withdrawn
    <2>2. ~Beyond(journal)
      BY <2>1, PlaceAt DEF Fits
    <2>3. Fits("rb", journal', agent.fenced) /\ "rb" \in Places
      BY <1>1, <2>1, <2>2 DEF Fits, TargetFits, Beyond, Arming, Freezing, Snapshotting,
           Verifying, Undoing, Forward, Places, Labels
    <2> QED BY <1>1, <1>2, <2>1, <2>3, PathGo, PathLeave
  <1>11. StrandRead => PathInv'
    BY <1>1, <1>3 DEF StrandRead
  <1>12. RollbackResume \/ RollbackNoResume => PathInv'
    BY <1>1, <1>2, PathLeave DEF RollbackResume, RollbackNoResume
  <1>13. RollbackResumes => PathInv'
    <2>1. RollbackResumes =>
            \/ agent' = agent /\ journal' = journal
            \/ /\ agent' = [agent EXCEPT !.pc = "rb_check", !.rres = answer']
               /\ journal' = journal \/ journal' = MarkStep("resume")
      BY DEF RollbackResumes
    <2>2. TargetFits(MarkStep("resume"))
      BY <1>1, MarkFields, States DEF TargetFits
    <2>3. ASSUME agent' = [agent EXCEPT !.pc = "rb_check", !.rres = answer'], TargetFits(journal')
          PROVE  PathInv'
      <3>1. agent'.pc = "rb_check" /\ agent'.fenced = agent.fenced
        BY <2>3 DEF AgentRecord
      <3>2. Fits("rb_check", journal', agent.fenced)
        BY <1>2, <2>3, FitsNeutral
      <3> QED BY <3>1, <3>2 DEF PathInv, Place, Waiting
    <2> QED BY <1>1, <2>1, <2>2, <2>3, PathSame
  <1>14. ASSUME NEW seen \in P!Seen, RollbackCheck(seen) PROVE PathInv'
    <2>1. ASSUME journal' = [journal EXCEPT !.strand = TRUE], Go("strand") \/ SealThen("stranded")
          PROVE  PathInv'
      <3>1. journal'.state = journal.state /\ journal'.target = journal.target
        BY <2>1 DEF JournalRecord
      <3>2. TargetFits(journal')
        BY <1>1, <3>1 DEF TargetFits
      <3> QED BY <1>2, <1>3, <2>1, <3>2, PathLeave
    <2>2. ASSUME Move("ABORTED"), agent' = [agent EXCEPT !.pc = "rb_reopen", !.keep = seen # "producing"]
          PROVE  PathInv'
      <3>1. agent'.pc = "rb_reopen" /\ agent'.fenced = agent.fenced
        BY <2>2 DEF AgentRecord
      <3>2. journal'.state = "ABORTED"
        BY <2>2, MoveFields, States
      <3>3. Fits("rb_reopen", journal', agent.fenced)
        BY <3>2 DEF Fits, Arming, Freezing, Snapshotting, Verifying, Undoing, Forward
      <3> QED BY <3>1, <3>3 DEF PathInv, Place, Waiting
    <2> QED BY <1>14, <2>1, <2>2 DEF RollbackCheck
  <1>15. ASSUME NEW l \in Undoing, agent'.pc = l, journal'.state = "ABORTED" PROVE PathInv'
    <2>1. l \notin {"pause", "hold", "seal", "sealed"}
      BY DEF Undoing
    <2>2. Fits(l, journal', agent'.fenced)
      BY <1>15 DEF Fits, Arming, Freezing, Snapshotting, Verifying, Undoing, Forward
    <2> QED BY <1>15, <2>1, <2>2 DEF PathInv, Place, Waiting
  <1>16. ASSUME agent.pc \in Undoing PROVE journal.state = "ABORTED"
    BY <1>16, PlaceAt DEF Undoing, Fits
  <1>17. RollbackNoCheck => PathInv'
    <2>1. ASSUME Move("ABORTED"), Go("rb_reopen") PROVE PathInv'
      <3>1. agent'.pc = "rb_reopen" /\ journal'.state = "ABORTED"
        BY <2>1, MoveFields, States, AgentFields DEF Labels
      <3> QED BY <1>15, <3>1 DEF Undoing
    <2> QED BY <2>1 DEF RollbackNoCheck
  <1>18. ASSUME NEW seen \in P!Seen, RollbackRecheck(seen) PROVE PathInv'
    <2>1. /\ agent.pc = "rb_reopen" /\ journal' = journal
          /\ \/ agent' = [agent EXCEPT !.pc = "rb_unlock", !.readAt = ext]
             \/ agent' = [agent EXCEPT !.pc = "rb_finish", !.failed = TRUE]
      BY <1>18 DEF RollbackRecheck
    <2>2. CASE agent' = [agent EXCEPT !.pc = "rb_unlock", !.readAt = ext]
      <3>1. agent'.pc = "rb_unlock"
        BY <2>2 DEF AgentRecord
      <3> QED BY <1>15, <1>16, <2>1, <3>1 DEF Undoing
    <2>3. CASE agent' = [agent EXCEPT !.pc = "rb_finish", !.failed = TRUE]
      <3>1. agent'.pc = "rb_finish"
        BY <2>3 DEF AgentRecord
      <3> QED BY <1>15, <1>16, <2>1, <3>1 DEF Undoing
    <2> QED BY <2>1, <2>2, <2>3
  <1>19. ASSUME NEW l \in Undoing, Go(l), agent.pc \in Undoing, journal' = journal PROVE PathInv'
    BY <1>15, <1>16, <1>19, AgentFields DEF Undoing, Labels
  <1>20. RollbackNothingToReopen \/ NoUnlock \/ NoAbortHook => PathInv'
    BY <1>19 DEF RollbackNothingToReopen, NoUnlock, NoAbortHook, Undoing
  <1>21. ASSUME NEW applied \in BOOLEAN, NEW ok \in BOOLEAN,
                Unlock(applied, ok) \/ AbortHookRuns(applied, ok)
         PROVE  PathInv'
    <2>1. /\ agent.pc \in Undoing
          /\ \/ agent' = [agent EXCEPT !.pc = "rb_hook", !.failed = agent.failed \/ ~ok]
             \/ agent' = [agent EXCEPT !.pc = "rb_finish", !.failed = agent.failed \/ ~ok]
          /\ \/ journal' = journal \/ journal' = MarkStep("on_abort")
             \/ journal' = [MarkStep("admission_unlock") EXCEPT !.lock = FALSE]
      BY <1>21 DEF Unlock, AbortHookRuns, Undoing
    <2>2. journal.state = "ABORTED"
      BY <1>16, <2>1
    <2>3. /\ MarkStep("on_abort").state = "ABORTED"
          /\ [MarkStep("admission_unlock") EXCEPT !.lock = FALSE].state = "ABORTED"
      BY <2>2, MarkFields, States DEF JournalRecord
    <2>4. journal'.state = "ABORTED"
      BY <2>1, <2>2, <2>3
    <2>5. CASE agent' = [agent EXCEPT !.pc = "rb_hook", !.failed = agent.failed \/ ~ok]
      <3>1. agent'.pc = "rb_hook"
        BY <2>5 DEF AgentRecord
      <3> QED BY <1>15, <2>4, <3>1 DEF Undoing
    <2>6. CASE agent' = [agent EXCEPT !.pc = "rb_finish", !.failed = agent.failed \/ ~ok]
      <3>1. agent'.pc = "rb_finish"
        BY <2>6 DEF AgentRecord
      <3> QED BY <1>15, <2>4, <3>1 DEF Undoing
    <2> QED BY <2>1, <2>5, <2>6
  <1>22. ASSUME NEW b \in BOOLEAN, RollbackFinish(b) PROVE PathInv'
    <2> DEFINE d == b /\ ~agent.failed /\ ~ResumeFailed /\ (agent.perform \/ NothingToUndo)
    <2>1. journal' = [journal EXCEPT !.done = d] /\ Go("exit")
      BY <1>22 DEF RollbackFinish
    <2> HIDE DEF d
    <2>2. journal'.state = journal.state /\ journal'.target = journal.target
      BY <2>1 DEF JournalRecord
    <2>3. TargetFits(journal')
      BY <1>1, <2>2 DEF TargetFits
    <2> QED BY <1>2, <2>1, <2>3, PathLeave
  <1> QED
    BY <1>4, <1>5, <1>8, <1>9, <1>10, <1>11, <1>12, <1>13, <1>14, <1>17, <1>18, <1>20,
         <1>21, <1>22
    DEF Undo

LEMMA PathOperator ==
  ASSUME Fields, PathInv, Operator
  PROVE  PathInv'
  <1> USE DEF At, Fields
  <1>1. TargetFits(journal)
    BY FitsTarget
  <1>2. {"exit", "strand", "op_held", "op_guard", "op_go", "op_release", "op_fence"} \subseteq Neutral
    BY DEF Neutral
  <1>3. PastNoReturn = Beyond(journal)
    BY DEF PastNoReturn, Beyond
  <1>4. ASSUME NEW b \in BOOLEAN, journal' = [journal EXCEPT !.pending = b]
        PROVE  TargetFits(journal') /\ Beyond(journal') = Beyond(journal)
    <2>1. journal'.state = journal.state /\ journal'.target = journal.target
      BY <1>4 DEF JournalRecord
    <2> QED BY <1>1, <2>1 DEF TargetFits, Beyond
  <1>5. OpOrphanKept \/ OpOrphan \/ OpNotHeld \/ OpUnguarded \/ OpRefused => PathInv'
    BY <1>1, <1>2, PathLeave DEF OpOrphanKept, OpOrphan, OpNotHeld, OpUnguarded, OpRefused
  <1>6. ASSUME TargetFits(journal'), ~Beyond(journal'), Go("rb") PROVE PathInv'
    <2>1. Fits("rb", journal', agent.fenced) /\ "rb" \in Places
      BY <1>6 DEF Fits, TargetFits, Beyond, Arming, Freezing, Snapshotting,
           Verifying, Undoing, Forward, Places, Labels
    <2> QED BY <1>6, <2>1, PathGo
  <1>7. OpIntent => PathInv'
    <2>1. OpIntent => /\ journal' = [journal EXCEPT !.pending = TRUE]
                      /\ Go("op_release") \/ Go("op_fence") \/ (~PastNoReturn /\ Go("rb"))
      BY DEF OpIntent
    <2> QED BY <1>2, <1>3, <1>4, <1>6, <2>1, PathLeave
  <1>8. OpRelease => PathInv'
    BY <1>1, <1>2, <1>3, <1>6, PathLeave DEF OpRelease
  <1>9. OpFence => PathInv'
    <2>1. ASSUME journal' = journal, agent' = [agent EXCEPT !.pc = "rb", !.fenced = TRUE]
          PROVE  PathInv'
      <3>1. agent'.pc = "rb" /\ agent'.fenced
        BY <2>1 DEF AgentRecord
      <3>2. Fits("rb", journal', agent'.fenced)
        BY <1>1, <2>1, <3>1 DEF Fits, TargetFits, Arming, Freezing, Snapshotting,
             Verifying, Undoing, Forward
      <3> QED BY <3>1, <3>2 DEF PathInv, Place, Waiting
    <2> QED BY <1>1, <1>2, <2>1, PathLeave DEF OpFence
  <1>10. ASSUME NEW seen \in P!Seen, OpHeld(seen) PROVE PathInv'
    <2>1. /\ journal' = journal
          /\ \/ Go("op_guard")
             \/ agent' = [agent EXCEPT !.pc = "op_guard", !.back = "release"]
             \/ agent' = [agent EXCEPT !.pc = "exit", !.back = "off"]
      BY <1>10 DEF OpHeld
    <2>2. ASSUME NEW l \in {"op_guard", "exit"}, NEW b \in Backs,
                 agent' = [agent EXCEPT !.pc = l, !.back = b]
          PROVE  PathInv'
      <3>1. agent'.pc = l /\ agent'.fenced = agent.fenced
        BY <2>2 DEF AgentRecord
      <3>2. Fits(l, journal', agent.fenced)
        BY <1>1, <1>2, <2>1, FitsNeutral
      <3> QED BY <3>1, <3>2 DEF PathInv, Place, Waiting
    <2> QED BY <1>1, <1>2, <2>1, <2>2, PathLeave DEF Backs
  <1>11. ASSUME NEW clear \in BOOLEAN, OpGuarded(clear) PROVE PathInv'
    <2>1. ASSUME journal' = [journal EXCEPT !.pending = TRUE], ~PastNoReturn,
                 agent' = [agent EXCEPT !.pc = "withdraw", !.ret = "op_go"]
          PROVE  PathInv'
      <3>1. agent'.pc = "withdraw" /\ agent'.fenced = agent.fenced
        BY <2>1 DEF AgentRecord
      <3>2. Fits("withdraw", journal', agent.fenced)
        BY <1>3, <1>4, <2>1 DEF Fits, TargetFits, Arming, Freezing, Snapshotting,
             Verifying, Undoing, Forward
      <3> QED BY <3>1, <3>2 DEF PathInv, Place, Waiting
    <2>2. ASSUME journal' = journal, SealThen("exit") PROVE PathInv'
      BY <1>1, <1>2, <2>2, FitsNeutral, PathSeal DEF Sealers
    <2>3. \/ journal' = journal /\ (Go("op_go") \/ Go("exit") \/ Go("strand") \/ SealThen("exit"))
          \/ /\ journal' = [journal EXCEPT !.pending = TRUE] /\ ~PastNoReturn
             /\ agent' = [agent EXCEPT !.pc = "withdraw", !.ret = "op_go"]
      BY <1>11 DEF OpGuarded, OpNeedsGuard
    <2> QED BY <1>1, <1>2, <2>1, <2>2, <2>3, PathLeave
  <1> QED BY <1>5, <1>7, <1>8, <1>9, <1>10, <1>11 DEF Operator

LEMMA PathRest ==
  ASSUME Fields, PathInv, Commands \/ Exit \/ World \/ UNCHANGED vars
  PROVE  PathInv'
  <1>1. TargetFits(journal)
    BY FitsTarget
  <1>2. ASSUME journal' = journal, agent'.pc \in {"off", "run", "op"} PROVE PathInv'
    <2>1. Fits(agent'.pc, journal', agent'.fenced)
      BY <1>1, <1>2, FitsNeutral DEF Neutral
    <2> QED BY <1>2, <2>1 DEF PathInv, Place, Waiting
  <1>3. Exit \/ Crash \/ Commands => PathInv'
    <2>1. Exit \/ Crash => agent' = NoAgent /\ journal' = journal
      BY DEF Exit, Crash
    <2>2. ASSUME StartRun PROVE agent'.pc = "run" /\ journal' = journal
      BY <2>2 DEF StartRun, NoAgent
    <2>3. ASSUME NEW force, NEW fs, StartRollback(force, fs)
          PROVE  agent'.pc = "op" /\ journal' = journal
      BY <2>3 DEF StartRollback, NoAgent
    <2>4. NoAgent.pc = "off"
      BY DEF NoAgent
    <2> QED BY <1>2, <2>1, <2>2, <2>3, <2>4 DEF Commands
  <1>4. OrphanRuns \/ OthersPause \/ OthersUnpause \/ NodeosRestart \/ OthersWhitelist \/ UNCHANGED vars
          => agent' = agent /\ journal' = journal
    BY DEF OrphanRuns, OthersPause, OthersUnpause, NodeosRestart, OthersWhitelist, vars
  <1> QED BY <1>3, <1>4, PathSame DEF World

LEMMA PathInit == Init => PathInv
  BY DEF Init, NoAgent, NewJournal, PathInv, Place, Waiting, Fits, Beyond, Arming, Freezing,
         Snapshotting, Verifying, Undoing, Forward

LEMMA PathStep == Fields /\ PathInv /\ [Next]_vars => PathInv'
  BY PathSealing, PathRun, PathUndo, PathOperator, PathRest DEF Next, Agent

LEMMA Safe == Spec => [](C!IInv /\ Fields /\ PathInv)
  BY CustodyInv, FieldsInit, FieldsStep, PathInit, PathStep, PTL DEF Spec

-----------------------------------------------------------------------------
(* The state moves on from a place of the run only; every other record     *)
(* leaves it, or ends the ceremony.                                        *)
Ended == {"ABORTED", "STRANDED", "HALTED"}
MovesOn == journal'.state \in {journal.state} \cup Ended

LEMMA MovesFromForward ==
  ASSUME Fields, [Next]_vars
  PROVE  \/ MovesOn
         \/ agent.pc \in Forward /\ agent.pc \notin {"pause", "hold", "seal", "sealed"}
         \/ ~journal.pending /\ ~journal.strand
  <1> USE DEF Fields
  <1>1. ASSUME journal' = journal PROVE MovesOn
    BY <1>1 DEF MovesOn
  <1>2. ASSUME NEW s \in Ended, Move(s) PROVE MovesOn
    BY <1>2, MoveFields, States DEF MovesOn, Ended
  <1>3. ASSUME NEW b, journal' = [journal EXCEPT !.pending = b] \/ journal' = [journal EXCEPT !.done = b]
        PROVE  MovesOn
    <2>1. CASE journal' = [journal EXCEPT !.pending = b]
      BY <2>1 DEF MovesOn, JournalRecord
    <2>2. CASE journal' = [journal EXCEPT !.done = b]
      BY <2>2 DEF MovesOn, JournalRecord
    <2> QED BY <1>3, <2>1, <2>2
  <1>4. Pause \/ Seal \/ Hold \/ Sealed \/ Exit \/ Commands \/ World \/ UNCHANGED vars
          => journal' = journal
    BY DEF Pause, Seal, Hold, Sealed, Exit, Commands, StartRun, StartRollback, World, Crash,
           OrphanRuns, OthersPause, OthersUnpause, NodeosRestart, OthersWhitelist, vars
  <1>5. Run => \/ journal' = journal \/ Move("HALTED")
               \/ agent.pc \in Forward /\ agent.pc \notin {"pause", "hold", "seal", "sealed"}
               \/ ~journal.pending /\ ~journal.strand
    <2>1. RunStrand \/ RunRefused \/ RunEnds \/ Frozen \/ KeepPaused \/ Fails => journal' = journal
      BY DEF RunStrand, RunRefused, RunEnds, Frozen, KeepPaused, Fails
    <2>2. RunOn => \/ journal' = journal \/ Move("HALTED")
                   \/ ~journal.pending /\ ~journal.strand
      BY DEF RunOn, Resumable, StrandUnfinished
    <2>3. Armed \/ LockIntent \/ FreezeIntent \/ FrozenAdopt \/ FrozenResume \/ FrozenResumes
          \/ Snapshot \/ FrozenPaused \/ QuiesceTick \/ Quiesced \/ Snapshotted \/ VerifyTick
          \/ Verified \/ VerifiedTick \/ Created \/ NoCreation \/ Ignited \/ Live
            => \/ journal' = journal
               \/ agent.pc \in {"armed", "lock", "freeze", "quiesce", "verify", "create", "igniting", "ignited"}
      BY DEF At, Armed, LockIntent, FreezeIntent, FrozenAdopt, FrozenResume, FrozenResumes,
             Snapshot, FrozenPaused, QuiesceTick, Quiesced, Snapshotted, VerifyTick,
             Verified, VerifiedTick, Created, NoCreation, Ignited, Live
    <2>4. ASSUME NEW seen \in P!Seen,
                 Preflight(seen) \/ FrozenRead(seen) \/ CreateIntent(seen) \/ IgniteIntent(seen)
          PROVE  journal' = journal \/ agent.pc \in {"verified", "ignite"}
      BY <2>4 DEF At, Preflight, FrozenRead, CreateIntent, IgniteIntent, Boundary
    <2>5. ASSUME NEW applied, NEW ok, LockRpc(applied, ok) \/ FreezeHookRuns(applied, ok)
          PROVE  journal' = journal \/ agent.pc \in {"freeze_hook"}
      BY <2>5 DEF At, LockRpc, FreezeHookRuns
    <2>6. {"armed", "lock", "freeze", "freeze_hook", "quiesce", "verify", "verified", "create",
           "ignite", "igniting", "ignited"} \subseteq Forward \ {"pause", "hold", "seal", "sealed"}
      BY DEF Forward, Arming, Freezing, Snapshotting, Verifying
    <2> QED BY <2>1, <2>2, <2>3, <2>4, <2>5, <2>6 DEF Run
  <1>6. Undo => MovesOn
    <2>1. StrandRead \/ RollbackResume \/ RollbackNoResume \/ RollbackNothingToReopen
          \/ NoUnlock \/ NoAbortHook => journal' = journal
      BY DEF StrandRead, RollbackResume, RollbackNoResume, RollbackNothingToReopen,
             NoUnlock, NoAbortHook
    <2>2. Halt \/ Stranded \/ RollbackNoCheck => \E s \in Ended : Move(s)
      BY DEF Halt, Stranded, RollbackNoCheck, Ended
    <2>3. AbortUnguarded => journal' = [journal EXCEPT !.pending = (journal.pending \/ AutoRollback)]
      BY DEF AbortUnguarded
    <2>4. RollbackResumes => journal' = journal \/ journal' = MarkStep("resume")
      BY DEF RollbackResumes
    <2>5. ASSUME NEW seen \in P!Seen, RollbackCheck(seen) \/ RollbackRecheck(seen)
          PROVE  MovesOn
      <3>1. ASSUME journal' = [journal EXCEPT !.strand = TRUE] PROVE MovesOn
        BY <3>1 DEF MovesOn, JournalRecord
      <3> QED BY <1>1, <1>2, <2>5, <3>1 DEF RollbackCheck, RollbackRecheck, Ended
    <2>6. ASSUME NEW applied, NEW ok, Unlock(applied, ok) \/ AbortHookRuns(applied, ok)
          PROVE  \/ journal' = journal \/ journal' = MarkStep("on_abort")
                 \/ journal' = [MarkStep("admission_unlock") EXCEPT !.lock = FALSE]
      BY <2>6 DEF Unlock, AbortHookRuns
    <2>7. /\ MarkStep("on_abort").state = journal.state /\ MarkStep("resume").state = journal.state
          /\ [MarkStep("admission_unlock") EXCEPT !.lock = FALSE].state = journal.state
      BY MarkFields, States DEF JournalRecord
    <2>8. ASSUME NEW b \in BOOLEAN, AbortGuarded(b) \/ Withdrawn(b)
          PROVE  journal' = journal \/ journal' = [journal EXCEPT !.pending = TRUE]
      BY <2>8 DEF AbortGuarded, Withdrawn
    <2>9. ASSUME NEW b \in BOOLEAN, RollbackFinish(b) PROVE MovesOn
      <3> DEFINE d == b /\ ~agent.failed /\ ~ResumeFailed /\ (agent.perform \/ NothingToUndo)
      <3>1. journal' = [journal EXCEPT !.done = d]
        BY <2>9 DEF RollbackFinish
      <3> QED BY <1>3, <3>1
    <2>10. MarkStep("on_abort") = journal' \/ MarkStep("resume") = journal'
           \/ [MarkStep("admission_unlock") EXCEPT !.lock = FALSE] = journal' => MovesOn
      BY <2>7 DEF MovesOn
    <2> QED BY <1>1, <1>2, <1>3, <2>1, <2>2, <2>3, <2>4, <2>5, <2>6, <2>8, <2>9, <2>10
         DEF Undo
  <1>7. Operator => MovesOn
    <2>1. OpOrphanKept \/ OpOrphan \/ OpNotHeld \/ OpUnguarded \/ OpRefused \/ OpRelease \/ OpFence
            => journal' = journal
      BY DEF OpOrphanKept, OpOrphan, OpNotHeld, OpUnguarded, OpRefused, OpRelease, OpFence
    <2>2. ASSUME NEW seen \in P!Seen, OpHeld(seen) PROVE journal' = journal
      BY <2>2 DEF OpHeld
    <2>3. ASSUME NEW clear \in BOOLEAN, OpIntent \/ OpGuarded(clear)
          PROVE  journal' = journal \/ journal' = [journal EXCEPT !.pending = TRUE]
      BY <2>3 DEF OpGuarded, OpIntent
    <2> QED BY <1>1, <1>3, <2>1, <2>2, <2>3 DEF Operator
  <1> QED BY <1>1, <1>2, <1>4, <1>5, <1>6, <1>7 DEF Next, Agent, Ended

(* From a journaled rollback or strand intent the journal moves only to    *)
(* ABORTED, STRANDED or HALTED: no run that recovers it goes on.           *)
THEOREM CeremonyNeverRunsOn == Spec => NeverRunsOn
  <1> DEFINE A == journal.pending \/ journal.strand =>
                    journal'.state \in {journal.state, "ABORTED", "STRANDED", "HALTED"}
  <1>1. Fields /\ PathInv /\ [Next]_vars => [A]_vars
    <2> SUFFICES ASSUME Fields, PathInv, [Next]_vars, journal.pending \/ journal.strand
                 PROVE  MovesOn
      BY DEF MovesOn, Ended
    <2>1. CASE agent.pc \in Forward /\ agent.pc \notin {"pause", "hold", "seal", "sealed"}
      BY <2>1, PlaceAt DEF Fits
    <2> QED BY <2>1, MovesFromForward
  <1> QED BY <1>1, Safe, PTL DEF Spec, NeverRunsOn

(* The steps that do more to the custody than read the producer.           *)
Touching ==
  \/ Pause \/ FrozenAdopt \/ FrozenResume \/ FrozenResumes \/ VerifyTick
  \/ RollbackResume \/ RollbackResumes \/ OpRelease \/ Exit \/ Commands \/ World
Reading == \E seen \in P!Seen : P!Read(seen)

LEMMA CustodyKinds ==
  ASSUME [Next]_vars
  PROVE  UNCHANGED custody \/ Reading \/ Touching
  <1>1. Seal \/ Hold \/ Sealed => UNCHANGED custody \/ Reading
    BY DEF Seal, Hold, Sealed, Reading
  <1>2. Run => UNCHANGED custody \/ Reading \/ Touching
    <2>1. RunStrand \/ RunRefused \/ RunOn \/ RunEnds \/ Armed \/ LockIntent \/ FreezeIntent
          \/ Frozen \/ KeepPaused \/ Snapshot \/ Quiesced \/ Snapshotted \/ Verified
          \/ VerifiedTick \/ Created \/ NoCreation \/ Ignited \/ Live \/ Fails => UNCHANGED custody
      BY DEF RunStrand, RunRefused, RunOn, RunEnds, Armed, LockIntent, FreezeIntent, Frozen,
             KeepPaused, Snapshot, Quiesced, Snapshotted, Verified, VerifiedTick, Created,
             NoCreation, Ignited, Live, Fails
    <2>2. FrozenPaused \/ QuiesceTick => UNCHANGED custody \/ Reading
      BY DEF FrozenPaused, QuiesceTick, Reading
    <2>3. ASSUME NEW seen \in P!Seen,
                 Preflight(seen) \/ FrozenRead(seen) \/ CreateIntent(seen) \/ IgniteIntent(seen)
          PROVE  Reading
      BY <2>3 DEF Preflight, FrozenRead, CreateIntent, IgniteIntent, Boundary, Reading
    <2>4. ASSUME NEW applied, NEW ok, LockRpc(applied, ok) \/ FreezeHookRuns(applied, ok)
          PROVE  UNCHANGED custody
      BY <2>4 DEF LockRpc, FreezeHookRuns
    <2> QED BY <2>1, <2>2, <2>3, <2>4 DEF Run, Touching
  <1>3. Undo => UNCHANGED custody \/ Reading \/ Touching
    <2>1. StrandRead => Reading
      BY DEF StrandRead, Reading
    <2>2. Halt \/ AbortUnguarded \/ Stranded \/ RollbackNoResume \/ RollbackNoCheck
          \/ RollbackNothingToReopen \/ NoUnlock \/ NoAbortHook => UNCHANGED custody
      BY DEF Halt, AbortUnguarded, Stranded, RollbackNoResume, RollbackNoCheck,
             RollbackNothingToReopen, NoUnlock, NoAbortHook
    <2>3. ASSUME NEW seen \in P!Seen, RollbackCheck(seen) \/ RollbackRecheck(seen)
          PROVE  Reading
      BY <2>3 DEF RollbackCheck, RollbackRecheck, Reading
    <2>4. ASSUME NEW applied, NEW ok, Unlock(applied, ok) \/ AbortHookRuns(applied, ok)
          PROVE  UNCHANGED custody
      BY <2>4 DEF Unlock, AbortHookRuns
    <2>5. ASSUME NEW b, AbortGuarded(b) \/ Withdrawn(b) \/ RollbackFinish(b)
          PROVE  UNCHANGED custody
      BY <2>5 DEF AbortGuarded, Withdrawn, RollbackFinish
    <2> QED BY <2>1, <2>2, <2>3, <2>4, <2>5 DEF Undo, Touching
  <1>4. Operator => UNCHANGED custody \/ Reading \/ Touching
    <2>1. OpOrphanKept \/ OpOrphan \/ OpNotHeld \/ OpUnguarded \/ OpRefused \/ OpIntent \/ OpFence
            => UNCHANGED custody
      BY DEF OpOrphanKept, OpOrphan, OpNotHeld, OpUnguarded, OpRefused, OpIntent, OpFence
    <2>2. ASSUME NEW seen \in P!Seen, OpHeld(seen) PROVE Reading
      BY <2>2 DEF OpHeld, Reading
    <2>3. ASSUME NEW clear, OpGuarded(clear) PROVE UNCHANGED custody
      BY <2>3 DEF OpGuarded
    <2> QED BY <2>1, <2>2, <2>3 DEF Operator, Touching
  <1>5. UNCHANGED vars => UNCHANGED custody
    BY DEF vars
  <1> QED BY <1>1, <1>2, <1>3, <1>4, <1>5 DEF Next, Agent, Touching

LEMMA ReadLeaves ==
  Reading => /\ step' = step /\ pause' = pause /\ ext' = ext /\ ever' = ever
             /\ step = "idle"
  BY DEF Reading, P!Read, P!Observe, P!world

LEMMA RestLeaves ==
  ASSUME Exit \/ Commands \/ World
  PROVE  step' \in {step, "idle", "down"} /\ pause' \in {pause, "none", "external"}
  <1>1. Exit \/ Commands => step' \in {"idle", "down"} /\ pause' = pause
    BY DEF Exit, Commands, StartRun, StartRollback, P!Exit, P!Restart, P!world
  <1>2. Crash => step' = "down" /\ pause' = pause
    BY DEF Crash, P!Crash, P!world
  <1>3. OthersPause \/ OthersUnpause => step' = step /\ pause' \in {"none", "external"}
    BY DEF OthersPause, OthersUnpause, P!ExternalPause, P!ExternalUnpause
  <1>4. OrphanRuns \/ OthersWhitelist => UNCHANGED custody
    BY DEF OrphanRuns, OthersWhitelist
  <1>5. NodeosRestart => UNCHANGED custody \/ (step' = step /\ pause' = "none")
    BY DEF NodeosRestart, P!ExternalUnpause
  <1> QED BY <1>1, <1>2, <1>3, <1>4, <1>5 DEF World, custody

(* The two places a resume RPC is prepared at.                             *)
LEMMA ResumesFrom ==
  ASSUME step # "resuming", step' = "resuming", [Next]_vars
  PROVE  FrozenResume \/ RollbackResume
  <1>1. Pause \/ VerifyTick \/ FrozenAdopt => step' # "resuming"
    <2>1. Pause => step' \in {step, "pausing", "acking", "idle"}
      BY DEF Pause, P!AdoptExternalPause, P!PauseUnreadable, P!PauseIntent, P!PauseAgain,
             P!PauseRpc, P!PauseAck
    <2>2. VerifyTick \/ FrozenAdopt => step' \in {step, "pausing"}
      BY DEF VerifyTick, FrozenAdopt, P!SealTick, P!AdoptExternalPause, custody
    <2> QED BY <2>1, <2>2
  <1>2. FrozenResumes \/ RollbackResumes => step' \in {"confirming", "settled", "idle"}
    BY DEF FrozenResumes, RollbackResumes, P!ResumeRpc, P!ResumeConfirm, P!ResumeRecheck,
           P!ResumeClose
  <1>3. OpRelease => step' = step
    BY DEF OpRelease, P!ReleaseExternal
  <1>4. UNCHANGED custody => step' = step
    BY DEF custody
  <1> QED BY <1>1, <1>2, <1>3, <1>4, CustodyKinds, ReadLeaves, RestLeaves DEF Touching

(* The agent's own pause begins in src_pause only.                         *)
LEMMA PausesFrom ==
  ASSUME pause # "agent", pause' = "agent", [Next]_vars
  PROVE  Pause
  <1>1. VerifyTick \/ FrozenAdopt => pause' = pause
    BY DEF VerifyTick, FrozenAdopt, P!SealTick, P!AdoptExternalPause, P!world, custody
  <1>2. FrozenResume \/ RollbackResume => pause' = pause
    BY DEF FrozenResume, RollbackResume, P!ResumeOwn, P!ResumeUnpaused, P!ResumeIntent,
         P!world
  <1>3. FrozenResumes \/ RollbackResumes => pause' \in {pause, "none"}
    BY DEF FrozenResumes, RollbackResumes, P!ResumeRpc, P!ResumeConfirm, P!ResumeRecheck,
           P!ResumeClose, P!world
  <1>4. OpRelease => pause' = pause
    BY DEF OpRelease, P!ReleaseExternal, P!world
  <1>5. UNCHANGED custody => pause' = pause
    BY DEF custody
  <1> QED BY <1>1, <1>2, <1>3, <1>4, <1>5, CustodyKinds, ReadLeaves, RestLeaves DEF Touching

(* Past the point of no return the source is resumed only by a rollback    *)
(* that fenced this box's target first.                                    *)
THEOREM CeremonyResumesBeforeNoReturn == Spec => NoResumePastNoReturn
  <1> DEFINE A == step # "resuming" /\ step' = "resuming" => ~PastNoReturn \/ agent.fenced
  <1>1. Fields /\ PathInv /\ [Next]_vars => [A]_vars
    <2> SUFFICES ASSUME PathInv, [Next]_vars, step # "resuming", step' = "resuming"
                 PROVE  ~PastNoReturn \/ agent.fenced
      OBVIOUS
    <2>1. FrozenResume \/ RollbackResume
      BY ResumesFrom
    <2>2. agent.pc \in {"fr_own", "fr_adopt", "rb"}
      BY <2>1 DEF FrozenResume, RollbackResume, At
    <2>3. Fits(agent.pc, journal, agent.fenced)
      BY <2>2, PlaceAt
    <2> QED BY <2>2, <2>3 DEF Fits, Freezing, PastNoReturn, Beyond
  <1> QED BY <1>1, Safe, PTL DEF Spec, NoResumePastNoReturn

-----------------------------------------------------------------------------
(* The steps before a rollback decides, and what all of them leave alone.  *)
Deciding ==
  \/ Halt \/ AbortUnguarded \/ StrandRead \/ Stranded
  \/ \E clear \in BOOLEAN : AbortGuarded(clear) \/ Withdrawn(clear)
  \/ RollbackResume \/ RollbackNoResume
Busy == Pause \/ Seal \/ Hold \/ Sealed \/ Run \/ Operator \/ Deciding

Steady ==
  /\ agent'.keep = agent.keep /\ agent'.perform = agent.perform
  /\ agent'.rres = agent.rres
  /\ agent.pc \notin Undoing \cup {"exit", "off"}
  /\ agent'.pc \notin Undoing \cup {"off"}
  /\ agent'.pc = "lock_rpc" => agent.pc = "lock"

LEMMA SteadyGo ==
  ASSUME agent \in AgentRecord, agent.pc \notin Undoing \cup {"exit", "off"},
         NEW l \in Labels \ (Undoing \cup {"off", "lock_rpc"}), Go(l)
  PROVE  Steady
  BY AgentFields DEF Steady

LEMMA SteadySeal ==
  ASSUME agent \in AgentRecord, agent.pc \notin Undoing \cup {"exit", "off"},
         NEW l \in Rets, HoldThen(l) \/ SealThen(l)
  PROVE  Steady
  BY HoldFields DEF Steady, Undoing

LEMMA SteadyCall ==
  ASSUME agent \in AgentRecord, agent.pc \notin Undoing \cup {"exit", "off"},
         NEW b \in Backs, agent' = [agent EXCEPT !.pc = "pause", !.back = b]
  PROVE  Steady
  BY CallFields DEF Steady, Undoing

LEMMA SteadyBusy ==
  ASSUME Fields, PathInv, Busy
  PROVE  Steady
  <1> USE DEF At, Fields
  <1> DEFINE Going == Labels \ (Undoing \cup {"off", "lock_rpc"})
             Leaving == agent.pc \notin Undoing \cup {"exit", "off"}
  <1>1. Sealers \subseteq Rets /\ Sealers \subseteq Going
    BY DEF Sealers, Rets, Labels, Undoing
  <1>2. {"sealed", "fr_paused", "verify"} \subseteq Going \cap Backs
        /\ {"pause", "exit", "strand", "abort", "rb", "rb_resume", "rb_check",
            "withdraw", "op_go", "preflight"} \subseteq Going
    BY DEF Labels, Undoing, Backs
  <1>3. ASSUME Leaving, NEW l \in Going, Go(l) PROVE Steady
    BY <1>3, SteadyGo
  <1>4. Pause => Steady
    <2>1. Pause => agent.pc = "pause" /\ (Go(agent.back) \/ Go("pause"))
      BY DEF Pause
    <2>2. agent.pc = "pause" => Leaving /\ agent.back \in Going
      BY <1>2 DEF Undoing, PathInv, Waiting
    <2> QED BY <1>2, <1>3, <2>1, <2>2
  <1>5. Seal \/ Hold \/ Sealed => Steady
    <2>1. Seal \/ Hold \/ Sealed =>
            /\ agent.pc \in {"seal", "hold", "sealed"}
            /\ Go(agent.ret) \/ agent' = [agent EXCEPT !.pc = "pause", !.back = "sealed"]
      BY DEF Seal, Hold, Sealed
    <2>2. agent.pc \in {"seal", "hold", "sealed"} => Leaving /\ agent.ret \in Going
      BY <1>1 DEF Undoing, PathInv, Waiting, Sealers
    <2> QED BY <1>2, <1>3, <2>1, <2>2, SteadyCall
  <1>6. Run => Steady
    <2>1. ASSUME agent.pc \in Forward \cup {"run"} PROVE Leaving
      BY <2>1 DEF Forward, Arming, Freezing, Snapshotting, Verifying, Undoing
    <2>2. (Arming \ {"lock_rpc"}) \cup Freezing \cup Snapshotting \cup Verifying \cup {"ignited"}
            \subseteq Going
      BY DEF Arming, Freezing, Snapshotting, Verifying, Labels, Undoing
    <2>3. RunStrand \/ RunRefused => Steady
      BY <1>2, <1>3, <2>1 DEF RunStrand, RunRefused
    <2>4. RunOn => Steady
      <3>1. RunOn => agent.pc = "run" /\ (SealThen("exit") \/ Go("exit") \/ Go("preflight"))
        BY DEF RunOn
      <3> QED BY <1>1, <1>2, <1>3, <2>1, <3>1, SteadySeal DEF Sealers
    <2>5. RunEnds \/ Fails => Steady
      <3>1. RunEnds \/ Fails => agent.pc \in Forward /\ (Go("exit") \/ Go("abort"))
        BY DEF RunEnds, Fails, Forward, Arming, Freezing, Snapshotting, Verifying
      <3> QED BY <1>2, <1>3, <2>1, <3>1
    <2>6. ASSUME NEW seen \in P!Seen, Preflight(seen) PROVE Steady
      <3>1. agent.pc = "preflight" /\ (Go("abort") \/ Go(StatePc(journal.state)))
        BY <2>6 DEF Preflight
      <3>2. StatePc(journal.state) \in Going
        BY DEF StatePc, Labels, Undoing
      <3> QED BY <1>2, <1>3, <2>1, <3>1, <3>2 DEF Forward
    <2>7. LockIntent => Steady
      <3>1. ASSUME agent.pc = "lock", Go("lock_rpc") PROVE Steady
        BY <3>1, AgentFields DEF Steady, Labels, Undoing
      <3> QED BY <1>2, <1>3, <2>1, <3>1 DEF LockIntent, Forward, Arming
    <2>8. Armed \/ FreezeIntent \/ FrozenAdopt \/ KeepPaused \/ FrozenResume \/ FrozenResumes
          \/ FrozenPaused \/ Quiesced \/ Verified \/ Created \/ NoCreation \/ Ignited \/ Live
            => Steady
      <3>1. Armed \/ FreezeIntent => agent.pc \in Arming
              /\ (Go("lock") \/ Go("freeze") \/ Go("freeze_hook") \/ Go("frozen"))
        BY DEF Armed, FreezeIntent, Arming
      <3>2. FrozenAdopt \/ KeepPaused \/ FrozenResume \/ FrozenResumes \/ FrozenPaused \/ Quiesced
              => agent.pc \in Freezing
                 /\ (Go("snapshot") \/ Go("fr_resume") \/ Go("exit") \/ Go("abort")
                     \/ Go("quiesce") \/ Go("snapshotted"))
        BY DEF FrozenAdopt, KeepPaused, FrozenResume, FrozenResumes, FrozenPaused, Quiesced,
             Freezing
      <3>3. Verified \/ Created \/ NoCreation \/ Ignited \/ Live
              => agent.pc \in Forward
                 /\ (Go("verified") \/ Go("ignite") \/ Go("abort") \/ Go("ignited") \/ Go("exit"))
        BY DEF Verified, Created, NoCreation, Ignited, Live, Forward, Verifying,
             Snapshotting
      <3>4. {"lock", "freeze", "freeze_hook", "frozen", "snapshot", "fr_resume", "quiesce",
             "snapshotted", "verified", "ignite", "ignited"} \subseteq Going
        BY DEF Labels, Undoing
      <3> QED BY <1>2, <1>3, <2>1, <3>1, <3>2, <3>3, <3>4 DEF Forward
    <2>9. ASSUME NEW applied, NEW ok, LockRpc(applied, ok) \/ FreezeHookRuns(applied, ok)
          PROVE  Steady
      <3>1. agent.pc \in Arming /\ (Go("freeze") \/ Go("abort") \/ Go("frozen"))
        BY <2>9 DEF LockRpc, FreezeHookRuns, Arming
      <3>2. "freeze" \in Going /\ "frozen" \in Going
        BY DEF Labels, Undoing
      <3> QED BY <1>2, <1>3, <2>1, <3>1, <3>2 DEF Forward
    <2>10. Frozen \/ QuiesceTick \/ VerifiedTick => Steady
      <3>1. CASE QuiesceTick /\ agent' = agent
        <4>1. agent.pc = "quiesce"
          BY <3>1 DEF QuiesceTick
        <4> QED BY <3>1, <4>1 DEF Steady, Undoing
      <3>2. "fr_read" \in Sealers /\ "quiesce" \in Sealers /\ "verified" \in Sealers
        BY DEF Sealers
      <3>3. Frozen \/ VerifiedTick =>
              agent.pc \in Forward /\ (HoldThen("fr_read") \/ Go("fr_read") \/ HoldThen("verified"))
        BY DEF Frozen, VerifiedTick, Forward, Freezing, Verifying
      <3>4. QuiesceTick => agent.pc \in Forward /\ (HoldThen("quiesce") \/ agent' = agent)
        BY DEF QuiesceTick, Forward, Freezing
      <3> QED BY <1>1, <1>3, <2>1, <3>1, <3>2, <3>3, <3>4, SteadySeal
    <2>11. Snapshot \/ VerifyTick => Steady
      <3>1. ASSUME Snapshot PROVE Steady
        <4>1. agent.pc = "snapshot" /\ agent' = [agent EXCEPT !.pc = "pause", !.back = "fr_paused"]
          BY <3>1 DEF Snapshot
        <4> QED BY <1>2, <4>1, SteadyCall DEF Undoing
      <3>2. CASE VerifyTick /\ agent' = [agent EXCEPT !.pc = "pause", !.back = "verify"]
        BY <1>2, <3>2, SteadyCall DEF VerifyTick, Undoing
      <3>3. CASE VerifyTick /\ agent' = agent
        BY <3>3 DEF VerifyTick, Steady, Undoing
      <3> QED BY <3>1, <3>2, <3>3 DEF VerifyTick
    <2>12. Snapshotted => Steady
      <3>1. ASSUME agent.pc = "snapshotted",
                   agent' = [agent EXCEPT !.pc = "verify", !.sealing = Ours(open)]
            PROVE  Steady
        BY <3>1 DEF Steady, AgentRecord, Undoing
      <3> QED BY <3>1 DEF Snapshotted
    <2>13. ASSUME NEW seen \in P!Seen,
                  FrozenRead(seen) \/ CreateIntent(seen) \/ IgniteIntent(seen)
           PROVE  Steady
      <3>1. agent.pc \in Forward
            /\ (Go("snapshot") \/ Go("fr_own") \/ Go("fr_adopt") \/ Go("create") \/ Go("igniting")
                \/ Go("abort"))
        BY <2>13 DEF FrozenRead, CreateIntent, IgniteIntent, Boundary, Forward, Freezing,
             Verifying
      <3>2. {"snapshot", "fr_own", "fr_adopt", "create", "igniting"} \subseteq Going
        BY DEF Labels, Undoing
      <3> QED BY <1>2, <1>3, <2>1, <3>1, <3>2
    <2> QED BY <2>3, <2>4, <2>5, <2>6, <2>7, <2>8, <2>9, <2>10, <2>11, <2>12, <2>13 DEF Run
  <1>7. Deciding => Steady
    <2>1. Halt \/ AbortUnguarded \/ Stranded \/ RollbackResume \/ RollbackNoResume =>
            agent.pc \in {"abort", "stranded", "rb"}
            /\ (Go("exit") \/ Go("rb") \/ Go("rb_resume") \/ Go("rb_check"))
      BY DEF Halt, AbortUnguarded, Stranded, RollbackResume, RollbackNoResume
    <2>2. ASSUME NEW b, AbortGuarded(b) \/ Withdrawn(b)
          PROVE  agent.pc \in {"abort", "withdraw"}
                 /\ (Go("withdraw") \/ Go("strand") \/ Go("op_go") \/ Go("rb"))
      BY <2>2 DEF AbortGuarded, Withdrawn
    <2>3. StrandRead => agent.pc = "strand" /\ SealThen("stranded")
      BY DEF StrandRead
    <2>4. agent.pc \in {"abort", "stranded", "rb", "withdraw", "strand"} => Leaving
      BY DEF Undoing
    <2> QED BY <1>1, <1>2, <1>3, <2>1, <2>2, <2>3, <2>4, SteadySeal DEF Deciding, Sealers
  <1>8. Operator => Steady
    <2>1. {"op_held", "op_guard", "op_go", "op_release", "op_fence", "rb", "exit", "strand"}
            \subseteq Going
      BY DEF Labels, Undoing
    <2>2. agent.pc \in {"op", "op_held", "op_guard", "op_go", "op_release", "op_fence"} => Leaving
      BY DEF Undoing
    <2>3. OpOrphanKept \/ OpOrphan \/ OpNotHeld \/ OpUnguarded \/ OpRefused \/ OpIntent \/ OpRelease
            => /\ agent.pc \in {"op", "op_held", "op_guard", "op_go", "op_release", "op_fence"}
               /\ \/ Go("exit") \/ Go("op_held") \/ Go("op_guard") \/ Go("op_go")
                  \/ Go("op_release") \/ Go("op_fence") \/ Go("rb")
      BY DEF OpOrphanKept, OpOrphan, OpNotHeld, OpUnguarded, OpRefused, OpIntent, OpRelease
    <2>4. OpFence => Steady
      <3>1. ASSUME agent.pc = "op_fence", agent' = [agent EXCEPT !.pc = "rb", !.fenced = TRUE]
            PROVE  Steady
        BY <3>1 DEF Steady, AgentRecord, Undoing
      <3> QED BY <1>3, <2>1, <2>2, <3>1 DEF OpFence
    <2>5. ASSUME NEW seen \in P!Seen, OpHeld(seen) PROVE Steady
      <3>1. ASSUME agent.pc = "op_held", NEW l \in {"op_guard", "exit"}, NEW b,
                   agent' = [agent EXCEPT !.pc = l, !.back = b]
            PROVE  Steady
        BY <3>1 DEF Steady, AgentRecord, Undoing
      <3>2. /\ agent.pc = "op_held"
            /\ \/ Go("op_guard")
               \/ agent' = [agent EXCEPT !.pc = "op_guard", !.back = "release"]
               \/ agent' = [agent EXCEPT !.pc = "exit", !.back = "off"]
        BY <2>5 DEF OpHeld
      <3> QED BY <1>3, <2>1, <2>2, <3>1, <3>2
    <2>6. ASSUME NEW clear, OpGuarded(clear) PROVE Steady
      <3>1. ASSUME agent.pc = "op_guard", agent' = [agent EXCEPT !.pc = "withdraw", !.ret = "op_go"]
            PROVE  Steady
        BY <3>1 DEF Steady, AgentRecord, Undoing
      <3>2. /\ agent.pc = "op_guard"
            /\ \/ Go("op_go") \/ Go("exit") \/ Go("strand") \/ SealThen("exit")
               \/ agent' = [agent EXCEPT !.pc = "withdraw", !.ret = "op_go"]
        BY <2>6 DEF OpGuarded
      <3> QED BY <1>1, <1>3, <2>1, <2>2, <3>1, <3>2, SteadySeal DEF Sealers
    <2> QED BY <1>3, <2>1, <2>2, <2>3, <2>4, <2>5, <2>6 DEF Operator
  <1> QED BY <1>4, <1>5, <1>6, <1>7, <1>8 DEF Busy


(* The records a busy step may write.                                      *)
LEMMA BusyRecords ==
  ASSUME Fields, Busy
  PROVE  \/ journal' = journal
         \/ \E s \in JournalStates \ {"ABORTED"} : Move(s)
         \/ agent.pc = "lock" /\ journal' = [journal EXCEPT !.lock = TRUE]
         \/ agent.pc = "freeze" /\ journal' = [journal EXCEPT !.writes = TRUE]
         \/ \E t \in {"creating", "created", "ignited"} :
              agent.pc \in Verifying /\ journal' = [journal EXCEPT !.target = t]
         \/ \E b \in BOOLEAN : journal' = [journal EXCEPT !.pending = b]
  <1> DEFINE Moving == \E s \in JournalStates \ {"ABORTED"} : Move(s)
             Targeting == \E t \in {"creating", "created", "ignited"} :
                            agent.pc \in Verifying /\ journal' = [journal EXCEPT !.target = t]
             Pending == \E b \in BOOLEAN : journal' = [journal EXCEPT !.pending = b]
  <1> USE DEF At
  <1>1. ASSUME NEW s \in {"ARMED", "FROZEN", "SNAPSHOTTED", "VERIFIED", "IGNITED", "LIVE",
                         "STRANDED", "HALTED"}, Move(s) PROVE Moving
    BY <1>1, States
  <1>2. Pause \/ Seal \/ Hold \/ Sealed => journal' = journal
    BY DEF Pause, Seal, Hold, Sealed
  <1>3. RunStrand \/ RunRefused \/ RunEnds \/ Armed \/ Fails \/ KeepPaused \/ Frozen
        \/ FrozenAdopt \/ FrozenResume \/ FrozenResumes \/ FrozenPaused \/ Snapshot
        \/ QuiesceTick \/ Snapshotted \/ VerifyTick \/ VerifiedTick \/ NoCreation
          => journal' = journal
    BY DEF RunStrand, RunRefused, RunEnds, Armed, Fails, KeepPaused, Frozen,
           FrozenAdopt, FrozenResume, FrozenResumes, FrozenPaused, Snapshot,
           QuiesceTick, Snapshotted, VerifyTick, VerifiedTick, NoCreation
  <1>4. RunOn => Move("ARMED") \/ Move("HALTED") \/ journal' = journal
    BY DEF RunOn
  <1>5. LockIntent => \/ journal' = journal
                      \/ agent.pc = "lock" /\ journal' = [journal EXCEPT !.lock = TRUE]
    BY DEF LockIntent
  <1>6. FreezeIntent => \/ Move("FROZEN")
                        \/ agent.pc = "freeze" /\ journal' = [journal EXCEPT !.writes = TRUE]
    BY DEF FreezeIntent
  <1>7. ASSUME NEW applied, NEW ok, LockRpc(applied, ok) \/ FreezeHookRuns(applied, ok)
        PROVE  Move("FROZEN") \/ journal' = journal
    BY <1>7 DEF LockRpc, FreezeHookRuns
  <1>8. Quiesced \/ Verified \/ Ignited \/ Live =>
          \/ Move("SNAPSHOTTED") \/ Move("VERIFIED") \/ Move("IGNITED") \/ Move("LIVE")
          \/ journal' = journal
    BY DEF Quiesced, Verified, Ignited, Live
  <1>9. Created => journal' = journal \/ Targeting
    BY DEF Created, Verifying
  <1>10. ASSUME NEW seen \in P!Seen,
                Preflight(seen) \/ FrozenRead(seen) \/ CreateIntent(seen) \/ IgniteIntent(seen)
         PROVE  journal' = journal \/ Targeting
    BY <1>10 DEF Preflight, FrozenRead, CreateIntent, IgniteIntent, Boundary, Verifying
  <1>11. Run => journal' = journal \/ Moving \/ Targeting
                \/ (agent.pc = "lock" /\ journal' = [journal EXCEPT !.lock = TRUE])
                \/ (agent.pc = "freeze" /\ journal' = [journal EXCEPT !.writes = TRUE])
    <2> HIDE DEF Moving, Targeting
    <2> QED BY <1>1, <1>3, <1>4, <1>5, <1>6, <1>7, <1>8, <1>9, <1>10 DEF Run
  <1>12. Deciding => journal' = journal \/ Moving \/ Pending
    <2>1. StrandRead \/ RollbackResume \/ RollbackNoResume => journal' = journal
      BY DEF StrandRead, RollbackResume, RollbackNoResume
    <2>2. Halt \/ Stranded => Move("HALTED") \/ Move("STRANDED")
      BY DEF Halt, Stranded
    <2>3. AbortUnguarded => Pending
      <3>1. AbortUnguarded =>
              journal' = [journal EXCEPT !.pending = (journal.pending \/ AutoRollback)]
        BY DEF AbortUnguarded
      <3>2. (journal.pending \/ AutoRollback) \in BOOLEAN
        OBVIOUS
      <3> QED BY <3>1, <3>2
    <2>4. ASSUME NEW b \in BOOLEAN, AbortGuarded(b) \/ Withdrawn(b)
          PROVE  journal' = journal \/ Pending
      BY <2>4 DEF AbortGuarded, Withdrawn
    <2> HIDE DEF Moving, Pending
    <2> QED BY <1>1, <2>1, <2>2, <2>3, <2>4 DEF Deciding
  <1>13. Operator => journal' = journal \/ Pending
    <2>1. OpOrphanKept \/ OpOrphan \/ OpNotHeld \/ OpUnguarded \/ OpRefused \/ OpRelease \/ OpFence
            => journal' = journal
      BY DEF OpOrphanKept, OpOrphan, OpNotHeld, OpUnguarded, OpRefused, OpRelease, OpFence
    <2>2. ASSUME NEW seen \in P!Seen, OpHeld(seen) PROVE journal' = journal
      BY <2>2 DEF OpHeld
    <2>3. ASSUME NEW clear \in BOOLEAN, OpIntent \/ OpGuarded(clear)
          PROVE  journal' = journal \/ Pending
      BY <2>3 DEF OpGuarded, OpIntent
    <2> HIDE DEF Pending
    <2> QED BY <2>1, <2>2, <2>3 DEF Operator
  <1> QED BY <1>2, <1>11, <1>12, <1>13 DEF Busy

(* None of them finishes a rollback, gives the lock up or marks a step.    *)
LEMMA BusyJournal ==
  ASSUME Fields, Busy
  PROVE  /\ RolledBack' => RolledBack
         /\ journal.lock => journal'.lock
         /\ agent.pc # "freeze" => journal'.writes = journal.writes
         /\ agent.pc = "lock" \/ journal'.lock = journal.lock
         /\ "on_abort" \in journal'.steps =>
              "on_abort" \in journal.steps /\ journal'.state = journal.state
  <1> DEFINE Kept == /\ RolledBack' => RolledBack
                     /\ journal.lock => journal'.lock
                     /\ agent.pc # "freeze" => journal'.writes = journal.writes
                     /\ agent.pc = "lock" \/ journal'.lock = journal.lock
                     /\ "on_abort" \in journal'.steps =>
                          "on_abort" \in journal.steps /\ journal'.state = journal.state
  <1> USE DEF Fields, RolledBack
  <1>1. ASSUME journal' = journal PROVE Kept
    BY <1>1
  <1>2. ASSUME NEW s \in JournalStates \ {"ABORTED"}, Move(s) PROVE Kept
    BY <1>2, MoveFields
  <1>3. ASSUME agent.pc = "lock", journal' = [journal EXCEPT !.lock = TRUE] PROVE Kept
    BY <1>3 DEF JournalRecord
  <1>4. ASSUME agent.pc = "freeze", journal' = [journal EXCEPT !.writes = TRUE] PROVE Kept
    BY <1>4 DEF JournalRecord
  <1>5. ASSUME NEW t, journal' = [journal EXCEPT !.target = t] PROVE Kept
    BY <1>5 DEF JournalRecord
  <1>6. ASSUME NEW b, journal' = [journal EXCEPT !.pending = b] PROVE Kept
    BY <1>6 DEF JournalRecord
  <1> HIDE DEF Kept
  <1>7. Kept
    BY <1>1, <1>2, <1>3, <1>4, <1>5, <1>6, BusyRecords
  <1> QED BY <1>7 DEF Kept

(* What the hooks and the whitelist may become.                            *)
LEMMA BusySite ==
  ASSUME Fields, Busy
  PROVE  /\ site'.edge = site.edge \/ (agent.pc = "freeze_hook" /\ site'.edge = "frozen")
         /\ site'.whitelist = site.whitelist \/ journal.lock \/ agent.pc = "lock_rpc"
         /\ site'.orphan \in {site.orphan, "none"}
  <1> DEFINE Left == /\ site'.edge = site.edge \/ (agent.pc = "freeze_hook" /\ site'.edge = "frozen")
                     /\ site'.whitelist = site.whitelist \/ journal.lock \/ agent.pc = "lock_rpc"
                     /\ site'.orphan \in {site.orphan, "none"}
  <1> USE DEF Fields, At
  <1>1. site' = site => Left
    OBVIOUS
  <1>2. ASSUME journal.lock \/ agent.pc = "lock_rpc", site' = [site EXCEPT !.whitelist = "sentinel"]
        PROVE  Left
    BY <1>2 DEF SiteRecord
  <1>3. ASSUME site' = [site EXCEPT !.orphan = "none"] PROVE Left
    BY <1>3 DEF SiteRecord
  <1>4. ASSUME agent.pc = "freeze_hook", site' = [site EXCEPT !.edge = "frozen"] PROVE Left
    BY <1>4 DEF SiteRecord
  <1> HIDE DEF Left
  <1>5. Pause \/ Seal \/ Hold \/ Sealed => site' = site \/ Relock
    BY DEF Pause, Seal, Hold, Sealed
  <1>6. Relock => Left
    BY <1>1, <1>2, RelockSite
  <1>7. Run => Left
    <2>1. RunStrand \/ RunRefused \/ RunEnds \/ Armed \/ Fails \/ KeepPaused
          \/ FrozenAdopt \/ FrozenResume \/ FrozenResumes
          \/ Snapshotted \/ VerifiedTick \/ NoCreation \/ Created \/ QuiesceTick
          \/ LockIntent \/ FreezeIntent \/ Verified \/ Ignited \/ Live => site' = site
      BY DEF RunStrand, RunRefused, RunEnds, Armed, Fails, KeepPaused,
             FrozenAdopt, FrozenResume, FrozenResumes,
             Snapshotted, VerifiedTick, NoCreation, Created, QuiesceTick,
             LockIntent, FreezeIntent, Verified, Ignited, Live
    <2>2. Frozen \/ FrozenPaused \/ Snapshot \/ VerifyTick \/ Quiesced => site' = site \/ Relock
      BY DEF Frozen, FrozenPaused, Snapshot, VerifyTick, Quiesced
    <2>3. RunOn => site' = [site EXCEPT !.orphan = "none"]
      BY DEF RunOn
    <2>4. ASSUME NEW applied, NEW ok, LockRpc(applied, ok) \/ FreezeHookRuns(applied, ok)
          PROVE  \/ site' = site
                 \/ agent.pc = "lock_rpc" /\ site' = [site EXCEPT !.whitelist = "sentinel"]
                 \/ agent.pc = "freeze_hook" /\ site' = [site EXCEPT !.edge = "frozen"]
      BY <2>4 DEF LockRpc, FreezeHookRuns
    <2>5. ASSUME NEW seen \in P!Seen,
                 Preflight(seen) \/ FrozenRead(seen) \/ CreateIntent(seen) \/ IgniteIntent(seen)
          PROVE  site' = site
      BY <2>5 DEF Preflight, FrozenRead, CreateIntent, IgniteIntent, Boundary
    <2> QED BY <1>1, <1>2, <1>3, <1>4, <1>6, <2>1, <2>2, <2>3, <2>4, <2>5 DEF Run
  <1>8. Deciding => site' = site
    BY DEF Deciding, Halt, AbortUnguarded, StrandRead, Stranded, AbortGuarded, Withdrawn,
           RollbackResume, RollbackNoResume
  <1>9. Operator => site' = site \/ site' = [site EXCEPT !.orphan = "none"]
    BY DEF Operator, OpOrphanKept, OpOrphan, OpNotHeld, OpUnguarded, OpRefused, OpIntent,
           OpRelease, OpFence, OpHeld, OpGuarded
  <1>10. Left
    BY <1>1, <1>3, <1>5, <1>6, <1>7, <1>8, <1>9 DEF Busy
  <1> QED BY <1>10 DEF Left

-----------------------------------------------------------------------------
(* What a rollback has yet to do is not called done, and nothing reopens   *)
(* before a read saw the producer producing.                               *)
RestPlaces == {"off", "exit", "run", "op", "op_held", "op_guard", "op_go"}
Resting == {"off", "exit", "run", "op"}

Ends ==
  RolledBack => agent.pc \in RestPlaces /\ ~journal.lock /\ ~ReopenPending
Keeps ==
  /\ agent.pc \in Undoing /\ agent.perform /\ agent.keep => ResumeFailed
  /\ agent.pc \notin Undoing \cup {"exit"} => ~agent.keep
Reopens ==
  /\ agent.pc \in {"rb_unlock", "rb_hook"} =>
       /\ pause # "agent" /\ agent.readAt <= ext
       /\ pause = "external" => agent.readAt < ext
  /\ agent.pc \in {"rb_hook", "rb_finish"} /\ ~agent.failed /\ SourceBack
       => ~journal.lock
  /\ agent.pc = "rb_finish" /\ ~agent.failed /\ SourceBack => ~ReopenPending
EndInv == Ends /\ Keeps /\ Reopens

Locks ==
  /\ site.whitelist = "sentinel" => journal.lock
  /\ agent.pc = "lock_rpc" => journal.lock
Orphans ==
  /\ site.orphan = "freeze" =>
       journal.state = "ARMED" /\ ~journal.strand /\ agent.pc \in Resting
  /\ site.orphan = "abort" =>
       journal.state = "ABORTED" /\ pause # "agent" /\ agent.pc \in Resting
Hooked ==
  "on_abort" \in journal.steps => journal.state = "ABORTED" /\ site.edge = "open"
SiteInv == Locks /\ Orphans /\ Hooked

(* The busy steps of a journal that has ended, or that an orphaned hook    *)
(* outlives, are those of a new command that finds it so.                  *)
LEMMA BusyFrom ==
  ASSUME Busy, agent.pc \in RestPlaces
  PROVE  RunStrand \/ RunRefused \/ RunOn \/ Operator
  <1> USE DEF At, RestPlaces
  <1>1. Pause \/ Seal \/ Hold \/ Sealed => FALSE
    BY DEF Pause, Seal, Hold, Sealed
  <1>2. Deciding => FALSE
    BY DEF Deciding, Halt, AbortUnguarded, StrandRead, Stranded, AbortGuarded, Withdrawn,
           RollbackResume, RollbackNoResume
  <1>3. Run => RunStrand \/ RunRefused \/ RunOn
    BY DEF Run, RunEnds, Preflight, Armed, LockIntent, FreezeIntent, LockRpc,
         FreezeHookRuns,
           Frozen, FrozenAdopt, KeepPaused, FrozenResume, FrozenResumes, Snapshot,
                FrozenPaused,
           QuiesceTick, Quiesced, Snapshotted, VerifyTick, Verified, VerifiedTick, Created,
           NoCreation, Ignited, Live, FrozenRead, CreateIntent, IgniteIntent, Boundary,
                Fails
  <1> QED BY <1>1, <1>2, <1>3 DEF Busy

LEMMA BusyEnded ==
  ASSUME Fields, Busy, RolledBack, agent.pc \in RestPlaces
  PROVE  journal' = journal /\ agent'.pc \in RestPlaces
  <1> USE DEF At, Fields, RolledBack
  <1>1. {"exit", "op_held", "op_guard", "op_go"} \subseteq RestPlaces \cap Labels
    BY DEF RestPlaces, Labels
  <1>2. ASSUME NEW l \in {"exit", "op_held", "op_guard", "op_go"}, Go(l)
        PROVE  agent'.pc \in RestPlaces
    BY <1>1, <1>2, AgentFields
  <1>3. RunStrand => FALSE
    BY DEF RunStrand, StrandUnfinished
  <1>4. RunRefused \/ RunOn => journal' = journal /\ Go("exit")
    BY DEF RunRefused, RunOn
  <1>5. Operator => journal' = journal /\ agent'.pc \in RestPlaces
    <2>1. OpIntent \/ OpRelease \/ OpFence => FALSE
      BY DEF OpIntent, OpRelease, OpFence, RestPlaces
    <2>2. OpOrphanKept \/ OpOrphan \/ OpNotHeld \/ OpUnguarded \/ OpRefused
            => journal' = journal /\ (Go("exit") \/ Go("op_held") \/ Go("op_guard") \/ Go("op_go"))
      BY DEF OpOrphanKept, OpOrphan, OpNotHeld, OpUnguarded, OpRefused
    <2>3. ASSUME NEW seen, OpHeld(seen) PROVE FALSE
      BY <2>3 DEF OpHeld, HeldCandidate
    <2>4. ASSUME NEW clear, OpGuarded(clear) PROVE FALSE
      BY <2>4 DEF OpGuarded, OpNeedsGuard
    <2> QED BY <1>2, <2>1, <2>2, <2>3, <2>4 DEF Operator
  <1> QED BY <1>2, <1>3, <1>4, <1>5, BusyFrom

LEMMA BusyOrphaned ==
  ASSUME Fields, Busy, site.orphan # "none", Orphans, site'.orphan # "none"
  PROVE  journal' = journal /\ agent'.pc \in Resting
  <1> USE DEF At, Fields
  <1>1. agent.pc \in Resting /\ agent.pc \in RestPlaces
        /\ (journal.strand => journal.state = "ABORTED")
    BY DEF Orphans, SiteRecord, Resting, RestPlaces
  <1>2. RunStrand => FALSE
    BY <1>1 DEF RunStrand, StrandUnfinished
  <1>3. RunOn \/ OpOrphan => FALSE
    BY DEF RunOn, OpOrphan, SiteRecord
  <1>4. RunRefused \/ OpOrphanKept => journal' = journal /\ Go("exit")
    BY DEF RunRefused, OpOrphanKept
  <1>5. Operator => OpOrphan \/ OpOrphanKept
    BY <1>1 DEF Operator, OpNotHeld, OpUnguarded, OpRefused, OpIntent, OpRelease, OpFence,
                OpHeld, OpGuarded, Resting
  <1> QED BY <1>1, <1>2, <1>3, <1>4, <1>5, BusyFrom, AgentFields DEF Resting, Labels

LEMMA EndBusy ==
  ASSUME Fields, PathInv, EndInv, Busy
  PROVE  EndInv'
  <1>1. Steady
    BY SteadyBusy
  <1>2. Ends'
    <2> SUFFICES ASSUME RolledBack' PROVE agent'.pc \in RestPlaces /\ ~journal'.lock /\ ~ReopenPending'
      BY DEF Ends
    <2>1. RolledBack /\ agent.pc \in RestPlaces
      BY BusyJournal DEF EndInv, Ends
    <2>2. journal' = journal /\ agent'.pc \in RestPlaces
      BY <2>1, BusyEnded
    <2> QED BY <2>1, <2>2 DEF EndInv, Ends, ReopenPending
  <1>3. Keeps'
    BY <1>1 DEF Steady, Keeps, EndInv
  <1>4. Reopens'
    BY <1>1 DEF Steady, Reopens, Undoing
  <1> QED BY <1>2, <1>3, <1>4 DEF EndInv

LEMMA SiteBusy ==
  ASSUME Fields, PathInv, SiteInv, Busy, [Next]_vars
  PROVE  SiteInv'
  <1> USE DEF SiteInv
  <1>1. Steady
    BY SteadyBusy
  <1>2. Locks'
    <2>1. site'.whitelist = "sentinel" => journal.lock
      BY BusySite DEF Locks
    <2>2. ASSUME agent'.pc = "lock_rpc" PROVE journal'.lock
      <3>1. agent.pc = "lock"
        BY <1>1, <2>2 DEF Steady
      <3>2. LockIntent
        BY <3>1 DEF Busy, Pause, Seal, Hold, Sealed, Run, Operator, Deciding, At,
             RunStrand, RunRefused, RunOn, RunEnds, Preflight, Armed, FreezeIntent, LockRpc,
             FreezeHookRuns, Frozen, FrozenAdopt, KeepPaused, FrozenResume, FrozenResumes,
             Snapshot, FrozenPaused, QuiesceTick, Quiesced, Snapshotted, VerifyTick,
                  Verified,
             VerifiedTick, Created, NoCreation, Ignited, Live, FrozenRead, CreateIntent,
             IgniteIntent, Boundary, Fails, Halt, AbortUnguarded, StrandRead, Stranded,
             AbortGuarded, Withdrawn, RollbackResume, RollbackNoResume, OpOrphanKept,
                  OpOrphan,
             OpNotHeld, OpUnguarded, OpRefused, OpIntent, OpRelease, OpFence, OpHeld,
                  OpGuarded
      <3>3. ~Go("abort")
        BY <2>2, AgentFields DEF Fields, Labels
      <3>4. journal' = [journal EXCEPT !.lock = TRUE]
        BY <3>2, <3>3 DEF LockIntent
      <3> QED BY <3>4 DEF Fields, JournalRecord
    <2> QED BY <2>1, <2>2, BusyJournal DEF Locks
  <1>3. Orphans'
    <2> SUFFICES ASSUME site'.orphan # "none" PROVE Orphans'
      BY DEF Orphans
    <2>1. site'.orphan = site.orphan
      BY BusySite
    <2>2. journal' = journal /\ agent'.pc \in Resting
      BY <2>1, BusyOrphaned
    <2>3. pause # "agent" => pause' # "agent"
      <3>1. ~Pause
        BY <2>1 DEF Orphans, Pause, At, Resting, Fields, SiteRecord
      <3> QED BY <3>1, PausesFrom
    <2> QED BY <2>1, <2>2, <2>3 DEF Orphans
  <1>4. Hooked'
    <2>1. agent.pc = "freeze_hook" => journal.state = "ARMED"
      BY PlaceAt DEF Fits, Arming
    <2> QED BY <2>1, BusyJournal, BusySite DEF Hooked
  <1> QED BY <1>2, <1>3, <1>4

(* The rollback's own steps, from the resume's answer to its last record.  *)
UndoTail ==
  \/ RollbackResumes \/ RollbackNoCheck \/ RollbackNothingToReopen
  \/ \E seen \in P!Seen : RollbackCheck(seen) \/ RollbackRecheck(seen)
  \/ \E applied, ok \in BOOLEAN :
       Unlock(applied, ok) \/ AbortHookRuns(applied, ok)
  \/ \E unstaged \in BOOLEAN : RollbackFinish(unstaged)
  \/ NoUnlock \/ NoAbortHook

LEMMA AgentKinds == Next => Busy \/ UndoTail \/ Exit \/ Commands \/ World
  BY DEF Next, Agent, Undo, Busy, Deciding, UndoTail

(* Where nothing is written and nobody pauses, the tail goes on as it was. *)
LEMMA TailGo ==
  ASSUME Fields, NEW l \in Labels, Go(l), journal' = journal
  PROVE  /\ agent'.pc = l /\ agent'.keep = agent.keep /\ agent'.perform = agent.perform
         /\ agent'.failed = agent.failed /\ agent'.readAt = agent.readAt
         /\ ResumeFailed' = ResumeFailed /\ SourceBack' = SourceBack
         /\ ReopenPending' = ReopenPending /\ RolledBack' = RolledBack
  BY AgentFields DEF Fields, ResumeFailed, SourceBack, ReopenPending, RolledBack

LEMMA EndTail ==
  ASSUME Fields, PathInv, EndInv, ext \in Nat, UndoTail
  PROVE  EndInv'
  <1> USE DEF At, Fields
  <1>0. agent.failed \in BOOLEAN /\ agent.perform \in BOOLEAN /\ agent.keep \in BOOLEAN
        /\ agent.readAt \in Nat
    BY DEF AgentRecord
  <1>1. agent.pc \in Undoing \cup {"rb_resume", "rb_check"} => ~RolledBack
    BY DEF EndInv, Ends, RestPlaces, Undoing
  <1>2. RollbackResumes => EndInv'
    <2>1. CASE RollbackResumes /\ agent' = agent
      <3>1. agent.pc = "rb_resume" /\ journal' = journal
        BY <2>1 DEF RollbackResumes, AgentRecord
      <3> QED BY <1>1, <2>1, <3>1 DEF EndInv, Ends, Keeps, Reopens, Undoing, RolledBack
    <2>2. CASE RollbackResumes /\ agent' = [agent EXCEPT !.pc = "rb_check", !.rres = answer']
      <3>1. agent.pc = "rb_resume" /\ (journal' = journal \/ journal' = MarkStep("resume"))
        BY <2>2 DEF RollbackResumes
      <3>2. agent'.pc = "rb_check" /\ agent'.keep = agent.keep
        BY <2>2 DEF AgentRecord
      <3>3. journal'.state = journal.state /\ journal'.done = journal.done
        BY <3>1, MarkFields, States
      <3> QED BY <1>1, <3>1, <3>2, <3>3 DEF EndInv, Ends, Keeps, Reopens, Undoing,
           RolledBack
    <2> QED BY <2>1, <2>2 DEF RollbackResumes
  <1>3. ASSUME NEW seen \in P!Seen, RollbackCheck(seen) PROVE EndInv'
    <2>1. agent.pc = "rb_check" /\ ~agent.keep
      BY <1>3 DEF RollbackCheck, EndInv, Keeps, Undoing
    <2>2. CASE Seals(seen)
      <3>1. journal' = [journal EXCEPT !.strand = TRUE] /\ (Go("strand") \/ SealThen("stranded"))
        BY <1>3, <2>2 DEF RollbackCheck
      <3>2. journal'.state = journal.state /\ journal'.done = journal.done
        BY <3>1 DEF JournalRecord
      <3>3. agent'.keep = agent.keep /\ agent'.pc \in {"strand", "seal", "hold"}
        BY <3>1, AgentFields, HoldFields DEF Labels, Rets
      <3> QED BY <1>1, <2>1, <3>2, <3>3 DEF EndInv, Ends, Keeps, Reopens, Undoing,
           RolledBack
    <2>3. CASE ~Seals(seen)
      <3>1. Move("ABORTED") /\ agent' = [agent EXCEPT !.pc = "rb_reopen", !.keep = seen # "producing"]
        BY <1>3, <2>3 DEF RollbackCheck
      <3>2. agent'.pc = "rb_reopen" /\ agent'.keep = (seen # "producing")
            /\ agent'.perform = agent.perform /\ agent'.rres = agent.rres
        BY <3>1 DEF AgentRecord
      <3>3. ~RolledBack'
        BY <3>1, MoveFields, States DEF RolledBack
      <3>4. agent.perform /\ seen # "producing" => agent.rres \in {"err", "ignored"}
        BY <2>3 DEF Seals, AgentRecord, Outcomes
      <3> QED BY <3>2, <3>3, <3>4 DEF EndInv, Ends, Keeps, Reopens, Undoing, ResumeFailed
    <2> QED BY <2>2, <2>3
  <1>4. RollbackNoCheck => EndInv'
    <2>1. ASSUME RollbackNoCheck PROVE EndInv'
      <3>1. agent.pc = "rb_check" /\ ~agent.keep /\ Move("ABORTED") /\ Go("rb_reopen")
        BY <2>1 DEF RollbackNoCheck, EndInv, Keeps, Undoing
      <3>2. agent'.pc = "rb_reopen" /\ agent'.keep = agent.keep
        BY <3>1, AgentFields DEF Labels
      <3>3. ~RolledBack'
        BY <3>1, MoveFields, States DEF RolledBack
      <3> QED BY <3>1, <3>2, <3>3 DEF EndInv, Ends, Keeps, Reopens, Undoing
    <2> QED BY <2>1
  <1>5. ASSUME NEW seen \in P!Seen, RollbackRecheck(seen) PROVE EndInv'
    <2>1. agent.pc = "rb_reopen" /\ journal' = journal /\ P!Read(seen)
      BY <1>5 DEF RollbackRecheck
    <2>2. pause' = pause /\ ext' = ext /\ (seen = "producing" => pause = "none")
      BY <2>1 DEF P!Read, P!Observe, P!world
    <2>3. ~RolledBack'
      BY <1>1, <2>1 DEF RolledBack, Undoing
    <2>4. CASE agent' = [agent EXCEPT !.pc = "rb_unlock", !.readAt = ext] /\ seen = "producing"
      <3>1. agent' = [agent EXCEPT !.pc = "rb_unlock", !.readAt = ext]
        BY <2>4
      <3>2. agent'.pc = "rb_unlock" /\ agent'.keep = agent.keep /\ agent'.perform = agent.perform
            /\ agent'.rres = agent.rres /\ agent'.readAt = ext
        BY <3>1 DEF AgentRecord
      <3>3. ext <= ext
        OBVIOUS
      <3> QED BY <2>1, <2>2, <2>3, <2>4, <3>2, <3>3 DEF EndInv, Ends, Keeps, Reopens,
           Undoing, ResumeFailed
    <2>5. CASE agent' = [agent EXCEPT !.pc = "rb_finish", !.failed = TRUE]
      <3>1. agent'.pc = "rb_finish" /\ agent'.keep = agent.keep /\ agent'.perform = agent.perform
            /\ agent'.rres = agent.rres /\ agent'.failed
        BY <2>5 DEF AgentRecord
      <3> QED BY <2>1, <2>3, <3>1 DEF EndInv, Ends, Keeps, Reopens, Undoing, ResumeFailed
    <2> QED BY <1>5, <2>4, <2>5 DEF RollbackRecheck
  <1>6. RollbackNothingToReopen => EndInv'
    <2>1. ASSUME RollbackNothingToReopen PROVE EndInv'
      <3>1. agent.pc = "rb_reopen" /\ ~(ReopenHook \/ UnlockPending) /\ Go("rb_finish") /\ journal' = journal
        BY <2>1 DEF RollbackNothingToReopen
      <3>2. SourceBack => ~ReopenPending /\ ~journal.lock
        BY <3>1 DEF ReopenHook, UnlockPending
      <3> QED BY <1>1, <3>1, <3>2, TailGo DEF EndInv, Ends, Keeps, Reopens, Undoing, Labels
    <2> QED BY <2>1
  <1>7. ASSUME NEW applied \in BOOLEAN, NEW ok \in BOOLEAN, Unlock(applied, ok) PROVE EndInv'
    <2>1. /\ agent.pc = "rb_unlock" /\ UNCHANGED custody
          /\ agent' = [agent EXCEPT !.pc = "rb_hook", !.failed = agent.failed \/ ~ok]
          /\ IF ok THEN journal' = [MarkStep("admission_unlock") EXCEPT !.lock = FALSE]
             ELSE journal' = journal
      BY <1>7 DEF Unlock
    <2>2. agent' = [agent EXCEPT !.pc = "rb_hook", !.failed = agent.failed \/ ~ok]
      BY <2>1
    <2>3. agent'.pc = "rb_hook" /\ agent'.keep = agent.keep /\ agent'.perform = agent.perform
          /\ agent'.rres = agent.rres /\ agent'.readAt = agent.readAt
      BY <2>2 DEF AgentRecord
    <2>4. agent'.failed = (agent.failed \/ ~ok)
      BY <2>2 DEF AgentRecord
    <2>5. ok => ~journal'.lock /\ journal'.state = journal.state /\ journal'.done = journal.done
      BY <2>1, MarkFields, States DEF JournalRecord
    <2>6. ~RolledBack'
      BY <1>1, <2>1, <2>5 DEF RolledBack, Undoing
    <2>7. pause' = pause /\ ext' = ext
      BY <2>1 DEF custody
    <2>8. ~agent'.failed => ok
      BY <2>4
    <2>9. Ends' /\ Keeps'
      BY <2>1, <2>3, <2>6 DEF EndInv, Ends, Keeps, Undoing, ResumeFailed
    <2>10. Reopens'
      BY <2>1, <2>3, <2>5, <2>7, <2>8 DEF EndInv, Reopens
    <2> QED BY <2>9, <2>10 DEF EndInv
  <1>8. NoUnlock => EndInv'
    <2>1. ASSUME NoUnlock PROVE EndInv'
      <3>1. agent.pc = "rb_unlock" /\ ~UnlockPending /\ Go("rb_hook") /\ journal' = journal
            /\ UNCHANGED custody
        BY <2>1 DEF NoUnlock
      <3>2. SourceBack => ~journal.lock
        BY <3>1 DEF UnlockPending
      <3>3. pause' = pause /\ ext' = ext
        BY <3>1 DEF custody
      <3> QED BY <1>1, <3>1, <3>2, <3>3, TailGo DEF EndInv, Ends, Keeps, Reopens, Undoing,
           Labels
    <2> QED BY <2>1
  <1>9. ASSUME NEW applied \in BOOLEAN, NEW ok \in BOOLEAN, AbortHookRuns(applied, ok) PROVE EndInv'
    <2>1. /\ agent.pc = "rb_hook" /\ ReopenHook
          /\ agent' = [agent EXCEPT !.pc = "rb_finish", !.failed = agent.failed \/ ~ok]
          /\ IF ok THEN journal' = MarkStep("on_abort") ELSE journal' = journal
      BY <1>9 DEF AbortHookRuns
    <2>2. agent' = [agent EXCEPT !.pc = "rb_finish", !.failed = agent.failed \/ ~ok]
      BY <2>1
    <2>3. agent'.pc = "rb_finish" /\ agent'.keep = agent.keep /\ agent'.perform = agent.perform
          /\ agent'.rres = agent.rres
      BY <2>2 DEF AgentRecord
    <2>4. agent'.failed = (agent.failed \/ ~ok)
      BY <2>2 DEF AgentRecord
    <2>5. /\ journal'.state = journal.state /\ journal'.done = journal.done
          /\ journal'.lock = journal.lock /\ (ok => "on_abort" \in journal'.steps)
      BY <2>1, MarkFields, States
    <2>6. ~RolledBack'
      BY <1>1, <2>1, <2>5 DEF RolledBack, Undoing
    <2>7. ~agent'.failed => ok /\ ~agent.failed
      BY <2>4
    <2>8. Ends' /\ Keeps'
      BY <2>1, <2>3, <2>6 DEF EndInv, Ends, Keeps, Undoing, ResumeFailed
    <2>9. Reopens'
      BY <2>1, <2>3, <2>5, <2>7 DEF EndInv, Reopens, SourceBack, ReopenHook, ReopenPending
    <2> QED BY <2>8, <2>9 DEF EndInv
  <1>10. NoAbortHook => EndInv'
    <2>1. ASSUME NoAbortHook PROVE EndInv'
      <3>1. agent.pc = "rb_hook" /\ ~ReopenHook /\ Go("rb_finish") /\ journal' = journal
        BY <2>1 DEF NoAbortHook
      <3>2. SourceBack => ~ReopenPending
        BY <3>1 DEF ReopenHook
      <3> QED BY <1>1, <3>1, <3>2, TailGo DEF EndInv, Ends, Keeps, Reopens, Undoing, Labels
    <2> QED BY <2>1
  <1>11. ASSUME NEW unstaged \in BOOLEAN, RollbackFinish(unstaged) PROVE EndInv'
    <2> DEFINE d == unstaged /\ ~agent.failed /\ ~ResumeFailed /\ (agent.perform \/ NothingToUndo)
    <2>1. agent.pc = "rb_finish" /\ journal' = [journal EXCEPT !.done = d] /\ Go("exit")
      BY <1>11 DEF RollbackFinish
    <2>2. d => ~agent.failed /\ ~ResumeFailed /\ (agent.perform \/ NothingToUndo)
      OBVIOUS
    <2> HIDE DEF d
    <2>3. /\ journal'.done = d /\ journal'.lock = journal.lock /\ journal'.writes = journal.writes
          /\ journal'.steps = journal.steps
      BY <2>1 DEF JournalRecord
    <2>4. agent'.pc = "exit"
      BY <2>1, AgentFields DEF Labels
    <2>5. ASSUME d PROVE ~journal.lock /\ ~ReopenPending
      <3>1. CASE agent.perform
        <4>1. SourceBack
          BY <2>1, <2>2, <2>5, <3>1 DEF SourceBack, ResumeFailed, EndInv, Keeps, Undoing
        <4> QED BY <2>1, <2>2, <2>5, <4>1 DEF EndInv, Reopens
      <3>2. CASE NothingToUndo
        BY <3>2 DEF NothingToUndo, ReopenPending
      <3> QED BY <2>2, <2>5, <3>1, <3>2
    <2>6. Ends'
      BY <2>3, <2>4, <2>5 DEF Ends, RolledBack, RestPlaces, ReopenPending
    <2> QED BY <2>4, <2>6 DEF EndInv, Keeps, Reopens, Undoing
  <1> QED BY <1>2, <1>3, <1>4, <1>5, <1>6, <1>7, <1>8, <1>9, <1>10, <1>11 DEF UndoTail

(* The tail's touch of the journal and the site.                           *)
LEMMA TailFrom ==
  ASSUME UndoTail
  PROVE  agent.pc \in Undoing \cup {"rb_resume", "rb_check"}
  BY DEF UndoTail, At, RollbackResumes, RollbackNoCheck, RollbackNothingToReopen, RollbackCheck,
         RollbackRecheck, Unlock, AbortHookRuns, RollbackFinish, NoUnlock, NoAbortHook,
              Undoing

LEMMA TailTo ==
  ASSUME Fields, UndoTail
  PROVE  agent'.pc \notin {"lock_rpc"}
  <1> USE DEF Fields
  <1>1. ASSUME NEW l \in Labels, l # "lock_rpc", Go(l) PROVE agent'.pc # "lock_rpc"
    BY <1>1, AgentFields
  <1>2. RollbackNoCheck \/ RollbackNothingToReopen \/ NoUnlock \/ NoAbortHook =>
          Go("rb_reopen") \/ Go("rb_finish") \/ Go("rb_hook")
    BY DEF RollbackNoCheck, RollbackNothingToReopen, NoUnlock, NoAbortHook
  <1>3. RollbackResumes => agent'.pc # "lock_rpc"
    <2>1. ASSUME agent' = [agent EXCEPT !.pc = "rb_check", !.rres = answer'] PROVE agent'.pc # "lock_rpc"
      BY <2>1 DEF AgentRecord
    <2> QED BY <2>1 DEF RollbackResumes, At
  <1>4. ASSUME NEW seen, RollbackCheck(seen) PROVE agent'.pc # "lock_rpc"
    <2>1. ASSUME agent' = [agent EXCEPT !.pc = "rb_reopen", !.keep = seen # "producing"]
          PROVE  agent'.pc # "lock_rpc"
      BY <2>1 DEF AgentRecord
    <2>2. SealThen("stranded") => agent'.pc # "lock_rpc"
      BY HoldFields DEF Rets
    <2> QED BY <1>1, <1>4, <2>1, <2>2 DEF RollbackCheck, Labels
  <1>5. ASSUME NEW seen, RollbackRecheck(seen) PROVE agent'.pc # "lock_rpc"
    <2>1. ASSUME agent' = [agent EXCEPT !.pc = "rb_unlock", !.readAt = ext] PROVE agent'.pc # "lock_rpc"
      BY <2>1 DEF AgentRecord
    <2>2. ASSUME agent' = [agent EXCEPT !.pc = "rb_finish", !.failed = TRUE] PROVE agent'.pc # "lock_rpc"
      BY <2>2 DEF AgentRecord
    <2> QED BY <1>5, <2>1, <2>2 DEF RollbackRecheck
  <1>6. ASSUME NEW applied, NEW ok, Unlock(applied, ok) \/ AbortHookRuns(applied, ok)
        PROVE  agent'.pc # "lock_rpc"
    <2>1. ASSUME agent' = [agent EXCEPT !.pc = "rb_hook", !.failed = agent.failed \/ ~ok]
          PROVE  agent'.pc # "lock_rpc"
      BY <2>1 DEF AgentRecord
    <2>2. ASSUME agent' = [agent EXCEPT !.pc = "rb_finish", !.failed = agent.failed \/ ~ok]
          PROVE  agent'.pc # "lock_rpc"
      BY <2>2 DEF AgentRecord
    <2> QED BY <1>6, <2>1, <2>2 DEF Unlock, AbortHookRuns
  <1>7. ASSUME NEW unstaged, RollbackFinish(unstaged) PROVE Go("exit")
    BY <1>7 DEF RollbackFinish
  <1> QED BY <1>1, <1>2, <1>3, <1>4, <1>5, <1>6, <1>7 DEF UndoTail, Labels

LEMMA SiteTail ==
  ASSUME Fields, PathInv, SiteInv, UndoTail
  PROVE  SiteInv'
  <1> USE DEF At, Fields, SiteInv
  <1>1. site.orphan = "none" /\ agent'.pc # "lock_rpc"
    BY TailFrom, TailTo DEF Orphans, SiteRecord, Resting, Undoing
  <1>2. ASSUME site'.orphan = site.orphan PROVE Orphans'
    BY <1>1, <1>2 DEF Orphans
  <1>3. ASSUME site' = site, journal'.lock = journal.lock,
               "on_abort" \in journal'.steps => "on_abort" \in journal.steps,
               journal'.state \in {journal.state, "ABORTED"}
        PROVE  SiteInv'
    BY <1>1, <1>2, <1>3 DEF Locks, Hooked
  <1>4. journal' = journal /\ site' = site => SiteInv'
    BY <1>3
  <1>5. Move("ABORTED") /\ site' = site => SiteInv'
    BY <1>3, MoveFields, States
  <1>6. RollbackNothingToReopen \/ NoUnlock \/ NoAbortHook => SiteInv'
    BY <1>4 DEF RollbackNothingToReopen, NoUnlock, NoAbortHook
  <1>7. RollbackNoCheck => SiteInv'
    BY <1>5 DEF RollbackNoCheck
  <1>8. RollbackResumes => SiteInv'
    <2>1. RollbackResumes => site' = site /\ (journal' = journal \/ journal' = MarkStep("resume"))
      BY DEF RollbackResumes
    <2>2. ASSUME site' = site, journal' = MarkStep("resume") PROVE SiteInv'
      <3>1. /\ journal'.lock = journal.lock /\ journal'.state = journal.state
            /\ journal'.steps = journal.steps \cup {"resume"}
        BY <2>2, MarkFields, States
      <3> QED BY <1>3, <2>2, <3>1
    <2> QED BY <1>4, <2>1, <2>2
  <1>9. ASSUME NEW seen, RollbackCheck(seen) PROVE SiteInv'
    <2>1. ASSUME site' = site, journal' = [journal EXCEPT !.strand = TRUE] PROVE SiteInv'
      <3>1. /\ journal'.lock = journal.lock /\ journal'.state = journal.state
            /\ journal'.steps = journal.steps
        BY <2>1 DEF JournalRecord
      <3> QED BY <1>3, <2>1, <3>1
    <2> QED BY <1>5, <1>9, <2>1 DEF RollbackCheck
  <1>10. ASSUME NEW seen, RollbackRecheck(seen) PROVE SiteInv'
    BY <1>4, <1>10 DEF RollbackRecheck
  <1>11. ASSUME NEW applied \in BOOLEAN, NEW ok \in BOOLEAN, Unlock(applied, ok) PROVE SiteInv'
    <2>1. /\ ok => applied
          /\ IF applied /\ site.whitelist = "sentinel"
             THEN site' = [site EXCEPT !.whitelist = "original"] ELSE site' = site
          /\ IF ok THEN journal' = [MarkStep("admission_unlock") EXCEPT !.lock = FALSE]
             ELSE journal' = journal
      BY <1>11 DEF Unlock
    <2>2. /\ site'.edge = site.edge /\ site'.orphan = site.orphan
          /\ applied => site'.whitelist # "sentinel"
          /\ site'.whitelist \in {site.whitelist, "original"}
      BY <2>1 DEF SiteRecord
    <2>3. CASE ok
      <3>1. /\ journal'.state = journal.state
            /\ journal'.steps = journal.steps \cup {"admission_unlock"}
        BY <2>1, <2>3, MarkFields, States DEF JournalRecord
      <3> QED BY <1>1, <1>2, <2>1, <2>2, <2>3, <3>1 DEF Locks, Hooked
    <2>4. CASE ~ok
      BY <1>1, <1>2, <2>1, <2>2, <2>4 DEF Locks, Hooked
    <2> QED BY <2>3, <2>4
  <1>12. ASSUME NEW applied \in BOOLEAN, NEW ok \in BOOLEAN, AbortHookRuns(applied, ok) PROVE SiteInv'
    <2>1. /\ ok => applied /\ agent.pc = "rb_hook"
          /\ IF applied THEN site' = [site EXCEPT !.edge = "open"] ELSE site' = site
          /\ IF ok THEN journal' = MarkStep("on_abort") ELSE journal' = journal
      BY <1>12 DEF AbortHookRuns
    <2>2. /\ site'.whitelist = site.whitelist /\ site'.orphan = site.orphan
          /\ applied => site'.edge = "open"
          /\ site'.edge \in {site.edge, "open"}
      BY <2>1 DEF SiteRecord
    <2>3. agent.pc = "rb_hook" => journal.state = "ABORTED"
      BY PlaceAt DEF Fits, Undoing
    <2>4. /\ journal'.state = journal.state /\ journal'.lock = journal.lock
      BY <2>1, MarkFields, States
    <2>5. ok \/ journal'.steps = journal.steps
      BY <2>1
    <2>6. agent.pc = "rb_hook"
      BY <1>12 DEF AbortHookRuns
    <2> QED BY <1>1, <1>2, <2>1, <2>2, <2>3, <2>4, <2>5, <2>6 DEF Locks, Hooked
  <1>13. ASSUME NEW unstaged \in BOOLEAN, RollbackFinish(unstaged) PROVE SiteInv'
    <2> DEFINE d == unstaged /\ ~agent.failed /\ ~ResumeFailed /\ (agent.perform \/ NothingToUndo)
    <2>1. site' = site /\ journal' = [journal EXCEPT !.done = d]
      BY <1>13 DEF RollbackFinish
    <2> HIDE DEF d
    <2>2. /\ journal'.lock = journal.lock /\ journal'.state = journal.state
          /\ journal'.steps = journal.steps
      BY <2>1 DEF JournalRecord
    <2> QED BY <1>3, <2>1, <2>2
  <1> QED BY <1>6, <1>7, <1>8, <1>9, <1>10, <1>11, <1>12, <1>13 DEF UndoTail

(* Deaths, commands and the other actors.                                  *)
LEMMA AgentResets ==
  ASSUME Exit \/ Crash \/ Commands
  PROVE  /\ agent'.pc \in {"off", "run", "op"} /\ ~agent'.keep /\ journal' = journal
         /\ pause' = pause
  <1>1. Exit \/ Crash => agent' = NoAgent /\ journal' = journal
    BY DEF Exit, Crash
  <1>2. ASSUME StartRun PROVE agent'.pc = "run" /\ journal' = journal /\ ~agent'.keep
    BY <1>2 DEF StartRun, NoAgent
  <1>3. ASSUME NEW force, NEW fs, StartRollback(force, fs)
        PROVE  agent'.pc = "op" /\ journal' = journal /\ ~agent'.keep
    BY <1>3 DEF StartRollback, NoAgent
  <1>4. NoAgent.pc = "off" /\ ~NoAgent.keep
    BY DEF NoAgent
  <1>5. pause' = pause
    BY DEF Exit, Crash, Commands, StartRun, StartRollback, P!Exit, P!Crash, P!Restart,
         P!world
  <1> QED BY <1>1, <1>2, <1>3, <1>4, <1>5 DEF Commands

Others == OrphanRuns \/ OthersPause \/ OthersUnpause \/ NodeosRestart \/ OthersWhitelist

LEMMA OthersAct ==
  ASSUME Others, ext \in Nat
  PROVE  /\ agent' = agent /\ journal' = journal
         /\ pause' = "agent" => pause = "agent"
         /\ ext' \in Nat /\ ext <= ext'
         /\ pause' = "external" /\ pause # "external" => ext < ext'
         /\ open' = open /\ jopen' = jopen /\ step' = step
  <1>1. agent' = agent /\ journal' = journal
    BY DEF Others, OrphanRuns, OthersPause, OthersUnpause, NodeosRestart, OthersWhitelist
  <1>2. UNCHANGED custody \/ P!ExternalPause \/ P!ExternalUnpause
    BY DEF Others, OrphanRuns, OthersPause, OthersUnpause, NodeosRestart, OthersWhitelist
  <1> QED BY <1>1, <1>2 DEF custody, P!ExternalPause, P!ExternalUnpause, P!episodes

LEMMA EndRest ==
  ASSUME Fields, EndInv, ext \in Nat, Exit \/ Commands \/ World \/ UNCHANGED vars
  PROVE  EndInv'
  <1>1. CASE Exit \/ Crash \/ Commands
    BY <1>1, AgentResets DEF EndInv, Ends, Keeps, Reopens, RolledBack, ReopenPending,
         RestPlaces, Undoing
  <1>2. CASE Others
    <2>1. /\ agent' = agent /\ journal' = journal
          /\ pause' = "agent" => pause = "agent"
          /\ ext' \in Nat /\ ext <= ext'
          /\ pause' = "external" /\ pause # "external" => ext < ext'
      BY <1>2, OthersAct
    <2>2. Ends' /\ Keeps'
      BY <2>1 DEF EndInv, Ends, Keeps, RolledBack, ReopenPending, ResumeFailed
    <2>3. agent.readAt \in Nat
      BY DEF Fields, AgentRecord
    <2>4. Reopens'
      BY <2>1, <2>3 DEF EndInv, Reopens, SourceBack, ReopenPending
    <2> QED BY <2>2, <2>4 DEF EndInv
  <1>3. CASE UNCHANGED vars
    BY <1>3 DEF vars, custody, EndInv, Ends, Keeps, Reopens, RolledBack, ReopenPending,
         ResumeFailed, SourceBack
  <1> QED BY <1>1, <1>2, <1>3 DEF World, Others

LEMMA SiteRestStep ==
  ASSUME Fields, PathInv, EndInv, SiteInv, ext \in Nat, Exit \/ Commands \/ World \/ UNCHANGED vars
  PROVE  SiteInv'
  <1> USE DEF Fields, SiteInv
  <1>1. CASE Exit \/ Commands
    <2>1. site' = site
      BY <1>1 DEF Exit, Commands, StartRun, StartRollback
    <2> QED BY <1>1, <2>1, AgentResets DEF Locks, Orphans, Hooked, Resting
  <1>2. CASE Crash
    <2>1. \/ site' = site
          \/ agent.pc = "freeze_hook" /\ site' = [site EXCEPT !.orphan = "freeze"]
          \/ agent.pc = "rb_hook" /\ site' = [site EXCEPT !.orphan = "abort"]
          \/ site' = [site EXCEPT !.orphan = site.orphan]
      BY <1>2 DEF Crash, At
    <2>2. /\ site'.edge = site.edge /\ site'.whitelist = site.whitelist
          /\ \/ site'.orphan = site.orphan
             \/ agent.pc = "freeze_hook" /\ site'.orphan = "freeze"
             \/ agent.pc = "rb_hook" /\ site'.orphan = "abort"
      BY <2>1 DEF SiteRecord
    <2>3. agent.pc = "freeze_hook" => journal.state = "ARMED" /\ ~journal.strand
      BY PlaceAt DEF Fits, Arming, Forward
    <2>4. agent.pc = "rb_hook" => journal.state = "ABORTED" /\ pause # "agent"
      BY PlaceAt DEF Fits, Undoing, EndInv, Reopens
    <2> QED BY <1>2, <2>2, <2>3, <2>4, AgentResets DEF Locks, Orphans, Hooked, Resting
  <1>3. CASE Others
    <2>1. \/ site' = site \/ site' = [site EXCEPT !.whitelist = "original"]
          \/ site' = [site EXCEPT !.whitelist = "other"]
          \/ /\ site.orphan = "freeze"
             /\ site' = [site EXCEPT !.orphan = "none", !.edge = "frozen"]
          \/ site' = [site EXCEPT !.orphan = "none", !.edge = "open"]
      BY <1>3 DEF Others, OrphanRuns, OthersPause, OthersUnpause, NodeosRestart,
           OthersWhitelist
    <2>2. /\ site'.whitelist \in {site.whitelist, "original", "other"}
          /\ site'.orphan \in {site.orphan, "none"}
          /\ site'.edge \in {site.edge, "open"} \/ site.orphan = "freeze"
      BY <2>1 DEF SiteRecord
    <2> QED BY <1>3, <2>2, OthersAct DEF Locks, Orphans, Hooked
  <1>4. CASE UNCHANGED vars
    BY <1>4 DEF vars, custody, Locks, Orphans, Hooked
  <1> QED BY <1>1, <1>2, <1>3, <1>4 DEF World, Others

LEMMA EndInit == Init => EndInv /\ SiteInv
  BY DEF Init, NoAgent, NewJournal, EndInv, Ends, Keeps, Reopens, RolledBack, SiteInv,
         Locks, Orphans, Hooked, Undoing

LEMMA EndStep ==
  C!IInv /\ Fields /\ PathInv /\ EndInv /\ SiteInv /\ [Next]_vars => EndInv' /\ SiteInv'
  <1> SUFFICES ASSUME C!IInv, Fields, PathInv, EndInv, SiteInv, [Next]_vars
               PROVE  EndInv' /\ SiteInv'
    OBVIOUS
  <1>1. ext \in Nat
    BY CustodyFacts
  <1>2. Busy \/ UndoTail \/ Exit \/ Commands \/ World \/ UNCHANGED vars
    BY AgentKinds
  <1> QED BY <1>1, <1>2, EndBusy, SiteBusy, EndTail, SiteTail, EndRest, SiteRestStep

LEMMA Sound == Spec => [](Fields /\ PathInv /\ EndInv /\ SiteInv)
  BY Safe, EndInit, EndStep, PTL DEF Spec

(* A rollback that is provably done left the edge open: on_abort succeeded *)
(* once, and no freeze hook, orphaned or not, ran after it.                *)
THEOREM CeremonyDoneMeansOpen == Spec => []DoneMeansOpen
  <1>1. EndInv /\ SiteInv => DoneMeansOpen
    BY DEF EndInv, Ends, SiteInv, Hooked, DoneMeansOpen, ReopenPending
  <1> QED BY <1>1, Sound, PTL

(* ... and the producer's admission is no longer ours to restore.          *)
THEOREM CeremonyDoneMeansUnlocked == Spec => []DoneMeansUnlocked
  <1>1. EndInv /\ SiteInv => DoneMeansUnlocked
    BY DEF EndInv, Ends, SiteInv, Locks, DoneMeansUnlocked
  <1> QED BY <1>1, Sound, PTL

(* The edge is reopened by the rollback's hook, alive or orphaned.         *)
LEMMA ReopenedBy ==
  ASSUME Fields, [Next]_vars, site.edge = "frozen", site'.edge = "open"
  PROVE  agent.pc = "rb_hook" \/ site.orphan = "abort"
  <1> USE DEF At, Fields
  <1>1. ~Busy
    BY BusySite
  <1>2. ASSUME UndoTail PROVE agent.pc = "rb_hook"
    <2>1. RollbackResumes \/ RollbackNoCheck \/ RollbackNothingToReopen \/ NoUnlock \/ NoAbortHook
            => site' = site
      BY DEF RollbackResumes, RollbackNoCheck, RollbackNothingToReopen, NoUnlock,
           NoAbortHook
    <2>2. ASSUME NEW x, RollbackCheck(x) \/ RollbackRecheck(x) \/ RollbackFinish(x)
          PROVE  site' = site
      BY <2>2 DEF RollbackCheck, RollbackRecheck, RollbackFinish
    <2>3. ASSUME NEW applied, NEW ok, Unlock(applied, ok) PROVE site'.edge = site.edge
      <3>1. site' = site \/ site' = [site EXCEPT !.whitelist = "original"]
        BY <2>3 DEF Unlock
      <3> QED BY <3>1 DEF SiteRecord
    <2>4. ASSUME NEW applied, NEW ok, AbortHookRuns(applied, ok) PROVE agent.pc = "rb_hook"
      BY <2>4 DEF AbortHookRuns
    <2> QED BY <1>2, <2>1, <2>2, <2>3, <2>4 DEF UndoTail
  <1>3. Exit \/ Commands \/ OthersPause \/ OthersUnpause \/ UNCHANGED vars => site' = site
    BY DEF Exit, Commands, StartRun, StartRollback, OthersPause, OthersUnpause, vars
  <1>4. NodeosRestart \/ OthersWhitelist => site'.edge = site.edge
    <2>1. NodeosRestart \/ OthersWhitelist =>
            \E w \in {"original", "other"} : site' = [site EXCEPT !.whitelist = w]
      BY DEF NodeosRestart, OthersWhitelist
    <2> QED BY <2>1 DEF SiteRecord
  <1>5. Crash => site'.edge = site.edge
    <2>1. Crash => site' = site \/ \E o : site' = [site EXCEPT !.orphan = o]
      BY DEF Crash
    <2> QED BY <2>1 DEF SiteRecord
  <1>6. OrphanRuns => site.orphan = "abort"
    <2>1. ASSUME OrphanRuns, site.orphan = "freeze" PROVE FALSE
      BY <2>1 DEF OrphanRuns, SiteRecord
    <2> QED BY <2>1 DEF OrphanRuns, SiteRecord
  <1> QED BY <1>1, <1>2, <1>3, <1>4, <1>5, <1>6, AgentKinds DEF World

(* Writes, or the producer's admission, are reopened into a paused producer *)
(* only if someone else paused it after the last read, never under the      *)
(* agent's own pause; nor by the hook of a rollback that died.              *)
THEOREM CeremonyReopensIntoProducing == Spec => ReopensOnlyIntoProducing
  <1> DEFINE Opens == \/ site.edge = "frozen" /\ site'.edge = "open"
                      \/ site.whitelist = "sentinel" /\ site'.whitelist = "original"
                         /\ At("rb_unlock")
             Clear == /\ pause # "agent"
                      /\ pause = "external" /\ agent.pc \in {"rb_unlock", "rb_hook"}
                           => ext > agent.readAt
  <1>1. C!IInv /\ Fields /\ PathInv /\ EndInv /\ SiteInv /\ [Next]_vars => [Opens => Clear]_vars
    <2> SUFFICES ASSUME C!IInv, Fields, EndInv, SiteInv, [Next]_vars, Opens
                 PROVE  Clear
      OBVIOUS
    <2>1. ext \in Nat /\ agent.readAt \in Nat
      BY CustodyFacts DEF Fields, AgentRecord
    <2>2. CASE agent.pc \in {"rb_unlock", "rb_hook"}
      BY <2>1, <2>2 DEF EndInv, Reopens
    <2>3. CASE agent.pc \notin {"rb_unlock", "rb_hook"}
      <3>1. site.orphan = "abort"
        BY <2>3, ReopenedBy DEF At
      <3> QED BY <2>3, <3>1 DEF SiteInv, Orphans
    <2> QED BY <2>2, <2>3
  <1> QED BY <1>1, Safe, Sound, PTL DEF Spec, ReopensOnlyIntoProducing

-----------------------------------------------------------------------------
(* With a freeze hook, a journal without the freeze intent belongs to a     *)
(* ceremony that has not come near the producer's pause, and a rollback    *)
(* that undoes has seen the producer producing.                            *)
Early ==
  {"off", "exit", "run", "preflight", "armed", "lock", "lock_rpc", "freeze",
   "abort", "rb", "rb_check", "op", "op_held", "op_guard", "op_go"} \cup Undoing

Apart ==      \* the custody
  /\ open = <<>> /\ jopen = <<>> /\ step \in {"idle", "down"} /\ pause # "agent"
Young ==      \* the journal
  /\ journal.state \in {"none", "ARMED", "ABORTED"}
  /\ ~journal.strand /\ journal.target = "no"
Outside ==    \* the agent
  agent.pc \in Early /\ agent.back # "release" /\ agent.rres # "ok"
Unwritten == ~journal.writes => Apart /\ Young /\ Outside

Cleared ==
  /\ agent.pc \in Undoing /\ agent.perform /\ ~ResumeFailed => pause # "agent"
  /\ RolledBack => pause # "agent"

LEMMA ApartStep ==
  ASSUME [Next]_vars, Apart, agent.pc \in Early
  PROVE  Apart'
  <1> USE DEF Apart
  <1>1. ~Ours(open) /\ ~P!Ours(open)
    BY DEF Ours, Top, P!Ours, P!Top
  <1>2. pause' # "agent"
    BY PausesFrom DEF Pause, At, Early, Undoing
  <1>3. UNCHANGED custody => open' = open /\ jopen' = jopen /\ step' = step
    BY DEF custody
  <1>4. Reading => open' = open /\ jopen' = jopen /\ step' = step
    BY <1>1 DEF Reading, P!Read, P!Observe
  <1>5. ~(\/ Pause \/ FrozenAdopt \/ FrozenResume \/ FrozenResumes \/ VerifyTick
          \/ RollbackResume \/ RollbackResumes \/ OpRelease)
    BY <1>1 DEF Pause, FrozenAdopt, FrozenResume, FrozenResumes, VerifyTick, RollbackResume,
         RollbackResumes, OpRelease, P!ResumeOwn, At, Early, Undoing
  <1>6. Exit \/ Commands \/ Crash =>
          open' \in {open, jopen} /\ jopen' = jopen /\ step' \in {"idle", "down"}
    BY DEF Exit, Commands, StartRun, StartRollback, Crash, P!Exit, P!Crash, P!Restart,
         P!episodes
  <1>7. OrphanRuns \/ OthersPause \/ OthersUnpause \/ NodeosRestart \/ OthersWhitelist =>
          open' = open /\ jopen' = jopen /\ step' = step
    BY <1>3 DEF OrphanRuns, OthersPause, OthersUnpause, NodeosRestart, OthersWhitelist,
         P!ExternalPause, P!ExternalUnpause, P!episodes
  <1> QED BY <1>2, <1>3, <1>4, <1>5, <1>6, <1>7, CustodyKinds DEF Touching, World

LEMMA OutsideGo ==
  ASSUME Fields, Outside, NEW l \in Early, Go(l)
  PROVE  Outside'
  <1>1. l \in Labels
    BY DEF Early, Undoing, Labels
  <1> QED BY <1>1, AgentFields DEF Outside, Fields

LEMMA YoungSame == Young /\ journal' = journal => Young'
  BY DEF Young

LEMMA YoungMove ==
  ASSUME Fields, Young, NEW s \in {"ARMED", "ABORTED"}, Move(s)
  PROVE  Young'
  BY MoveFields, States DEF Fields, Young

LEMMA YoungRecord ==
  ASSUME Fields, Young,
         \/ \E b \in BOOLEAN : \/ journal' = [journal EXCEPT !.pending = b]
                             \/ journal' = [journal EXCEPT !.lock = b]
                             \/ journal' = [journal EXCEPT !.done = b]
         \/ \E name \in RollbackSteps : journal' = MarkStep(name)
         \/ \E name \in RollbackSteps : journal' = [MarkStep(name) EXCEPT !.lock = FALSE]
  PROVE  Young'
  BY DEF Fields, JournalRecord, Young, MarkStep

LEMMA YoungRun ==
  ASSUME FreezeHook, Fields, PathInv, Apart, Young, Outside, ~journal'.writes, Run
  PROVE  Young' /\ Outside'
  <1> USE DEF At, Fields
  <1>1. {"exit", "preflight", "armed", "lock", "lock_rpc", "freeze", "abort"} \subseteq Early
    BY DEF Early
  <1>2. journal.state # "STRANDED" /\ journal.state \notin {"FROZEN", "SNAPSHOTTED", "VERIFIED"}
        /\ journal.target = "no" /\ ~journal.strand
    BY DEF Young
  <1>3. RunStrand => FALSE
    BY <1>2 DEF RunStrand, StrandUnfinished
  <1>4. RunRefused => Young' /\ Outside'
    BY <1>1, OutsideGo, YoungSame DEF RunRefused
  <1>5. RunOn => Young' /\ Outside'
    <2>1. RunOn => /\ Go("exit") \/ Go("preflight")
                   /\ Move("ARMED") \/ journal' = journal
      BY <1>2 DEF RunOn
    <2> QED BY <1>1, <2>1, OutsideGo, YoungSame, YoungMove
  <1>6. RunEnds \/ Fails \/ Armed =>
          journal' = journal /\ (Go("exit") \/ Go("abort") \/ Go("lock") \/ Go("freeze"))
    BY DEF RunEnds, Fails, Armed
  <1>7. ASSUME NEW seen \in P!Seen, Preflight(seen) PROVE Young' /\ Outside'
    <2>1. agent.pc = "preflight" /\ journal' = journal
          /\ (Go("abort") \/ Go(StatePc(journal.state)))
      BY <1>7 DEF Preflight
    <2>2. journal.state = "ARMED"
      BY <2>1, PlaceAt DEF Fits, Running, Young
    <2>3. StatePc(journal.state) = "armed"
      BY <2>2 DEF StatePc
    <2> QED BY <1>1, <2>1, <2>3, OutsideGo, YoungSame
  <1>8. LockIntent => Young' /\ Outside'
    <2>1. LockIntent => /\ Go("lock_rpc") \/ Go("abort")
                        /\ journal' = journal \/ journal' = [journal EXCEPT !.lock = TRUE]
      BY DEF LockIntent
    <2> QED BY <1>1, <2>1, OutsideGo, YoungSame, YoungRecord
  <1>9. ASSUME NEW applied \in BOOLEAN, NEW ok \in BOOLEAN, LockRpc(applied, ok)
        PROVE  Young' /\ Outside'
    <2>1. (Go("freeze") \/ Go("abort")) /\ journal' = journal
      BY <1>9 DEF LockRpc
    <2> QED BY <1>1, <2>1, OutsideGo, YoungSame
  <1>10. FreezeIntent => FALSE
    <2>1. FreezeIntent => journal' = [journal EXCEPT !.writes = TRUE]
      BY DEF FreezeIntent
    <2> QED BY <2>1 DEF JournalRecord
  <1>11. ~(\/ Frozen \/ FrozenAdopt \/ KeepPaused \/ FrozenResume \/ FrozenResumes \/ Snapshot
           \/ FrozenPaused \/ QuiesceTick \/ Quiesced \/ Snapshotted \/ VerifyTick \/ Verified
           \/ VerifiedTick \/ Created \/ NoCreation \/ Ignited \/ Live)
    BY DEF Outside, Early, Undoing, Frozen, FrozenAdopt, KeepPaused, FrozenResume,
         FrozenResumes,
         Snapshot, FrozenPaused, QuiesceTick, Quiesced, Snapshotted, VerifyTick, Verified,
         VerifiedTick, Created, NoCreation, Ignited, Live
  <1>12. ASSUME NEW seen, FrozenRead(seen) \/ CreateIntent(seen) \/ IgniteIntent(seen) PROVE FALSE
    BY <1>12 DEF Outside, Early, Undoing, FrozenRead, CreateIntent, IgniteIntent, Boundary
  <1>13. ASSUME NEW applied, NEW ok, FreezeHookRuns(applied, ok) PROVE FALSE
    BY <1>13 DEF Outside, Early, Undoing, FreezeHookRuns
  <1>14. RunEnds \/ Fails \/ Armed => Young' /\ Outside'
    BY <1>1, <1>6, OutsideGo, YoungSame
  <1> QED BY <1>3, <1>4, <1>5, <1>7, <1>8, <1>9, <1>10, <1>11, <1>12, <1>13, <1>14 DEF Run

LEMMA YoungUndo ==
  ASSUME Fields, Apart, Young, Outside, ~journal.writes, Deciding \/ UndoTail
  PROVE  Young' /\ Outside'
  <1> USE DEF At, Fields
  <1>1. {"rb", "rb_check", "rb_reopen", "rb_unlock", "rb_hook", "rb_finish", "exit"} \subseteq Early
    BY DEF Early, Undoing
  <1>2. ~PastNoReturn /\ ~NeedsResumeGuard /\ ~P!Ours(open) /\ ~Unknown(open)
    BY DEF Young, Apart, PastNoReturn, NeedsResumeGuard, P!Ours, P!Top, Unknown, Top
  <1>3. ~(Halt \/ StrandRead \/ Stranded \/ RollbackResume \/ RollbackResumes)
    BY <1>2 DEF Halt, StrandRead, Stranded, RollbackResume, RollbackResumes, P!ResumeOwn,
         Outside, Early, Undoing
  <1>4. ASSUME NEW clear, AbortGuarded(clear) \/ Withdrawn(clear) PROVE FALSE
    BY <1>2, <1>4 DEF AbortGuarded, Withdrawn, Outside, Early, Undoing
  <1>5. AbortUnguarded => Young' /\ Outside'
    <2>1. AbortUnguarded =>
            Go("rb") /\ journal' = [journal EXCEPT !.pending = (journal.pending \/ AutoRollback)]
      BY DEF AbortUnguarded
    <2>2. (journal.pending \/ AutoRollback) \in BOOLEAN
      OBVIOUS
    <2> QED BY <1>1, <2>1, <2>2, OutsideGo, YoungRecord
  <1>6. RollbackNoResume \/ RollbackNothingToReopen \/ NoUnlock \/ NoAbortHook => Young' /\ Outside'
    <2>1. RollbackNoResume \/ RollbackNothingToReopen \/ NoUnlock \/ NoAbortHook =>
            journal' = journal /\ (Go("rb_check") \/ Go("rb_finish") \/ Go("rb_hook"))
      BY DEF RollbackNoResume, RollbackNothingToReopen, NoUnlock, NoAbortHook
    <2> QED BY <1>1, <2>1, OutsideGo, YoungSame
  <1>7. ASSUME NEW seen, RollbackCheck(seen) PROVE FALSE
    BY <1>2, <1>7 DEF RollbackCheck, ReopenPending, MustConfirm, Outside
  <1>8. RollbackNoCheck => Young' /\ Outside'
    <2>1. RollbackNoCheck => Move("ABORTED") /\ Go("rb_reopen")
      BY DEF RollbackNoCheck
    <2> QED BY <1>1, <2>1, OutsideGo, YoungMove
  <1>9. ASSUME NEW seen, RollbackRecheck(seen) PROVE Young' /\ Outside'
    <2>1. /\ journal' = journal
          /\ \/ agent' = [agent EXCEPT !.pc = "rb_unlock", !.readAt = ext]
             \/ agent' = [agent EXCEPT !.pc = "rb_finish", !.failed = TRUE]
      BY <1>9 DEF RollbackRecheck
    <2>2. agent'.pc \in {"rb_unlock", "rb_finish"} /\ agent'.back = agent.back
          /\ agent'.rres = agent.rres
      BY <2>1 DEF AgentRecord
    <2> QED BY <1>1, <2>1, <2>2, YoungSame DEF Outside
  <1>10. ASSUME NEW applied, NEW ok \in BOOLEAN, Unlock(applied, ok) \/ AbortHookRuns(applied, ok)
         PROVE  Young' /\ Outside'
    <2>1. /\ \/ journal' = journal \/ journal' = MarkStep("on_abort")
             \/ journal' = [MarkStep("admission_unlock") EXCEPT !.lock = FALSE]
          /\ \/ agent' = [agent EXCEPT !.pc = "rb_hook", !.failed = agent.failed \/ ~ok]
             \/ agent' = [agent EXCEPT !.pc = "rb_finish", !.failed = agent.failed \/ ~ok]
      BY <1>10 DEF Unlock, AbortHookRuns
    <2>2. agent'.pc \in {"rb_hook", "rb_finish"} /\ agent'.back = agent.back
          /\ agent'.rres = agent.rres
      BY <2>1 DEF AgentRecord
    <2>3. Young'
      BY <2>1, YoungSame, YoungRecord, States
    <2> QED BY <1>1, <2>2, <2>3 DEF Outside
  <1>11. ASSUME NEW unstaged \in BOOLEAN, RollbackFinish(unstaged) PROVE Young' /\ Outside'
    <2> DEFINE d == unstaged /\ ~agent.failed /\ ~ResumeFailed /\ (agent.perform \/ NothingToUndo)
    <2>1. Go("exit") /\ journal' = [journal EXCEPT !.done = d] /\ d \in BOOLEAN
      BY <1>11 DEF RollbackFinish
    <2> HIDE DEF d
    <2> QED BY <1>1, <2>1, OutsideGo, YoungRecord
  <1> QED BY <1>3, <1>4, <1>5, <1>6, <1>7, <1>8, <1>9, <1>10, <1>11 DEF Deciding, UndoTail

LEMMA YoungOperator ==
  ASSUME Fields, Apart, Young, Outside, ~journal.writes, Operator
  PROVE  Young' /\ Outside'
  <1> USE DEF At, Fields
  <1>1. {"exit", "rb", "op_held", "op_guard", "op_go"} \subseteq Early
    BY DEF Early
  <1>2. ~PastNoReturn /\ ~HeldCandidate
    BY DEF Young, Apart, PastNoReturn, HeldCandidate, Unknown, Top, ReopenPending
  <1>3. OpOrphanKept \/ OpOrphan \/ OpNotHeld \/ OpUnguarded \/ OpRefused =>
          /\ journal' = journal
          /\ Go("exit") \/ Go("op_held") \/ Go("op_guard") \/ Go("op_go")
    BY DEF OpOrphanKept, OpOrphan, OpNotHeld, OpUnguarded, OpRefused
  <1>4. OpIntent => journal' = [journal EXCEPT !.pending = TRUE] /\ Go("rb")
    BY <1>2 DEF OpIntent, Outside
  <1>5. ~(OpRelease \/ OpFence)
    BY DEF OpRelease, OpFence, Outside, Early, Undoing
  <1>6. ASSUME NEW seen, OpHeld(seen) PROVE FALSE
    BY <1>2, <1>6 DEF OpHeld
  <1>7. ASSUME NEW clear, OpGuarded(clear) PROVE journal' = journal /\ (Go("op_go") \/ Go("exit"))
    BY <1>7 DEF OpGuarded, OpNeedsGuard, Young
  <1>8. Operator => journal' = journal \/ journal' = [journal EXCEPT !.pending = TRUE]
    BY <1>3, <1>4, <1>5, <1>6, <1>7 DEF Operator
  <1>9. \E l \in {"exit", "rb", "op_held", "op_guard", "op_go"} : Go(l)
    BY <1>3, <1>4, <1>5, <1>6, <1>7 DEF Operator
  <1> QED BY <1>1, <1>8, <1>9, OutsideGo, YoungSame, YoungRecord

LEMMA YoungRest ==
  ASSUME Fields, Young, Outside, Exit \/ Commands \/ World \/ UNCHANGED vars
  PROVE  Young' /\ Outside' /\ journal' = journal
  <1>1. CASE Exit \/ Crash \/ Commands
    <2>1. agent'.back = "off" /\ agent'.rres = "none"
      <3>1. Exit \/ Crash => agent' = NoAgent
        BY DEF Exit, Crash
      <3>2. StartRun => agent'.back = "off" /\ agent'.rres = "none"
        BY DEF StartRun, NoAgent
      <3>3. ASSUME NEW force, NEW fs, StartRollback(force, fs)
            PROVE  agent'.back = "off" /\ agent'.rres = "none"
        BY <3>3 DEF StartRollback, NoAgent
      <3>4. NoAgent.back = "off" /\ NoAgent.rres = "none"
        BY DEF NoAgent
      <3> QED BY <1>1, <3>1, <3>2, <3>3, <3>4 DEF Commands
    <2> QED BY <1>1, <2>1, AgentResets, YoungSame DEF Outside, Early
  <1>2. CASE Others \/ UNCHANGED vars
    <2>1. agent' = agent /\ journal' = journal
      BY <1>2 DEF Others, OrphanRuns, OthersPause, OthersUnpause, NodeosRestart,
           OthersWhitelist, vars
    <2> QED BY <2>1, YoungSame DEF Outside
  <1> QED BY <1>1, <1>2 DEF World, Others

LEMMA WritesStay ==
  ASSUME Fields, journal.writes, [Next]_vars
  PROVE  journal'.writes
  <1> USE DEF Fields, At
  <1>1. ASSUME Busy PROVE journal'.writes
    <2>1. ASSUME NEW s \in JournalStates, Move(s) PROVE journal'.writes
      BY <2>1, MoveFields
    <2>2. ASSUME \/ journal' = [journal EXCEPT !.lock = TRUE]
                 \/ journal' = [journal EXCEPT !.writes = TRUE]
                 \/ \E t : journal' = [journal EXCEPT !.target = t]
                 \/ \E b : journal' = [journal EXCEPT !.pending = b]
          PROVE  journal'.writes
      BY <2>2 DEF JournalRecord
    <2> QED BY <1>1, <2>1, <2>2, BusyRecords
  <1>2. ASSUME UndoTail PROVE journal'.writes
    <2>1. Move("ABORTED") => journal'.writes
      BY MoveFields, States
    <2>2. ASSUME \/ \E b : \/ journal' = [journal EXCEPT !.strand = b]
                          \/ journal' = [journal EXCEPT !.done = b]
                 \/ \E name \in RollbackSteps : journal' = MarkStep(name)
                 \/ \E name \in RollbackSteps : journal' = [MarkStep(name) EXCEPT !.lock = FALSE]
          PROVE  journal'.writes
      BY <2>2 DEF JournalRecord, MarkStep
    <2>3. RollbackResumes => journal' = journal \/ journal' = MarkStep("resume")
      BY DEF RollbackResumes
    <2>4. ASSUME NEW x, RollbackCheck(x) \/ RollbackRecheck(x) \/ RollbackFinish(x)
          PROVE  \/ journal' = journal \/ Move("ABORTED")
                 \/ \E b : \/ journal' = [journal EXCEPT !.strand = b]
                          \/ journal' = [journal EXCEPT !.done = b]
      BY <2>4 DEF RollbackCheck, RollbackRecheck, RollbackFinish
    <2>5. RollbackNoCheck \/ RollbackNothingToReopen \/ NoUnlock \/ NoAbortHook =>
            journal' = journal \/ Move("ABORTED")
      BY DEF RollbackNoCheck, RollbackNothingToReopen, NoUnlock, NoAbortHook
    <2>6. ASSUME NEW applied, NEW ok, Unlock(applied, ok) \/ AbortHookRuns(applied, ok)
          PROVE  \/ journal' = journal \/ journal' = MarkStep("on_abort")
                 \/ journal' = [MarkStep("admission_unlock") EXCEPT !.lock = FALSE]
      BY <2>6 DEF Unlock, AbortHookRuns
    <2> QED BY <1>2, <2>1, <2>2, <2>3, <2>4, <2>5, <2>6, States DEF UndoTail
  <1>3. Exit \/ Commands \/ World \/ UNCHANGED vars => journal' = journal
    BY AgentResets DEF World, OrphanRuns, OthersPause, OthersUnpause, NodeosRestart,
         OthersWhitelist, vars
  <1> QED BY <1>1, <1>2, <1>3, AgentKinds

LEMMA UnwrittenInit == Init => Unwritten /\ Cleared
  BY DEF Init, P!Init, NoAgent, NewJournal, Unwritten, Apart, Young, Outside, Early,
       Undoing,
         Cleared, RolledBack

LEMMA UnwrittenStep ==
  ASSUME FreezeHook, Fields, PathInv, Unwritten, [Next]_vars
  PROVE  Unwritten'
  <1> SUFFICES ASSUME ~journal'.writes PROVE Apart' /\ Young' /\ Outside'
    BY DEF Unwritten
  <1>1. ~journal.writes
    BY WritesStay
  <1>2. Apart /\ Young /\ Outside
    BY <1>1 DEF Unwritten
  <1>3. Apart'
    BY <1>2, ApartStep DEF Outside
  <1>4. ~(Pause \/ Seal \/ Hold \/ Sealed)
    BY <1>2 DEF Outside, Early, Undoing, Pause, Seal, Hold, Sealed, At
  <1>5. Run \/ Operator \/ Deciding \/ UndoTail \/ Exit \/ Commands \/ World \/ UNCHANGED vars
    BY <1>4, AgentKinds DEF Busy
  <1> QED BY <1>1, <1>2, <1>3, <1>5, YoungRun, YoungOperator, YoungUndo, YoungRest

(* Nothing the tail of a rollback does pauses the producer; what it was    *)
(* asked to do and how its resume went are settled before it decides.      *)
LEMMA ClearedTail ==
  ASSUME Fields, EndInv, Unwritten, Cleared, UndoTail, [Next]_vars
  PROVE  Cleared'
  <1> USE DEF At, Fields
  <1>1. pause # "agent" => pause' # "agent"
    BY PausesFrom, TailFrom DEF Pause, Undoing
  <1>2. ~RolledBack
    BY TailFrom DEF EndInv, Ends, RestPlaces, Undoing
  <1>3. ASSUME agent'.pc \in Undoing => agent.pc \in Undoing,
               agent'.perform = agent.perform, agent'.rres = agent.rres,
               RolledBack' => pause' # "agent"
        PROVE  Cleared'
    BY <1>1, <1>3 DEF Cleared, ResumeFailed
  <1>4. RollbackResumes => Cleared'
    <2>1. ASSUME RollbackResumes PROVE agent'.pc \in {"rb_resume", "rb_check"} /\ ~RolledBack'
      <3>1. agent.pc = "rb_resume"
        BY <2>1 DEF RollbackResumes
      <3>2. journal'.state = journal.state /\ journal'.done = journal.done
        BY <2>1, MarkFields, States DEF RollbackResumes
      <3>3. agent' = agent \/ agent' = [agent EXCEPT !.pc = "rb_check", !.rres = answer']
        BY <2>1 DEF RollbackResumes
      <3>4. agent'.pc \in {"rb_resume", "rb_check"}
        BY <3>1, <3>3 DEF AgentRecord
      <3> QED BY <1>2, <3>2, <3>4 DEF RolledBack
    <2> QED BY <2>1 DEF Cleared, Undoing
  <1>5. ASSUME NEW seen \in P!Seen, RollbackCheck(seen) PROVE Cleared'
    <2>1. CASE Seals(seen)
      <3>1. journal' = [journal EXCEPT !.strand = TRUE] /\ (Go("strand") \/ SealThen("stranded"))
        BY <1>5, <2>1 DEF RollbackCheck
      <3>2. journal'.state = journal.state /\ journal'.done = journal.done
        BY <3>1 DEF JournalRecord
      <3>3. agent'.pc \in {"strand", "seal", "hold"}
        BY <3>1, AgentFields, HoldFields DEF Labels, Rets
      <3> QED BY <1>2, <3>2, <3>3 DEF Cleared, RolledBack, Undoing
    <2>2. CASE ~Seals(seen)
      <3>1. /\ Move("ABORTED") /\ P!Read(seen)
            /\ agent' = [agent EXCEPT !.pc = "rb_reopen", !.keep = seen # "producing"]
        BY <1>5, <2>2 DEF RollbackCheck
      <3>2. agent'.perform = agent.perform /\ agent'.rres = agent.rres
        BY <3>1 DEF AgentRecord
      <3>3. ~RolledBack'
        BY <3>1, MoveFields, States DEF RolledBack
      <3>4. agent.perform /\ ~ResumeFailed => seen = "producing"
        BY <2>2 DEF Seals, ResumeFailed, AgentRecord, Outcomes
      <3>5. seen = "producing" => pause' # "agent"
        BY <3>1 DEF P!Read, P!Observe, P!world
      <3> QED BY <3>2, <3>3, <3>4, <3>5 DEF Cleared, ResumeFailed
    <2> QED BY <2>1, <2>2
  <1>6. RollbackNoCheck => Cleared'
    <2>1. ASSUME RollbackNoCheck PROVE Cleared'
      <3>1. Move("ABORTED") /\ Go("rb_reopen") /\ ~MustConfirm
        BY <2>1 DEF RollbackNoCheck
      <3>2. agent'.perform = agent.perform
        BY <3>1, AgentFields DEF Labels
      <3>3. ~RolledBack'
        BY <3>1, MoveFields, States DEF RolledBack
      <3>4. agent.perform => pause # "agent"
        BY <3>1 DEF MustConfirm, Unwritten, Apart
      <3> QED BY <1>1, <3>2, <3>3, <3>4 DEF Cleared
    <2> QED BY <2>1
  <1>7. ASSUME NEW seen, RollbackRecheck(seen) PROVE Cleared'
    <2>1. /\ agent.pc \in Undoing /\ journal' = journal
          /\ \/ agent' = [agent EXCEPT !.pc = "rb_unlock", !.readAt = ext]
             \/ agent' = [agent EXCEPT !.pc = "rb_finish", !.failed = TRUE]
      BY <1>7 DEF RollbackRecheck, Undoing
    <2>2. agent'.perform = agent.perform /\ agent'.rres = agent.rres
      BY <2>1 DEF AgentRecord
    <2> QED BY <1>2, <1>3, <2>1, <2>2 DEF RolledBack
  <1>8. RollbackNothingToReopen \/ NoUnlock \/ NoAbortHook => Cleared'
    <2>1. RollbackNothingToReopen \/ NoUnlock \/ NoAbortHook =>
            /\ agent.pc \in Undoing /\ journal' = journal
            /\ Go("rb_finish") \/ Go("rb_hook")
      BY DEF RollbackNothingToReopen, NoUnlock, NoAbortHook, Undoing
    <2>2. Go("rb_finish") \/ Go("rb_hook") =>
            agent'.perform = agent.perform /\ agent'.rres = agent.rres
      BY AgentFields DEF Labels
    <2> QED BY <1>2, <1>3, <2>1, <2>2 DEF RolledBack
  <1>9. ASSUME NEW applied, NEW ok, Unlock(applied, ok) \/ AbortHookRuns(applied, ok)
        PROVE  Cleared'
    <2>1. /\ agent.pc \in Undoing
          /\ \/ journal' = journal \/ journal' = MarkStep("on_abort")
             \/ journal' = [MarkStep("admission_unlock") EXCEPT !.lock = FALSE]
          /\ \/ agent' = [agent EXCEPT !.pc = "rb_hook", !.failed = agent.failed \/ ~ok]
             \/ agent' = [agent EXCEPT !.pc = "rb_finish", !.failed = agent.failed \/ ~ok]
      BY <1>9 DEF Unlock, AbortHookRuns, Undoing
    <2>2. agent'.perform = agent.perform /\ agent'.rres = agent.rres
      BY <2>1 DEF AgentRecord
    <2>3. journal'.state = journal.state /\ journal'.done = journal.done
      BY <2>1, MarkFields, States DEF JournalRecord
    <2> QED BY <1>2, <1>3, <2>1, <2>2, <2>3 DEF RolledBack
  <1>10. ASSUME NEW unstaged, RollbackFinish(unstaged) PROVE Cleared'
    <2> DEFINE d == unstaged /\ ~agent.failed /\ ~ResumeFailed /\ (agent.perform \/ NothingToUndo)
    <2>1. agent.pc \in Undoing /\ journal' = [journal EXCEPT !.done = d] /\ Go("exit")
      BY <1>10 DEF RollbackFinish, Undoing
    <2>2. d => ~ResumeFailed /\ (agent.perform \/ NothingToUndo)
      OBVIOUS
    <2> HIDE DEF d
    <2>3. journal'.done = d
      BY <2>1 DEF JournalRecord
    <2>4. agent'.pc = "exit"
      BY <2>1, AgentFields DEF Labels
    <2>5. d => pause # "agent"
      BY <2>1, <2>2 DEF Cleared, NothingToUndo, Unwritten, Apart
    <2> QED BY <1>1, <2>3, <2>4, <2>5 DEF Cleared, RolledBack, Undoing
  <1> QED BY <1>4, <1>5, <1>6, <1>7, <1>8, <1>9, <1>10 DEF UndoTail

LEMMA ClearedStep ==
  ASSUME C!IInv, Fields, PathInv, EndInv, Unwritten, Cleared, [Next]_vars
  PROVE  Cleared'
  <1>1. CASE Busy
    <2>1. agent'.pc \notin Undoing
      BY <1>1, SteadyBusy DEF Steady
    <2>2. ASSUME RolledBack' PROVE pause' # "agent"
      <3>1. RolledBack /\ agent.pc \in RestPlaces
        BY <1>1, <2>2, BusyJournal DEF EndInv, Ends
      <3>2. ~Pause
        BY <3>1 DEF Pause, At, RestPlaces
      <3> QED BY <3>1, <3>2, PausesFrom DEF Cleared
    <2> QED BY <2>1, <2>2 DEF Cleared
  <1>2. CASE UndoTail
    BY <1>2, ClearedTail
  <1>3. CASE Exit \/ Crash \/ Commands
    BY <1>3, AgentResets DEF Cleared, RolledBack, Undoing
  <1>4. CASE Others
    BY <1>4, OthersAct, CustodyFacts DEF Cleared, RolledBack, ResumeFailed
  <1>5. CASE UNCHANGED vars
    BY <1>5 DEF vars, custody, Cleared, RolledBack, ResumeFailed
  <1> QED BY <1>1, <1>2, <1>3, <1>4, <1>5, AgentKinds DEF World, Others

(* No pause the agent made is left in place once the journal ends ABORTED, *)
(* rolled back, wherever a freeze hook is configured: its intent record is *)
(* what makes the rollback insist on a read. (Without a hook it is false,  *)
(* as the run of that configuration shows.)                                *)
THEOREM CeremonyLeavesNoOwnPause == FreezeHook => (Spec => []NoOwnPauseLeft)
  <1> SUFFICES ASSUME FreezeHook PROVE Spec => []NoOwnPauseLeft
    OBVIOUS
  <1>1. Cleared => NoOwnPauseLeft
    BY DEF Cleared, NoOwnPauseLeft
  <1>2. /\ C!IInv /\ Fields /\ PathInv /\ EndInv /\ Unwritten /\ Cleared /\ [Next]_vars
          => Unwritten' /\ Cleared'
    BY UnwrittenStep, ClearedStep
  <1> QED BY <1>1, <1>2, UnwrittenInit, Safe, Sound, PTL DEF Spec

===============================================================================
