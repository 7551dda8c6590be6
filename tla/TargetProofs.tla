---------------------------- MODULE TargetProofs ----------------------------
(***************************************************************************)
(* Theorems of Target, for any set of snapshots and any number of deaths.  *)
(* The inductive invariant is built in layers, each with the steps that    *)
(* keep it: the records' fields; the files of the pipeline (CutInv); what  *)
(* is verified, joined and booted (KnownInv); the creation (CreateInv);    *)
(* the edge (EdgeInv); the undo of a rollback (UndoneInv).                 *)
(***************************************************************************)
EXTENDS Target, TLAPS

(***************************************************************************)
(* The records keep their fields.                                          *)
(***************************************************************************)
JournalFields ==
  {"state", "verified", "writes", "steps", "done", "pending", "own", "create",
   "id", "join", "ignite", "unhalted"}
SiteFields  == {"edge", "paused", "moved", "made", "up", "open", "forced"}
AgentFields == {"pc", "seg", "refroze", "paused", "mem", "rres"}
WorkFields  == {"log", "env", "checkpoint", "boot"}
ToolFields  == {"kind", "reads"}

Fields ==
  /\ DOMAIN journal = JournalFields /\ DOMAIN site = SiteFields
  /\ DOMAIN agent = AgentFields
  /\ DOMAIN work = WorkFields /\ DOMAIN tool = ToolFields

LEMMA FieldsInit == Init => Fields
  BY DEF Init, PipelineInit, NoAgent, NoTool, Fields, JournalFields, SiteFields,
         AgentFields, WorkFields, ToolFields

LEMMA FieldsVerify == Fields /\ Verify => Fields'
  <1> SUFFICES ASSUME Fields, Verify PROVE Fields'
    OBVIOUS
  <1>1. UNCHANGED <<journal, agent, site>> /\ PipelineStep
    BY DEF Verify
  <1>2. DOMAIN work' = WorkFields
    BY <1>1 DEF Fields, PipelineStep, Export, Import, StepEnds, Compare,
      BuildBoot,
                StepFails
  <1>3. DOMAIN tool' = ToolFields
    <2>1. CASE Export \/ Import
      BY <2>1 DEF Fields, ToolFields, Export, Import, Starts
    <2>2. CASE StepEnds \/ Compare \/ BuildBoot \/ StepFails
      BY <2>2 DEF Fields, ToolFields, StepEnds, Compare, BuildBoot, StepFails,
        NoTool
    <2> QED  BY <1>1, <2>1, <2>2 DEF PipelineStep
  <1> QED  BY <1>1, <1>2, <1>3 DEF Fields

LEMMA FieldsSteps == Fields /\ Steps /\ ~Verify => Fields'
  <1> SUFFICES ASSUME Fields, Steps, ~Verify PROVE Fields'
    OBVIOUS
  <1> USE DEF Fields, Steps
  <1>1. DOMAIN agent' = AgentFields
    BY DEF AgentFields, NoAgent, Ends, Go, Run, RunRefused, Verified, NotVerified,
      Gate, Refused, Create, CreateHook, Ignite, Ignited, Abort, Reseal, Strand,
      RollbackResume, RollbackNoResume, RollbackCheck, Reopen, NotReopened,
      NothingToReopen, RollbackDone, OpEnds, OpGuarded, OpGoes, Fence, FenceFails,
      Reverified, StartSegment, RefreezeIntent, Refreeze, JoinChecked, JoinRefused,
      RefusedAfterRefreeze, JoinRecord, JoinPause, JoinCommit, Joined
  <1>2. DOMAIN site' = SiteFields
    BY DEF SiteFields, Run, RunRefused, Verified, NotVerified,
      Gate, Refused, Create, CreateHook, Ignite, Ignited, Abort, Reseal, Strand,
      RollbackResume, RollbackNoResume, RollbackCheck, Reopen, NotReopened,
      NothingToReopen, RollbackDone, OpEnds, OpGuarded, OpGoes, Fence, FenceFails,
      Reverified, StartSegment, RefreezeIntent, Refreeze, JoinChecked, JoinRefused,
      JoinRecord, JoinPause, JoinCommit, Joined
  <1>3. DOMAIN journal' = JournalFields
    BY DEF JournalFields, Moved, Move, Segment, Run, RunRefused, Verified, NotVerified,
      Gate, Refused, Create, CreateHook, Ignite, Ignited, Abort, Reseal, Strand,
      RollbackResume, RollbackNoResume, RollbackCheck, Reopen, NotReopened,
      NothingToReopen, RollbackDone, OpEnds, OpGuarded, OpGoes, Fence, FenceFails,
      Reverified, StartSegment, RefreezeIntent, Refreeze, JoinChecked, JoinRefused,
      RefusedAfterRefreeze, JoinRecord, JoinPause, JoinCommit, Joined
  <1>4. DOMAIN work' = WorkFields /\ DOMAIN tool' = ToolFields
    BY DEF NoTool, Killed, ToolFields, pipeline, Run, RunRefused, Verified, NotVerified,
      Gate, Refused, Create, CreateHook, Ignite, Ignited, Abort, Reseal, Strand,
      RollbackResume, RollbackNoResume, RollbackCheck, Reopen, NotReopened,
      NothingToReopen, RollbackDone, OpEnds, OpGuarded, OpGoes, Fence, FenceFails,
      Reverified, StartSegment, RefreezeIntent, Refreeze, JoinChecked, JoinRefused,
      JoinRecord, JoinPause, JoinCommit, Joined
  <1> QED  BY <1>1, <1>2, <1>3, <1>4

LEMMA FieldsCommands == Fields /\ Commands => Fields'
  BY DEF Fields, Commands, StartRun, StartRollback, Unhalt, ResumeJoin, Join,
    JoinReverify, Reverifies, Go, Moved, NoAgent, Killed, NoTool, pipeline,
    JournalFields, AgentFields, ToolFields

LEMMA FieldsWorld == Fields /\ World => Fields'
  <1> SUFFICES ASSUME Fields, World PROVE Fields'
    OBVIOUS
  <1> USE DEF Fields
  <1>1. CASE Crash
    BY <1>1 DEF Crash, Dies, Killed, NoTool, Ends, NoAgent, AgentFields,
      ToolFields
  <1>2. CASE ToolRuns
    BY <1>2 DEF ToolRuns, ToolWorks, NoTool, WorkFields, ToolFields
  <1>3. CASE HookRuns
    BY <1>3 DEF HookRuns, NoTool, SiteFields, ToolFields
  <1>4. CASE HoldSealed \/ OthersPause \/ Unpaused \/ Produces
    BY <1>4 DEF HoldSealed, OthersPause, Unpaused, Produces, pipeline, SiteFields
  <1> QED  BY <1>1, <1>2, <1>3, <1>4 DEF World

LEMMA FieldsNext == Fields /\ [Next]_vars => Fields'
  <1>1. Fields /\ UNCHANGED vars => Fields'
    BY DEF Fields, vars, pipeline
  <1> QED
    BY <1>1, FieldsVerify, FieldsSteps, FieldsCommands, FieldsWorld DEF Next

(***************************************************************************)
(* The files a verification goes by: what counts as exported is a whole    *)
(* log; past the import gate it is the cut's, and so is what the import    *)
(* makes of it; past the comparison no tool runs that could rewrite it.    *)
(***************************************************************************)
Verifying == agent.pc \in {"verify", "jverify"}

CutInv ==
  /\ work.env => \E s \in Snapshot : work.log = Whole(s)
  /\ stage # "off" => Verifying
  /\ stage \in {"exported", "import", "imported"} => work.env
  /\ stage \in {"import", "imported"} => work.log = Whole(Cut)
  /\ tool.kind = "import" => tool.reads = Whole(Cut)
  /\ stage \in {"imported", "compared", "ok"} => tool.kind = "none"
  /\ stage \in {"compared", "ok"} => work.checkpoint = Whole(Cut)
  /\ stage = "ok" => work.boot = Whole(Cut)

LEMMA WholeOf == \A s : Whole(s).of = s /\ Whole(s).whole
  BY DEF Whole

LEMMA WholeFile == \A s \in Snapshot : Whole(s) # Nothing
  <1>1. \A s \in Snapshot : Whole(s) \in [of : Snapshot, whole : BOOLEAN]
    BY DEF Whole
  <1> QED  BY <1>1, PipelineAssumption

LEMMA CutInit == Init => CutInv
  <1> SUFFICES ASSUME Init PROVE CutInv
    OBVIOUS
  <1>1. work.env => \E s \in Snapshot : work.log = Whole(s)
    <2>1. \A f \in [of : Snapshot, whole : BOOLEAN] :
            f.whole => f = Whole(f.of) /\ f.of \in Snapshot
      BY DEF Whole
    <2> QED  BY <2>1 DEF Init, PipelineInit, File
  <1> QED  BY <1>1 DEF Init, PipelineInit, NoTool, CutInv

LEMMA CutVerify == Fields /\ CutInv /\ Verify => CutInv'
  <1> SUFFICES ASSUME Fields, CutInv, Verify PROVE CutInv'
    OBVIOUS
  <1> USE DEF Fields, WorkFields, ToolFields, CutInv, Verifying
  <1>0. PipelineStep /\ Verifying /\ Verifying'
    BY DEF Verify
  <1>1. CASE Export
    <2>1. CASE Reusable
      BY <1>0, <1>1, <2>1 DEF Export, Reusable
    <2>2. CASE ~Reusable
      <3>1. work'.env = FALSE
        BY <1>1, <2>2 DEF Export
      <3>2. stage' \in {"failed", "export"} /\ (tool' = tool \/ tool'.kind # "import")
        <4>1. CASE tool.kind = "export"
          BY <1>1, <2>2, <4>1 DEF Export
        <4>2. CASE tool.kind # "export"
          BY <1>1, <2>2, <4>2 DEF Export, Starts, Running
        <4> QED  BY <4>1, <4>2
      <3> QED  BY <1>0, <3>1, <3>2
    <2> QED  BY <2>1, <2>2
  <1>2. CASE Import
    BY <1>0, <1>2, WholeOf DEF Import, Starts, Running, NoTool
  <1>3. CASE StepEnds
    BY <1>0, <1>3 DEF StepEnds, Running, Reusable
  <1>4. CASE Compare \/ BuildBoot
    BY <1>0, <1>4 DEF Compare, BuildBoot
  <1>5. CASE StepFails
    BY <1>0, <1>5 DEF StepFails, NoTool
  <1> QED  BY <1>0, <1>1, <1>2, <1>3, <1>4, <1>5 DEF PipelineStep

\* All other steps of a command leave the files and the tools alone.
LEMMA Quiet ==
  ASSUME Fields, Steps, ~Verify, ~Run, ~Verified, ~NotVerified, ~Reverified
  PROVE  UNCHANGED pipeline /\ ~Verifying
  BY DEF Steps, Verifying, At, RunRefused,
      Gate, Refused, Create, CreateHook, Ignite, Ignited, Abort, Reseal, Strand,
      RollbackResume, RollbackNoResume, RollbackCheck, Reopen, NotReopened,
      NothingToReopen, RollbackDone, OpEnds, OpGuarded, OpGoes, Fence, FenceFails,
      StartSegment, RefreezeIntent, Refreeze, JoinChecked, JoinRefused,
      JoinRecord, JoinPause, JoinCommit, Joined

LEMMA CutSteps == Fields /\ CutInv /\ Steps /\ ~Verify => CutInv'
  <1> SUFFICES ASSUME Fields, CutInv, Steps, ~Verify PROVE CutInv'
    OBVIOUS
  <1> USE DEF Fields, AgentFields, CutInv, Verifying, At
  <1>1. CASE Run
    BY <1>1 DEF Run, Killed, NoTool, Go, Ends
  <1>2. CASE Verified \/ NotVerified \/ Reverified
    BY <1>2 DEF Verified, NotVerified, Reverified
  <1>3. CASE ~Run /\ ~Verified /\ ~NotVerified /\ ~Reverified
    BY <1>3, Quiet DEF pipeline
  <1> QED  BY <1>1, <1>2, <1>3

LEMMA CutCommands == Fields /\ CutInv /\ Commands => CutInv'
  <1> SUFFICES ASSUME Fields, CutInv, Commands PROVE CutInv'
    OBVIOUS
  <1> USE DEF Fields, AgentFields, CutInv, Verifying, At
  <1>1. CASE StartRollback
    BY <1>1 DEF StartRollback, Killed, NoTool
  <1>2. CASE JoinReverify
    BY <1>2 DEF JoinReverify, Reverifies, Joinable, Go
  <1>3. CASE StartRun \/ Unhalt \/ ResumeJoin \/ Join
    BY <1>3 DEF StartRun, Unhalt, ResumeJoin, Join, Joinable, pipeline
  <1> QED  BY <1>1, <1>2, <1>3 DEF Commands

LEMMA CutWorld == Fields /\ CutInv /\ World => CutInv'
  <1> SUFFICES ASSUME Fields, CutInv, World PROVE CutInv'
    OBVIOUS
  <1> USE DEF Fields, WorkFields, ToolFields, CutInv, Verifying
  <1>1. CASE Crash
    <2>1. tool' = tool \/ tool'.kind # "import"
      BY <1>1 DEF Crash, Dies, Killed, NoTool, HookOf
    <2> QED  BY <1>1, <2>1 DEF Crash, Dies
  <1>2. CASE ToolRuns
    <2>1. \/ work'.log = Whole(Cut) /\ work'.env = TRUE
          \/ work'.log = work.log /\ work'.env = work.env
      BY <1>2 DEF ToolRuns, ToolWorks
    <2>2. work'.checkpoint = work.checkpoint \/ tool.kind = "import"
      BY <1>2 DEF ToolRuns, ToolWorks
    <2>3. work'.boot = work.boot /\ (tool' = tool \/ tool' = NoTool)
      BY <1>2 DEF ToolRuns, ToolWorks
    <2>4. stage' = stage /\ agent' = agent
      BY <1>2 DEF ToolRuns, ToolWorks
    <2> QED  BY <2>1, <2>2, <2>3, <2>4, PipelineAssumption DEF NoTool
  <1>3. CASE HookRuns
    BY <1>3 DEF HookRuns, NoTool
  <1>4. CASE HoldSealed \/ OthersPause \/ Unpaused \/ Produces
    BY <1>4 DEF HoldSealed, OthersPause, Unpaused, Produces, pipeline
  <1> QED  BY <1>1, <1>2, <1>3, <1>4 DEF World

LEMMA CutNext == Fields /\ CutInv /\ [Next]_vars => CutInv'
  <1>1. CutInv /\ UNCHANGED vars => CutInv'
    BY DEF CutInv, Verifying, vars, pipeline
  <1> QED
    BY <1>1, CutVerify, CutSteps, CutCommands, CutWorld DEF Next

(***************************************************************************)
(* What the records and the longer steps of a command do.                  *)
(***************************************************************************)
\* A transition record keeps all but what it is about.
LEMMA MovedIs ==
  ASSUME NEW j, DOMAIN j = JournalFields, NEW s
  PROVE  /\ Moved(j, s).state = s /\ Moved(j, s).verified = j.verified
         /\ Moved(j, s).join = j.join /\ Moved(j, s).create = j.create
         /\ Moved(j, s).ignite => j.ignite \/ s \in {"LIVE", "HALTED"}
  BY DEF Moved, JournalFields

LEMMA MovedAlso ==
  ASSUME NEW j, DOMAIN j = JournalFields, NEW s
  PROVE  /\ Moved(j, s).writes = j.writes /\ Moved(j, s).id = j.id
         /\ Moved(j, s).own = j.own /\ ~Moved(j, s).done
         /\ "on_abort" \in Moved(j, s).steps => "on_abort" \in j.steps
         /\ s = "ABORTED" => Moved(j, s).steps = j.steps
         /\ j.ignite => Moved(j, s).ignite
  BY DEF Moved, JournalFields

LEMMA SegmentIs ==
  ASSUME NEW j, DOMAIN j = JournalFields
  PROVE  /\ Segment(j).state = j.state /\ Segment(j).verified = j.verified
         /\ Segment(j).join = j.join /\ Segment(j).create = j.create
         /\ Segment(j).ignite = j.ignite /\ Segment(j).own = j.own
         /\ Segment(j).id = j.id
         /\ Segment(j).done = FALSE /\ Segment(j).steps = {}
         /\ Segment(j).writes <=> (j.writes /\ "on_abort" \notin j.steps)
  BY DEF Segment, JournalFields

LEMMA RefusedIs ==
  ASSUME Fields, RefusedAfterRefreeze
  PROVE  /\ agent' = NoAgent /\ journal'.state = journal.state
         /\ UNCHANGED <<journal.verified, journal.create, journal.join, journal.ignite>>
         /\ ~journal'.done /\ "on_abort" \notin journal'.steps
         /\ UNCHANGED <<journal.writes, journal.own>>
  BY DEF Fields, JournalFields, RefusedAfterRefreeze, Ends

LEMMA RunIs ==
  ASSUME Fields, Run
  PROVE  /\ agent.pc = "run" /\ tool'.kind = "none" /\ UNCHANGED site
         /\ \/ InDoubt /\ journal' = Moved(journal, "HALTED") /\ agent' = NoAgent
            \/ UNCHANGED journal /\ agent' = NoAgent
            \/ /\ UNCHANGED journal /\ agent'.pc = "verify"
               /\ journal.state = "SNAPSHOTTED"
            \/ /\ UNCHANGED journal /\ agent'.pc = "verified"
               /\ journal.state = "VERIFIED"
            \/ /\ UNCHANGED journal /\ agent'.pc = "reseal"
               /\ journal.state = "STRANDED"
  <1>1. agent.pc = "run" /\ tool'.kind = "none" /\ UNCHANGED site
    BY DEF Run, At, Killed, NoTool
  <1>2. CASE InDoubt
    BY <1>1, <1>2 DEF Run, Move, Ends
  <1>3. CASE ~InDoubt
    BY <1>1, <1>3 DEF Run, Go, Ends, Fields, AgentFields
  <1> QED  BY <1>2, <1>3

LEMMA ReverifiedIs ==
  ASSUME Fields, Reverified
  PROVE  /\ agent.pc = "jverify" /\ UNCHANGED <<journal, site, tool>>
         /\ \/ agent' = NoAgent
            \/ agent'.pc = "jfreeze" /\ agent'.seg = agent.seg
  <1>1. CASE stage = "ok"
    BY <1>1 DEF Reverified, At, Fields, AgentFields
  <1>2. CASE stage # "ok"
    BY <1>2 DEF Reverified, At, Ends
  <1> QED  BY <1>1, <1>2

LEMMA SegmentStarts ==
  ASSUME Fields, StartSegment
  PROVE  /\ agent.pc = "jfreeze" /\ UNCHANGED <<site, tool>>
         /\ UNCHANGED <<journal.state, journal.create, journal.join, journal.ignite,
                        journal.own>>
         /\ \/ /\ journal.state = "ABORTED" /\ agent'.pc = "jintent"
               /\ ~journal'.done /\ journal'.steps = {}
               /\ (journal'.writes <=> journal.writes /\ "on_abort" \notin journal.steps)
            \/ /\ journal.state # "ABORTED" /\ agent'.pc = "jcheck"
               /\ journal' = journal /\ agent'.seg = agent.seg
  <1>1. CASE journal.state = "ABORTED"
    <2>1. DOMAIN journal = JournalFields
      BY DEF Fields
    <2>2. journal' = Segment(journal)
      BY <1>1 DEF StartSegment, Reopened
    <2>3. agent.pc = "jfreeze" /\ agent'.pc = "jintent" /\ UNCHANGED <<site, tool>>
      BY <1>1 DEF StartSegment, Reopened, At, pipeline, Fields, AgentFields
    <2> QED  BY <1>1, <2>1, <2>2, <2>3, SegmentIs
  <1>2. CASE journal.state # "ABORTED"
    BY <1>2 DEF StartSegment, Reopened, At, Go, pipeline, Fields, AgentFields
  <1> QED  BY <1>1, <1>2
(***************************************************************************)
(* What the journal calls verified, what a join holds, and what runs.      *)
(***************************************************************************)
JoinPcs ==
  {"jfreeze", "jcheck", "jintent", "jhook", "jcommit", "jpause", "jmark", "jmove"}
Known == journal.verified # Nothing \/ agent.mem # Nothing
Committed == PastNoReturn \/ journal.state = "VERIFIED"

KnownInv ==
  /\ journal.verified \in {Nothing, Whole(Cut)}
  /\ agent.mem \in {Nothing, Whole(Cut)}
  /\ agent.pc = "off" => agent.mem = Nothing
  /\ Known => /\ work.checkpoint = Whole(Cut) /\ tool.kind # "import"
              /\ ~Verifying /\ journal.state # "SNAPSHOTTED"
  /\ agent.pc \in JoinPcs => agent.mem # Nothing
  /\ agent.pc \in JoinPcs \cup {"jverify"} => journal.state # "SNAPSHOTTED"
  /\ Committed \/ agent.pc \in {"verified", "create", "creating", "ignite",
                                "igniting", "jmark", "jmove"}
       => journal.verified # Nothing
  /\ agent.pc \in {"jcommit", "jpause", "jmark", "jmove"} => agent.mem = fleet
  /\ agent.pc \in {"jpause", "jmark", "jmove"} => journal.verified = agent.mem
  /\ journal.join => journal.verified = fleet /\ journal.verified # Nothing
  /\ site.up # Nothing => site.up = journal.verified

LEMMA KnownInit == Init => KnownInv
  BY DEF Init, Committed, PastNoReturn, PipelineInit, NoAgent, KnownInv, Known, JoinPcs

LEMMA KnownVerify == Fields /\ CutInv /\ KnownInv /\ Verify => KnownInv'
  BY DEF Verify, KnownInv, Known, Committed, PastNoReturn, Verifying

\* A step that goes to none of the places the invariant is about.
Elsewhere ==
  /\ work' = work /\ (tool' = tool \/ tool'.kind # "import")
  /\ journal'.verified = journal.verified /\ journal'.join = journal.join
  /\ journal'.state = "SNAPSHOTTED" => journal.state = "SNAPSHOTTED"
  /\ Committed' => Committed
  /\ site'.up \in {site.up, Nothing} /\ fleet' = fleet
  /\ agent'.mem = Nothing \/ (agent'.mem = agent.mem /\ agent'.pc # "off")
  /\ agent'.pc \notin JoinPcs \cup {"verified", "create", "creating", "ignite",
                                   "igniting", "verify", "jverify"}

LEMMA KnownElsewhere == KnownInv /\ Elsewhere => KnownInv'
  BY DEF KnownInv, Known, Elsewhere, JoinPcs, Verifying

LEMMA KnownSteps ==
  Fields /\ CutInv /\ KnownInv /\ Steps /\ ~Verify => KnownInv'
  <1> SUFFICES ASSUME Fields, CutInv, KnownInv, Steps, ~Verify PROVE KnownInv'
    OBVIOUS
  <1> USE DEF Fields, AgentFields, JournalFields, SiteFields
  <1>1. CASE Run
    <2>1. CASE agent'.pc = "verify"
      BY <1>1, <2>1, MovedIs DEF Run, Killed, NoTool, Go, At, Ends, NoAgent,
        KnownInv,
           Known, Committed, PastNoReturn, Verifying, JoinPcs
    <2>3. CASE agent'.pc = "verified"
      BY <1>1, <2>3 DEF Run, Killed, NoTool, Go, At, Ends, NoAgent, KnownInv,
           Known, Committed, PastNoReturn, Verifying, JoinPcs
    <2>2. CASE agent'.pc \notin {"verify", "verified"}
      <3>1. CASE InDoubt
        <4>1. PastNoReturn
          BY <3>1 DEF InDoubt, PastNoReturn
        <4>2. /\ journal' = Moved(journal, "HALTED") /\ agent' = NoAgent
              /\ tool' = NoTool /\ UNCHANGED <<work, site, fleet>>
          BY <1>1, <3>1 DEF Run, Killed, Move, Ends
        <4> QED  BY <4>1, <4>2, MovedIs, KnownElsewhere DEF NoTool, NoAgent, Elsewhere,
                   Committed, JoinPcs
      <3>2. CASE ~InDoubt
        <4>1. /\ UNCHANGED <<work, journal, site, fleet>> /\ tool' = NoTool
              /\ \/ agent' = NoAgent
                 \/ agent' = [agent EXCEPT !.pc = "reseal"]
          BY <1>1, <2>2, <3>2 DEF Run, Killed, Go, Ends
        <4> QED  BY <4>1, KnownElsewhere DEF NoTool, NoAgent, Elsewhere, Committed,
                   PastNoReturn, JoinPcs
      <3> QED  BY <3>1, <3>2
    <2> QED  BY <2>1, <2>2, <2>3
  <1>2. CASE RunRefused
    <2>1. Elsewhere
      BY <1>2 DEF RunRefused, Ends, pipeline, NoAgent, Elsewhere, Committed,
        PastNoReturn, JoinPcs
    <2> QED  BY <2>1, KnownElsewhere
  <1>3. CASE NotVerified
    <2>1. Elsewhere
      BY <1>3 DEF NotVerified, Go, Elsewhere, Committed, PastNoReturn, JoinPcs
    <2> QED  BY <2>1, KnownElsewhere
  <1>4. CASE Verified
    BY <1>4, WholeFile, PipelineAssumption, MovedIs DEF Verified, CutInv, Go, At,
         KnownInv, Known, Committed, PastNoReturn, Verifying, JoinPcs, Moved
  <1>5. CASE Reverified
    <2>1. CASE stage = "ok"
      <3>1. /\ work.boot = Whole(Cut) /\ work.checkpoint = Whole(Cut)
            /\ tool.kind = "none" /\ Whole(Cut) # Nothing
        BY <2>1, WholeFile, PipelineAssumption DEF CutInv
      <3>2. /\ agent'.mem = Whole(Cut) /\ agent'.pc = "jfreeze" /\ agent.pc = "jverify"
            /\ UNCHANGED <<work, tool, journal, site, fleet>>
        BY <1>5, <2>1, <3>1 DEF Reverified, At
      <3> QED  BY <3>1, <3>2 DEF KnownInv, Known, Committed, PastNoReturn,
        Verifying, JoinPcs
    <2>2. CASE stage # "ok"
      <3>1. Elsewhere
        BY <1>5, <2>2 DEF Reverified, Ends, NoAgent, Elsewhere, Committed,
          PastNoReturn, JoinPcs
      <3> QED  BY <3>1, KnownElsewhere
    <2> QED  BY <2>1, <2>2
  <1>6. CASE Refused
    <2>1. Elsewhere
      BY <1>6 DEF Refused, Go, pipeline, Elsewhere, Committed, PastNoReturn,
        JoinPcs
    <2> QED  BY <2>1, KnownElsewhere
  <1>7. CASE Gate
    BY <1>7 DEF Gate, Go, pipeline, At, KnownInv, Known, Committed, PastNoReturn,
      Verifying, JoinPcs
  <1>8. CASE Create
    BY <1>8 DEF Create, Go, pipeline, At, KnownInv, Known, Committed,
      PastNoReturn, Verifying, JoinPcs
  <1>9. ASSUME NEW e \in BOOLEAN, NEW ok \in BOOLEAN, CreateHook(e, ok)
        PROVE  KnownInv'
    BY <1>9 DEF CreateHook, Go, pipeline, At, KnownInv, Known, Committed,
      PastNoReturn, Verifying, JoinPcs
  <1>10. CASE Ignite
    BY <1>10 DEF Ignite, Go, pipeline, At, KnownInv, Known, Committed,
      PastNoReturn, Verifying, JoinPcs
  <1>11. ASSUME NEW e \in BOOLEAN, NEW ok \in BOOLEAN, Ignited(e, ok)
        PROVE  KnownInv'
    BY <1>11, MovedIs DEF Ignited, Go, Move, Ends, NoAgent, pipeline, At,
      KnownInv, Known, Committed, PastNoReturn, Verifying, JoinPcs
  <1>12. ASSUME NEW ok \in BOOLEAN, Abort(ok)
        PROVE  KnownInv'
    <2>1. Elsewhere
      BY <1>12, MovedIs DEF Abort, Move, Go, Ends, pipeline, NoAgent, Elsewhere,
        Committed, PastNoReturn, JoinPcs
    <2> QED  BY <2>1, KnownElsewhere
  <1>13. ASSUME NEW ok \in BOOLEAN, RollbackResume(ok)
        PROVE  KnownInv'
    <2>1. /\ journal'.state = journal.state /\ site'.up = site.up
          /\ UNCHANGED <<journal.verified, journal.create, journal.join, journal.ignite>>
      BY <1>13 DEF RollbackResume
    <2>2. /\ agent'.pc = "rb_check" /\ agent'.mem = agent.mem
          /\ UNCHANGED <<work, tool, fleet>>
      BY <1>13 DEF RollbackResume, pipeline
    <2>3. Elsewhere
      BY <2>1, <2>2 DEF Elsewhere, Committed, PastNoReturn, JoinPcs
    <2> QED  BY <2>3, KnownElsewhere
  <1>14. CASE RollbackNoResume
    <2>1. Elsewhere
      BY <1>14 DEF RollbackNoResume, Go, pipeline, Elsewhere, Committed,
        PastNoReturn, JoinPcs
    <2> QED  BY <2>1, KnownElsewhere
  <1>15. ASSUME NEW seen \in {"paused", "producing", "unreadable"}, RollbackCheck(seen)
        PROVE  KnownInv'
    <2>1. Elsewhere
      BY <1>15, MovedIs DEF RollbackCheck, Move, Go, pipeline, Elsewhere,
        Committed, PastNoReturn, JoinPcs
    <2> QED  BY <2>1, KnownElsewhere
  <1>16. ASSUME NEW e \in BOOLEAN, NEW ok \in BOOLEAN, Reopen(e, ok)
        PROVE  KnownInv'
    <2>1. Elsewhere
      BY <1>16 DEF Reopen, Go, Ends, pipeline, NoAgent, Elsewhere, Committed,
        PastNoReturn, JoinPcs
    <2> QED  BY <2>1, KnownElsewhere
  <1>17. CASE NotReopened \/ NothingToReopen
    <2>1. Elsewhere
      BY <1>17 DEF NotReopened, NothingToReopen, Go, Ends, pipeline, NoAgent,
        Elsewhere, Committed, PastNoReturn, JoinPcs
    <2> QED  BY <2>1, KnownElsewhere
  <1>18. CASE RollbackDone
    <2>1. Elsewhere
      BY <1>18 DEF RollbackDone, Ends, pipeline, NoAgent, Elsewhere, Committed,
        PastNoReturn, JoinPcs
    <2> QED  BY <2>1, KnownElsewhere
  <1>19. CASE Reseal
    <2>1. Elsewhere
      BY <1>19 DEF Reseal, Ends, pipeline, NoAgent, Elsewhere, Committed,
        PastNoReturn, JoinPcs
    <2> QED  BY <2>1, KnownElsewhere
  <1>20. CASE Strand
    <2>1. Elsewhere
      BY <1>20, MovedIs DEF Strand, Ends, pipeline, NoAgent, Elsewhere, Committed,
        PastNoReturn, JoinPcs
    <2> QED  BY <2>1, KnownElsewhere
  <1>21. CASE OpEnds \/ FenceFails
    <2>1. Elsewhere
      BY <1>21 DEF OpEnds, FenceFails, Ends, pipeline, NoAgent, Elsewhere,
        Committed, PastNoReturn, JoinPcs
    <2> QED  BY <2>1, KnownElsewhere
  <1>22. CASE OpGuarded
    <2>1. Elsewhere
      BY <1>22 DEF OpGuarded, Go, pipeline, Elsewhere, Committed, PastNoReturn,
        JoinPcs
    <2> QED  BY <2>1, KnownElsewhere
  <1>23. CASE OpGoes
    <2>1. Elsewhere
      BY <1>23 DEF OpGoes, Go, pipeline, Elsewhere, Committed, PastNoReturn,
        JoinPcs
    <2> QED  BY <2>1, KnownElsewhere
  <1>24. CASE Fence
    <2>1. Elsewhere
      BY <1>24 DEF Fence, Go, pipeline, Elsewhere, Committed, PastNoReturn,
        JoinPcs
    <2> QED  BY <2>1, KnownElsewhere
  <1>25. CASE StartSegment
    <2>1. /\ journal'.state = journal.state
          /\ UNCHANGED <<journal.verified, journal.create, journal.join, journal.ignite>>
      BY <1>25 DEF StartSegment, Segment
    <2>2. /\ agent'.pc \in {"jintent", "jcheck"} /\ agent'.mem = agent.mem
          /\ agent.pc = "jfreeze" /\ UNCHANGED <<work, tool, site, fleet>>
      BY <1>25 DEF StartSegment, Go, At, pipeline
    <2> QED
      BY <2>1, <2>2 DEF KnownInv, Known, Committed, PastNoReturn, Verifying, JoinPcs
  <1>26. CASE RefreezeIntent
    BY <1>26 DEF RefreezeIntent, Go, pipeline, At, KnownInv, Known, Committed,
      PastNoReturn, Verifying, JoinPcs
  <1>27. ASSUME NEW e \in BOOLEAN, NEW ok \in BOOLEAN, Refreeze(e, ok)
        PROVE  KnownInv'
    <2>1. CASE ok
      BY <1>27, <2>1 DEF Refreeze, Go, pipeline, At, KnownInv, Known, Committed,
        PastNoReturn, Verifying, JoinPcs
    <2>2. CASE ~ok
      <3>0. RefusedAfterRefreeze /\ UNCHANGED <<work, tool, fleet>> /\ site'.up = site.up
        BY <1>27, <2>2 DEF Refreeze, pipeline
      <3>1. Elsewhere
        BY <3>0, RefusedIs DEF NoAgent, Elsewhere, Committed, PastNoReturn,
          JoinPcs
      <3> QED  BY <3>1, KnownElsewhere
    <2> QED  BY <2>1, <2>2
  <1>28. CASE JoinChecked
    BY <1>28 DEF JoinChecked, QuorumLive, pipeline, At, KnownInv, Known,
      Committed, PastNoReturn, Verifying, JoinPcs
  <1>29. CASE JoinRefused
    <2>0. /\ UNCHANGED <<work, tool, site, fleet>>
          /\ RefusedAfterRefreeze \/ (agent' = NoAgent /\ UNCHANGED journal)
      BY <1>29 DEF JoinRefused, Ends, pipeline
    <2>1. Elsewhere
      BY <2>0, RefusedIs DEF NoAgent, Elsewhere, Committed, PastNoReturn, JoinPcs
    <2> QED  BY <2>1, KnownElsewhere
  <1>30. CASE JoinRecord
    BY <1>30 DEF JoinRecord, Segment, Go, pipeline, At, KnownInv, Known,
      Committed, PastNoReturn, Verifying, JoinPcs
  <1>31. ASSUME NEW e \in BOOLEAN, NEW ok \in BOOLEAN, JoinPause(e, ok)
        PROVE  KnownInv'
    BY <1>31 DEF JoinPause, Go, Ends, NoAgent, pipeline, At, KnownInv, Known,
      Committed, PastNoReturn, Verifying, JoinPcs
  <1>32. CASE JoinCommit
    BY <1>32 DEF JoinCommit, Go, pipeline, At, KnownInv, Known, Committed,
      PastNoReturn, Verifying, JoinPcs
  <1>33. CASE Joined
    <2>1. /\ journal'.verified = journal.verified /\ journal'.join = journal.join
          /\ journal'.state = "VERIFIED"
      BY <1>33, MovedIs DEF Joined
    <2>2. /\ agent.pc = "jmove" /\ agent'.pc = "run" /\ agent'.mem = agent.mem
          /\ UNCHANGED <<work, tool, site, fleet>>
      BY <1>33 DEF Joined, At, Go, pipeline
    <2> QED
      BY <2>1, <2>2 DEF KnownInv, Known, Committed, PastNoReturn, Verifying, JoinPcs
  <1> QED
    BY <1>1, <1>2, <1>3, <1>4, <1>5, <1>6, <1>7, <1>8, <1>9, <1>10, <1>11,
      <1>12, <1>13, <1>14, <1>15, <1>16, <1>17, <1>18, <1>19, <1>20, <1>21,
      <1>22, <1>23, <1>24, <1>25, <1>26, <1>27, <1>28, <1>29, <1>30, <1>31,
      <1>32, <1>33
    DEF Steps

LEMMA KnownCommands == Fields /\ CutInv /\ KnownInv /\ Commands => KnownInv'
  <1> SUFFICES ASSUME Fields, CutInv, KnownInv, Commands PROVE KnownInv'
    OBVIOUS
  <1> USE DEF Fields, AgentFields, JournalFields, KnownInv, Known, Committed,
    PastNoReturn, Verifying, JoinPcs, At, Go, NoAgent, Moved, pipeline
  <1>1. CASE StartRun \/ StartRollback
    BY <1>1 DEF StartRun, StartRollback, Killed, NoTool
  <1>5. CASE Unhalt
    BY <1>5 DEF Unhalt
  <1>2. CASE ResumeJoin
    BY <1>2 DEF ResumeJoin
  <1>3. CASE Join
    BY <1>3 DEF Join, Joinable
  <1>4. CASE JoinReverify
    <2>1. /\ journal.verified = Nothing /\ journal.state \in {"STRANDED", "ABORTED"}
          /\ agent.pc = "off" /\ agent'.pc = "jverify" /\ agent'.mem = agent.mem
          /\ UNCHANGED <<work, tool, journal, site, fleet>>
      BY <1>4 DEF JoinReverify, Reverifies, Joinable
    <2> QED  BY <2>1
  <1> QED  BY <1>1, <1>2, <1>3, <1>4, <1>5 DEF Commands

LEMMA KnownWorld == Fields /\ CutInv /\ KnownInv /\ World => KnownInv'
  <1> SUFFICES ASSUME Fields, CutInv, KnownInv, World PROVE KnownInv'
    OBVIOUS
  <1> USE DEF Fields, WorkFields, ToolFields, SiteFields, KnownInv, Known,
    Committed, PastNoReturn, Verifying, JoinPcs
  <1>1. CASE Crash
    <2>1. tool' = tool \/ tool'.kind # "import"
      BY <1>1 DEF Crash, Dies, Killed, NoTool, HookOf
    <2> QED  BY <1>1, <2>1 DEF Crash, Ends, NoAgent
  <1>2. CASE ToolRuns
    <2>1. work'.checkpoint = work.checkpoint \/ tool.kind = "import"
      BY <1>2 DEF ToolRuns, ToolWorks
    <2>2. tool' = tool \/ tool' = NoTool
      BY <1>2 DEF ToolRuns, ToolWorks
    <2> QED  BY <1>2, <2>1, <2>2 DEF ToolRuns, NoTool
  <1>3. CASE HookRuns
    BY <1>3 DEF HookRuns, NoTool
  <1>4. CASE HoldSealed \/ OthersPause \/ Unpaused \/ Produces
    BY <1>4 DEF HoldSealed, OthersPause, Unpaused, Produces, pipeline
  <1> QED  BY <1>1, <1>2, <1>3, <1>4 DEF World
LEMMA KnownNext == Fields /\ CutInv /\ KnownInv /\ [Next]_vars => KnownInv'
  <1>1. KnownInv /\ UNCHANGED vars => KnownInv'
    BY DEF KnownInv, Known, Committed, PastNoReturn, Verifying, JoinPcs, vars, pipeline
  <1> QED
    BY <1>1, KnownVerify, KnownSteps, KnownCommands, KnownWorld DEF Next

(***************************************************************************)
(* One creation: a chain that may have been made was asked for, and until  *)
(* a join or a forced rollback nothing leads back from it.                 *)
(***************************************************************************)
CreatePcs == {"verified", "create", "creating", "ignite", "igniting"}

CreateInv ==
  /\ site.made \in {0, 1}
  /\ site.made = 1 => journal.create /\ agent.pc # "creating" /\ tool.kind # "create"
  /\ agent.pc = "creating" \/ tool.kind = "create" => journal.create
  /\ agent.pc = "creating" => tool.kind # "create"
  /\ journal.create /\ ~journal.join /\ ~site.forced =>
       /\ journal.state \notin {"STRANDED", "ABORTED"}
       /\ agent.pc \notin {"strand", "rb", "rb_check"} \cup JoinPcs
  /\ journal.join => /\ journal.create
                     /\ \/ site.forced
                        \/ /\ site.made = 0
                           /\ tool.kind # "create" /\ agent.pc # "creating"
  /\ agent.pc = "verify" => journal.state = "SNAPSHOTTED"
  /\ agent.pc \in CreatePcs => journal.state = "VERIFIED"
  /\ agent.pc \in ({"jverify"} \cup JoinPcs) \ {"jmove"}
       => journal.state \in {"STRANDED", "ABORTED"}

LEMMA CreateInit == Init => CreateInv
  BY DEF Init, PipelineInit, NoAgent, NoTool, CreateInv, CreatePcs, JoinPcs

LEMMA CreateSteps ==
  Fields /\ CreateInv /\ Steps /\ ~Verify => CreateInv'
  <1> SUFFICES ASSUME Fields, CreateInv, Steps, ~Verify PROVE CreateInv'
    OBVIOUS
  <1> USE DEF Fields, AgentFields, JournalFields, SiteFields
  <1>1. CASE Run
    BY <1>1, RunIs, MovedIs DEF CreateInv, CreatePcs, JoinPcs, NoAgent, Fields,
      AgentFields
  <1>2. CASE RunRefused
    BY <1>2 DEF RunRefused, Ends, NoAgent, At, pipeline, CreateInv, CreatePcs,
      JoinPcs, PastNoReturn
  <1>3. CASE Verified
    BY <1>3, MovedIs DEF Verified, Go, At, CreateInv, CreatePcs, JoinPcs,
      PastNoReturn
  <1>4. CASE NotVerified
    BY <1>4 DEF NotVerified, Go, At, CreateInv, CreatePcs, JoinPcs, PastNoReturn
  <1>5. CASE Reverified
    BY <1>5, ReverifiedIs DEF CreateInv, CreatePcs, JoinPcs, NoAgent, Fields,
      AgentFields
  <1>6. CASE Gate
    BY <1>6 DEF Gate, Go, At, pipeline, CreateInv, CreatePcs, JoinPcs,
      PastNoReturn
  <1>7. CASE Refused
    BY <1>7 DEF Refused, Go, pipeline, CreateInv, CreatePcs, JoinPcs, PastNoReturn
  <1>8. CASE Create
    BY <1>8 DEF Create, Go, At, pipeline, CreateInv, CreatePcs, JoinPcs,
      PastNoReturn
  <1>9. ASSUME NEW e \in BOOLEAN, NEW ok \in BOOLEAN, CreateHook(e, ok)
        PROVE  CreateInv'
    BY <1>9 DEF CreateHook, Go, At, pipeline, CreateInv, CreatePcs, JoinPcs,
      PastNoReturn
  <1>10. CASE Ignite
    BY <1>10 DEF Ignite, Go, At, pipeline, CreateInv, CreatePcs, JoinPcs,
      PastNoReturn
  <1>11. ASSUME NEW e \in BOOLEAN, NEW ok \in BOOLEAN, Ignited(e, ok)
        PROVE  CreateInv'
    BY <1>11, MovedIs DEF Ignited, Move, Go, Ends, NoAgent, At, pipeline,
      CreateInv, CreatePcs, JoinPcs, PastNoReturn
  <1>12. ASSUME NEW ok \in BOOLEAN, Abort(ok)
        PROVE  CreateInv'
    BY <1>12, MovedIs DEF Abort, Move, Go, Ends, NoAgent, At, pipeline, CreateInv,
      CreatePcs, JoinPcs, PastNoReturn
  <1>13. CASE Reseal
    BY <1>13 DEF Reseal, Sealings, Ends, NoAgent, At, pipeline, CreateInv,
      CreatePcs, JoinPcs, PastNoReturn
  <1>14. CASE Strand
    BY <1>14, MovedIs DEF Strand, Sealings, Ends, NoAgent, At, pipeline,
      CreateInv, CreatePcs, JoinPcs, PastNoReturn
  <1>15. ASSUME NEW ok \in BOOLEAN, RollbackResume(ok)
        PROVE  CreateInv'
    BY <1>15 DEF RollbackResume, At, pipeline, CreateInv, CreatePcs, JoinPcs,
      PastNoReturn
  <1>16. CASE RollbackNoResume
    BY <1>16 DEF RollbackNoResume, Go, At, pipeline, CreateInv, CreatePcs,
      JoinPcs, PastNoReturn
  <1>17. ASSUME NEW seen \in {"paused", "producing", "unreadable"}, RollbackCheck(seen)
        PROVE  CreateInv'
    BY <1>17, MovedIs DEF RollbackCheck, Move, Go, At, pipeline, CreateInv,
      CreatePcs, JoinPcs, PastNoReturn
  <1>18. ASSUME NEW e \in BOOLEAN, NEW ok \in BOOLEAN, Reopen(e, ok)
        PROVE  CreateInv'
    BY <1>18 DEF Reopen, Go, Ends, NoAgent, At, pipeline, CreateInv, CreatePcs,
      JoinPcs, PastNoReturn
  <1>19. CASE NotReopened
    BY <1>19 DEF NotReopened, Ends, NoAgent, At, pipeline, CreateInv, CreatePcs,
      JoinPcs, PastNoReturn
  <1>20. CASE NothingToReopen
    BY <1>20 DEF NothingToReopen, Go, At, pipeline, CreateInv, CreatePcs, JoinPcs,
      PastNoReturn
  <1>21. CASE RollbackDone
    BY <1>21 DEF RollbackDone, Ends, NoAgent, At, pipeline, CreateInv, CreatePcs,
      JoinPcs, PastNoReturn
  <1>22. CASE OpEnds
    BY <1>22 DEF OpEnds, Ends, NoAgent, At, pipeline, CreateInv, CreatePcs,
      JoinPcs, PastNoReturn
  <1>23. CASE OpGuarded
    BY <1>23 DEF OpGuarded, NeedsGuard, Go, At, pipeline, CreateInv, CreatePcs,
      JoinPcs, PastNoReturn
  <1>24. CASE OpGoes
    BY <1>24 DEF OpGoes, Go, At, pipeline, CreateInv, CreatePcs, JoinPcs,
      PastNoReturn
  <1>25. CASE Fence
    BY <1>25 DEF Fence, Go, At, pipeline, CreateInv, CreatePcs, JoinPcs,
      PastNoReturn
  <1>26. CASE FenceFails
    BY <1>26 DEF FenceFails, Ends, NoAgent, At, pipeline, CreateInv, CreatePcs,
      JoinPcs, PastNoReturn
  <1>27. CASE StartSegment
    BY <1>27, SegmentStarts DEF CreateInv, CreatePcs, JoinPcs, NoAgent, Fields,
      AgentFields
  <1>28. CASE RefreezeIntent
    BY <1>28 DEF RefreezeIntent, Go, At, pipeline, CreateInv, CreatePcs, JoinPcs,
      PastNoReturn
  <1>29. ASSUME NEW e \in BOOLEAN, NEW ok \in BOOLEAN, Refreeze(e, ok)
        PROVE  CreateInv'
    <2>1. CASE ok
      BY <1>29, <2>1 DEF Refreeze, Go, At, pipeline, CreateInv, CreatePcs, JoinPcs
    <2>2. CASE ~ok
      <3>1. RefusedAfterRefreeze
        BY <1>29, <2>2 DEF Refreeze
      <3>2. /\ UNCHANGED tool /\ site'.forced = site.forced /\ site'.made = site.made
            /\ agent.pc = "jhook"
        BY <1>29 DEF Refreeze, At, pipeline
      <3> QED  BY <3>1, <3>2, RefusedIs DEF CreateInv, CreatePcs, JoinPcs, NoAgent
    <2> QED  BY <2>1, <2>2
  <1>30. CASE JoinChecked
    BY <1>30 DEF JoinChecked, At, pipeline, CreateInv, CreatePcs, JoinPcs,
      PastNoReturn
  <1>31. CASE JoinRefused
    BY <1>31, RefusedIs DEF JoinRefused, Ends, NoAgent, At, pipeline, CreateInv,
      CreatePcs, JoinPcs, PastNoReturn
  <1>32. CASE JoinRecord
    <2>1. UNCHANGED <<journal.state, journal.create, journal.join, site, tool>>
      <3> DEFINE j == [journal EXCEPT !.verified = agent.mem]
      <3>1. UNCHANGED <<site, tool>> /\ journal' \in {j, Segment(j)}
        BY <1>32 DEF JoinRecord, pipeline
      <3>2. DOMAIN j = JournalFields
        BY DEF Fields, JournalFields
      <3>3. j.state = journal.state /\ j.create = journal.create /\ j.join = journal.join
        BY DEF Fields, JournalFields
      <3>4. /\ Segment(j).state = j.state /\ Segment(j).create = j.create
            /\ Segment(j).join = j.join
        BY <3>2, SegmentIs
      <3> HIDE DEF j
      <3> QED  BY <3>1, <3>3, <3>4
    <2>2. agent.pc = "jcommit" /\ agent'.pc \in {"jmark", "jpause"}
      BY <1>32 DEF JoinRecord, At, Go
    <2> QED  BY <2>1, <2>2 DEF CreateInv, CreatePcs, JoinPcs
  <1>33. ASSUME NEW e \in BOOLEAN, NEW ok \in BOOLEAN, JoinPause(e, ok)
        PROVE  CreateInv'
    BY <1>33 DEF JoinPause, Go, Ends, NoAgent, At, pipeline, CreateInv, CreatePcs,
      JoinPcs, PastNoReturn
  <1>34. CASE JoinCommit
    BY <1>34 DEF JoinCommit, Go, At, pipeline, CreateInv, CreatePcs, JoinPcs,
      PastNoReturn
  <1>35. CASE Joined
    BY <1>35, MovedIs DEF Joined, Go, At, pipeline, CreateInv, CreatePcs, JoinPcs,
      PastNoReturn
  <1> QED
    BY <1>1, <1>2, <1>3, <1>4, <1>5, <1>6, <1>7, <1>8, <1>9, <1>10, <1>11,
      <1>12, <1>13, <1>14, <1>15, <1>16, <1>17, <1>18, <1>19, <1>20, <1>21,
      <1>22, <1>23, <1>24, <1>25, <1>26, <1>27, <1>28, <1>29, <1>30, <1>31,
      <1>32, <1>33, <1>34, <1>35
    DEF Steps

LEMMA CreateVerify == Fields /\ CreateInv /\ Verify => CreateInv'
  <1> SUFFICES ASSUME Fields, CreateInv, Verify PROVE CreateInv'
    OBVIOUS
  <1>1. UNCHANGED <<journal, agent, site, fleet>> /\ PipelineStep
    BY DEF Verify
  <1>2. tool'.kind \in {tool.kind, "none", "export", "import", "severed"}
    BY <1>1 DEF Fields, ToolFields, PipelineStep, Export, Import, Starts,
      StepEnds, Compare, BuildBoot, StepFails, NoTool
  <1>3. agent.pc \in {"verify", "jverify"}
    BY DEF Verify
  <1> QED  BY <1>1, <1>2, <1>3 DEF CreateInv, CreatePcs, JoinPcs, PastNoReturn

LEMMA CreateCommands == Fields /\ CreateInv /\ Commands => CreateInv'
  <1> SUFFICES ASSUME Fields, CreateInv, Commands PROVE CreateInv'
    OBVIOUS
  <1> USE DEF Fields, AgentFields, JournalFields, CreateInv, CreatePcs, JoinPcs,
    PastNoReturn, At, Go, NoAgent, pipeline
  <1>1. CASE StartRun \/ StartRollback
    BY <1>1 DEF StartRun, StartRollback, Killed, NoTool
  <1>2. CASE Unhalt
    BY <1>2, MovedIs, MovedAlso DEF Unhalt
  <1>3. CASE ResumeJoin
    BY <1>3, MovedIs, MovedAlso DEF ResumeJoin
  <1>4. CASE Join
    BY <1>4 DEF Join, Joinable
  <1>5. CASE JoinReverify
    BY <1>5 DEF JoinReverify, Reverifies, Joinable
  <1> QED  BY <1>1, <1>2, <1>3, <1>4, <1>5 DEF Commands

LEMMA CreateWorld == Fields /\ CreateInv /\ World => CreateInv'
  <1> SUFFICES ASSUME Fields, CreateInv, World PROVE CreateInv'
    OBVIOUS
  <1> USE DEF Fields, ToolFields, SiteFields, CreateInv, CreatePcs, JoinPcs,
    PastNoReturn
  <1>1. CASE Crash
    <2>1. /\ UNCHANGED <<journal, site>> /\ agent.pc # "off" /\ agent'.pc = "off"
          /\ ~agent'.seg
          /\ \/ tool'.kind \in {"none", tool.kind}
             \/ tool'.kind = HookOf(agent.pc)
      BY <1>1 DEF Crash, At, Dies, Killed, NoTool, Ends, NoAgent
    <2> QED  BY <2>1 DEF HookOf
  <1>2. CASE ToolRuns
    <2>1. tool'.kind \in {"none", tool.kind} /\ UNCHANGED <<journal, agent, site>>
      BY <1>2 DEF ToolRuns, ToolWorks, NoTool
    <2> QED  BY <2>1
  <1>3. CASE HookRuns
    BY <1>3 DEF HookRuns, NoTool
  <1>4. CASE HoldSealed \/ OthersPause \/ Unpaused \/ Produces
    BY <1>4 DEF HoldSealed, OthersPause, Unpaused, Produces, pipeline
  <1> QED  BY <1>1, <1>2, <1>3, <1>4 DEF World

LEMMA CreateNext == Fields /\ CreateInv /\ [Next]_vars => CreateInv'
  <1>1. CreateInv /\ UNCHANGED vars => CreateInv'
    BY DEF CreateInv, CreatePcs, JoinPcs, vars, pipeline
  <1> QED
    BY <1>1, CreateVerify, CreateSteps, CreateCommands, CreateWorld DEF Next

(***************************************************************************)
(* The edge: open only in an ABORTED ceremony that is not committed, and   *)
(* so is a reopen that outlives its command.                               *)
(***************************************************************************)
Frozen == site.edge = "frozen" \/ site.open \/ site.forced

EdgeInv ==
  /\ site.edge \in {"open", "frozen"}
  /\ PastNoReturn \/ journal.state # "ABORTED" => Frozen
  /\ tool.kind = "reopen" /\ ~site.forced =>
       /\ journal.state = "ABORTED" /\ ~PastNoReturn
       /\ agent.pc \in {"off", "run", "jverify", "jfreeze", "jintent", "jhook"}
  /\ agent.pc \in {"jcheck", "jcommit", "jpause", "jmark", "jmove"} => Frozen
  /\ agent.pc \in {"rb", "rb_check", "rb_open", "rb_done"}
       => ~PastNoReturn \/ site.forced
  /\ agent.pc = "rb_open" => journal.state = "ABORTED"

LEMMA EdgeInit == Init => EdgeInv
  BY DEF Init, PipelineInit, NoAgent, NoTool, EdgeInv, Frozen, PastNoReturn

LEMMA EdgeSteps ==
  Fields /\ CreateInv /\ EdgeInv /\ Steps /\ ~Verify => EdgeInv'
  <1> SUFFICES ASSUME Fields, CreateInv, EdgeInv, Steps, ~Verify PROVE EdgeInv'
    OBVIOUS
  <1> USE DEF Fields, AgentFields, JournalFields, SiteFields
  <1>1. CASE Run
    BY <1>1, RunIs, MovedIs DEF EdgeInv, Frozen, PastNoReturn, InDoubt, NoAgent
  <1>2. CASE RunRefused
    BY <1>2 DEF RunRefused, Ends, NoAgent, At, pipeline, CreateInv, EdgeInv,
      Frozen, CreatePcs, JoinPcs, PastNoReturn
  <1>3. CASE Verified
    BY <1>3, MovedIs DEF Verified, Go, At, CreateInv, EdgeInv, Frozen, CreatePcs,
      JoinPcs, PastNoReturn
  <1>4. CASE NotVerified
    BY <1>4 DEF NotVerified, Go, At, CreateInv, EdgeInv, Frozen, CreatePcs,
      JoinPcs, PastNoReturn
  <1>5. CASE Reverified
    BY <1>5, ReverifiedIs DEF EdgeInv, Frozen, PastNoReturn, InDoubt, NoAgent
  <1>6. CASE Gate
    BY <1>6 DEF Gate, Go, At, pipeline, CreateInv, EdgeInv, Frozen, CreatePcs,
      JoinPcs, PastNoReturn
  <1>7. CASE Refused
    BY <1>7 DEF Refused, Go, pipeline, CreateInv, EdgeInv, Frozen, CreatePcs,
      JoinPcs, PastNoReturn
  <1>8. CASE Create
    BY <1>8 DEF Create, Go, At, pipeline, CreateInv, EdgeInv, Frozen, CreatePcs,
      JoinPcs, PastNoReturn
  <1>9. ASSUME NEW e \in BOOLEAN, NEW ok \in BOOLEAN, CreateHook(e, ok)
        PROVE  EdgeInv'
    BY <1>9 DEF CreateHook, Go, At, pipeline, CreateInv, EdgeInv, Frozen,
      CreatePcs, JoinPcs, PastNoReturn
  <1>10. CASE Ignite
    BY <1>10 DEF Ignite, Go, At, pipeline, CreateInv, EdgeInv, Frozen, CreatePcs,
      JoinPcs, PastNoReturn
  <1>11. ASSUME NEW e \in BOOLEAN, NEW ok \in BOOLEAN, Ignited(e, ok)
        PROVE  EdgeInv'
    BY <1>11, MovedIs DEF Ignited, Move, Go, Ends, NoAgent, At, pipeline,
      CreateInv, EdgeInv, Frozen, CreatePcs, JoinPcs, PastNoReturn
  <1>12. ASSUME NEW ok \in BOOLEAN, Abort(ok)
        PROVE  EdgeInv'
    BY <1>12, MovedIs DEF Abort, Move, Go, Ends, NoAgent, At, pipeline, CreateInv,
      EdgeInv, Frozen, CreatePcs, JoinPcs, PastNoReturn
  <1>13. CASE Reseal
    BY <1>13 DEF Reseal, Sealings, Ends, NoAgent, At, pipeline, CreateInv,
      EdgeInv, Frozen, CreatePcs, JoinPcs, PastNoReturn
  <1>14. CASE Strand
    <2>1. /\ agent.pc = "strand" /\ agent'.pc = "off" /\ UNCHANGED tool
          /\ site'.edge = site.edge /\ (site'.open <=> site.edge = "open")
          /\ site'.forced = site.forced
      BY <1>14 DEF Strand, At, Ends, NoAgent, pipeline
    <2>2. /\ journal'.state = "STRANDED" /\ journal'.create = journal.create
          /\ journal'.join = journal.join /\ (journal'.ignite => journal.ignite)
      BY <1>14, MovedIs DEF Strand
    <2> QED  BY <2>1, <2>2 DEF EdgeInv, Frozen, PastNoReturn
  <1>15. ASSUME NEW ok \in BOOLEAN, RollbackResume(ok)
        PROVE  EdgeInv'
    BY <1>15 DEF RollbackResume, At, pipeline, CreateInv, EdgeInv, Frozen,
      CreatePcs, JoinPcs, PastNoReturn
  <1>16. CASE RollbackNoResume
    BY <1>16 DEF RollbackNoResume, Go, At, pipeline, CreateInv, EdgeInv, Frozen,
      CreatePcs, JoinPcs, PastNoReturn
  <1>17. ASSUME NEW seen \in {"paused", "producing", "unreadable"}, RollbackCheck(seen)
        PROVE  EdgeInv'
    BY <1>17, MovedIs DEF RollbackCheck, Move, Go, At, pipeline, CreateInv,
      EdgeInv, Frozen, CreatePcs, JoinPcs, PastNoReturn
  <1>18. ASSUME NEW e \in BOOLEAN, NEW ok \in BOOLEAN, Reopen(e, ok)
        PROVE  EdgeInv'
    BY <1>18 DEF Reopen, Go, Ends, NoAgent, At, pipeline, CreateInv, EdgeInv,
      Frozen, CreatePcs, JoinPcs, PastNoReturn
  <1>19. CASE NotReopened
    BY <1>19 DEF NotReopened, Ends, NoAgent, At, pipeline, CreateInv, EdgeInv,
      Frozen, CreatePcs, JoinPcs, PastNoReturn
  <1>20. CASE NothingToReopen
    BY <1>20 DEF NothingToReopen, Go, At, pipeline, CreateInv, EdgeInv, Frozen,
      CreatePcs, JoinPcs, PastNoReturn
  <1>21. CASE RollbackDone
    BY <1>21 DEF RollbackDone, Ends, NoAgent, At, pipeline, CreateInv, EdgeInv,
      Frozen, CreatePcs, JoinPcs, PastNoReturn
  <1>22. CASE OpEnds
    BY <1>22 DEF OpEnds, Ends, NoAgent, At, pipeline, CreateInv, EdgeInv, Frozen,
      CreatePcs, JoinPcs, PastNoReturn
  <1>23. CASE OpGuarded
    BY <1>23 DEF OpGuarded, NeedsGuard, Go, At, pipeline, CreateInv, EdgeInv,
      Frozen, CreatePcs, JoinPcs, PastNoReturn
  <1>24. CASE OpGoes
    BY <1>24 DEF OpGoes, Go, At, pipeline, CreateInv, EdgeInv, Frozen, CreatePcs,
      JoinPcs, PastNoReturn
  <1>25. CASE Fence
    BY <1>25 DEF Fence, Go, At, pipeline, CreateInv, EdgeInv, Frozen, CreatePcs,
      JoinPcs, PastNoReturn
  <1>26. CASE FenceFails
    BY <1>26 DEF FenceFails, Ends, NoAgent, At, pipeline, CreateInv, EdgeInv,
      Frozen, CreatePcs, JoinPcs, PastNoReturn
  <1>27. CASE StartSegment
    BY <1>27, SegmentStarts DEF EdgeInv, Frozen, PastNoReturn, InDoubt, NoAgent
  <1>28. CASE RefreezeIntent
    BY <1>28 DEF RefreezeIntent, Go, At, pipeline, CreateInv, EdgeInv, Frozen,
      CreatePcs, JoinPcs, PastNoReturn
  <1>29. ASSUME NEW e \in BOOLEAN, NEW ok \in BOOLEAN, Refreeze(e, ok)
        PROVE  EdgeInv'
    <2>1. CASE ok
      BY <1>29, <2>1 DEF Refreeze, Go, At, pipeline, Running, EdgeInv, Frozen,
        PastNoReturn
    <2>2. CASE ~ok
      <3>1. RefusedAfterRefreeze
        BY <1>29, <2>2 DEF Refreeze
      <3>2. /\ UNCHANGED tool /\ site'.forced = site.forced /\ site'.open = site.open
            /\ site'.edge \in {"frozen", site.edge} /\ agent.pc = "jhook"
        BY <1>29 DEF Refreeze, At, pipeline
      <3> QED  BY <3>1, <3>2, RefusedIs DEF EdgeInv, Frozen, PastNoReturn, NoAgent
    <2> QED  BY <2>1, <2>2
  <1>30. CASE JoinChecked
    BY <1>30 DEF JoinChecked, At, pipeline, CreateInv, EdgeInv, Frozen, CreatePcs,
      JoinPcs, PastNoReturn
  <1>31. CASE JoinRefused
    BY <1>31, RefusedIs DEF JoinRefused, Ends, NoAgent, At, pipeline, CreateInv,
      EdgeInv, Frozen, CreatePcs, JoinPcs, PastNoReturn
  <1>32. CASE JoinRecord
    BY <1>32, SegmentIs DEF JoinRecord, Go, At, pipeline, CreateInv, EdgeInv,
      Frozen, CreatePcs, JoinPcs, PastNoReturn
  <1>33. ASSUME NEW e \in BOOLEAN, NEW ok \in BOOLEAN, JoinPause(e, ok)
        PROVE  EdgeInv'
    BY <1>33 DEF JoinPause, Go, Ends, NoAgent, At, pipeline, CreateInv, EdgeInv,
      Frozen, CreatePcs, JoinPcs, PastNoReturn
  <1>34. CASE JoinCommit
    BY <1>34 DEF JoinCommit, Go, At, pipeline, CreateInv, EdgeInv, Frozen,
      CreatePcs, JoinPcs, PastNoReturn
  <1>35. CASE Joined
    BY <1>35, MovedIs DEF Joined, Go, At, pipeline, CreateInv, EdgeInv, Frozen,
      CreatePcs, JoinPcs, PastNoReturn
  <1> QED
    BY <1>1, <1>2, <1>3, <1>4, <1>5, <1>6, <1>7, <1>8, <1>9, <1>10, <1>11,
      <1>12, <1>13, <1>14, <1>15, <1>16, <1>17, <1>18, <1>19, <1>20, <1>21,
      <1>22, <1>23, <1>24, <1>25, <1>26, <1>27, <1>28, <1>29, <1>30, <1>31,
      <1>32, <1>33, <1>34, <1>35
    DEF Steps

LEMMA EdgeVerify == Fields /\ CreateInv /\ EdgeInv /\ Verify => EdgeInv'
  <1> SUFFICES ASSUME Fields, CreateInv, EdgeInv, Verify PROVE EdgeInv'
    OBVIOUS
  <1>1. UNCHANGED <<journal, agent, site, fleet>> /\ PipelineStep
    BY DEF Verify
  <1>2. tool'.kind \in {tool.kind, "none", "export", "import", "severed"}
    BY <1>1 DEF Fields, ToolFields, PipelineStep, Export, Import, Starts,
      StepEnds, Compare, BuildBoot, StepFails, NoTool
  <1>3. agent.pc \in {"verify", "jverify"}
    BY DEF Verify
  <1> QED  BY <1>1, <1>2, <1>3 DEF EdgeInv, CreateInv, Frozen, CreatePcs,
    JoinPcs, PastNoReturn

LEMMA EdgeCommands == Fields /\ CreateInv /\ EdgeInv /\ Commands => EdgeInv'
  <1> SUFFICES ASSUME Fields, CreateInv, EdgeInv, Commands PROVE EdgeInv'
    OBVIOUS
  <1> USE DEF Fields, AgentFields, JournalFields, EdgeInv, CreateInv, Frozen,
    CreatePcs, JoinPcs, PastNoReturn, At, Go, NoAgent, pipeline
  <1>1. CASE StartRun \/ StartRollback
    BY <1>1 DEF StartRun, StartRollback, Killed, NoTool
  <1>2. CASE Unhalt
    BY <1>2, MovedIs, MovedAlso DEF Unhalt
  <1>3. CASE ResumeJoin
    BY <1>3, MovedIs, MovedAlso DEF ResumeJoin
  <1>4. CASE Join
    BY <1>4 DEF Join, Joinable
  <1>5. CASE JoinReverify
    BY <1>5 DEF JoinReverify, Reverifies, Joinable
  <1> QED  BY <1>1, <1>2, <1>3, <1>4, <1>5 DEF Commands

LEMMA EdgeWorld == Fields /\ CreateInv /\ EdgeInv /\ World => EdgeInv'
  <1> SUFFICES ASSUME Fields, CreateInv, EdgeInv, World PROVE EdgeInv'
    OBVIOUS
  <1> USE DEF Fields, ToolFields, SiteFields, EdgeInv, CreateInv, Frozen,
    CreatePcs, JoinPcs, PastNoReturn
  <1>1. CASE Crash
    <2>1. /\ UNCHANGED <<journal, site>> /\ agent.pc # "off" /\ agent'.pc = "off"
          /\ ~agent'.seg
          /\ \/ tool'.kind \in {"none", tool.kind}
             \/ tool'.kind = HookOf(agent.pc)
      BY <1>1 DEF Crash, At, Dies, Killed, NoTool, Ends, NoAgent
    <2> QED  BY <2>1 DEF HookOf
  <1>2. CASE ToolRuns
    <2>1. tool'.kind \in {"none", tool.kind} /\ UNCHANGED <<journal, agent, site>>
      BY <1>2 DEF ToolRuns, ToolWorks, NoTool
    <2> QED  BY <2>1
  <1>3. CASE HookRuns
    BY <1>3 DEF HookRuns, NoTool
  <1>4. CASE HoldSealed \/ OthersPause \/ Unpaused \/ Produces
    BY <1>4 DEF HoldSealed, OthersPause, Unpaused, Produces, pipeline
  <1> QED  BY <1>1, <1>2, <1>3, <1>4 DEF World

LEMMA EdgeNext == Fields /\ CreateInv /\ EdgeInv /\ [Next]_vars => EdgeInv'
  <1>1. EdgeInv /\ UNCHANGED vars => EdgeInv'
    BY DEF EdgeInv, Frozen, PastNoReturn, vars, pipeline
  <1> QED
    BY <1>1, EdgeVerify, EdgeSteps, EdgeCommands, EdgeWorld DEF Next

(***************************************************************************)
(* The undo: what is recorded as reopened is open, nothing that runs on    *)
(* freezes it, and a pause of this agent's is gone before it counts.       *)
(***************************************************************************)
Opened == ~journal.writes \/ "on_abort" \in journal.steps

UndoneInv ==
  /\ Opened => site.edge = "open" /\ tool.kind # "freeze"
  /\ agent.pc \in {"jintent", "jhook"} => "on_abort" \notin journal.steps
  /\ agent.pc = "jhook" => journal.writes
  /\ tool.kind = "freeze" => agent.pc \in {"off", "run", "jverify"} \cup JoinPcs
  /\ agent.pc \in {"rb_check", "rb_open", "rb_done"} /\ agent.rres # "err"
       => ~journal.own
  /\ agent.pc = "rb_done"
       => agent.rres # "err" /\ Opened /\ journal.state = "ABORTED"
  /\ agent.pc = "reseal" => journal.state = "STRANDED"
  /\ agent.pc = "abort" => journal.state # "ABORTED"
  /\ journal.done =>
       /\ journal.state = "ABORTED" /\ Opened /\ ~journal.own
       /\ agent.pc \notin {"rb", "rb_check", "rb_open", "fence", "jintent",
                           "jhook", "jpause", "jmark"}
       /\ agent.pc \in {"off", "jverify"} \cup JoinPcs => ~agent.seg

LEMMA UndoneInit == Init => UndoneInv
  BY DEF Init, PipelineInit, NoAgent, NoTool, UndoneInv, Opened, JoinPcs

LEMMA UndoneSteps ==
  Fields /\ CreateInv /\ EdgeInv /\ UndoneInv /\ Steps /\ ~Verify => UndoneInv'
  <1> SUFFICES ASSUME Fields, CreateInv, EdgeInv, UndoneInv, Steps, ~Verify
    PROVE UndoneInv'
    OBVIOUS
  <1> USE DEF Fields, AgentFields, JournalFields, SiteFields
  <1>1. CASE Run
    BY <1>1, RunIs, MovedIs, MovedAlso DEF CreateInv, CreatePcs, EdgeInv,
      UndoneInv, Opened, JoinPcs, NoAgent
  <1>2. CASE RunRefused
    BY <1>2 DEF RunRefused, Ends, NoAgent, At, pipeline, CreateInv, EdgeInv,
      UndoneInv, Opened, CreatePcs, JoinPcs, PastNoReturn
  <1>3. CASE Verified
    BY <1>3, MovedIs, MovedAlso DEF Verified, Go, At, CreateInv, EdgeInv,
      UndoneInv, Opened, CreatePcs, JoinPcs, PastNoReturn
  <1>4. CASE NotVerified
    BY <1>4 DEF NotVerified, Go, At, CreateInv, EdgeInv, UndoneInv, Opened,
      CreatePcs, JoinPcs, PastNoReturn
  <1>5. CASE Reverified
    BY <1>5, ReverifiedIs DEF CreateInv, CreatePcs, EdgeInv, UndoneInv, Opened,
      JoinPcs, NoAgent
  <1>6. CASE Gate
    BY <1>6 DEF Gate, Go, At, pipeline, CreateInv, EdgeInv, UndoneInv, Opened,
      CreatePcs, JoinPcs, PastNoReturn
  <1>7. CASE Refused
    BY <1>7 DEF Refused, Go, pipeline, CreateInv, EdgeInv, UndoneInv, Opened,
      CreatePcs, JoinPcs, PastNoReturn
  <1>8. CASE Create
    BY <1>8 DEF Create, Go, At, pipeline, CreateInv, EdgeInv, UndoneInv, Opened,
      CreatePcs, JoinPcs, PastNoReturn
  <1>9. ASSUME NEW e \in BOOLEAN, NEW ok \in BOOLEAN, CreateHook(e, ok)
        PROVE  UndoneInv'
    BY <1>9 DEF CreateHook, Go, At, pipeline, CreateInv, EdgeInv, UndoneInv,
      Opened, CreatePcs, JoinPcs, PastNoReturn
  <1>10. CASE Ignite
    BY <1>10 DEF Ignite, Go, At, pipeline, CreateInv, EdgeInv, UndoneInv, Opened,
      CreatePcs, JoinPcs, PastNoReturn
  <1>11. ASSUME NEW e \in BOOLEAN, NEW ok \in BOOLEAN, Ignited(e, ok)
        PROVE  UndoneInv'
    BY <1>11, MovedIs, MovedAlso DEF Ignited, Move, Go, Ends, NoAgent, At,
      pipeline, CreateInv, EdgeInv, UndoneInv, Opened, CreatePcs, JoinPcs,
      PastNoReturn
  <1>12. ASSUME NEW ok \in BOOLEAN, Abort(ok)
        PROVE  UndoneInv'
    BY <1>12, MovedIs, MovedAlso DEF Abort, Move, Go, Ends, NoAgent, At, pipeline,
      CreateInv, EdgeInv, UndoneInv, Opened, CreatePcs, JoinPcs, PastNoReturn
  <1>13. CASE Reseal
    BY <1>13 DEF Reseal, Sealings, Ends, NoAgent, At, pipeline, CreateInv,
      EdgeInv, UndoneInv, Opened, CreatePcs, JoinPcs, PastNoReturn
  <1>14. CASE Strand
    BY <1>14, MovedIs, MovedAlso DEF Strand, Sealings, Ends, NoAgent, At,
      pipeline, CreateInv, EdgeInv, UndoneInv, Opened, CreatePcs, JoinPcs,
      PastNoReturn
  <1>15. ASSUME NEW ok \in BOOLEAN, RollbackResume(ok)
        PROVE  UndoneInv'
    <2>1. /\ UNCHANGED <<journal.state, journal.writes, journal.done>>
          /\ "on_abort" \in journal'.steps <=> "on_abort" \in journal.steps
          /\ agent'.rres # "err" => ~journal'.own
      <3>1. CASE ok
        <4>1. journal' = [journal EXCEPT !.own = FALSE, !.steps = @ \cup {"resume"}]
          BY <1>15, <3>1 DEF RollbackResume
        <4>2. /\ journal'.steps = journal.steps \cup {"resume"} /\ journal'.own = FALSE
              /\ UNCHANGED <<journal.state, journal.writes, journal.done>>
          BY <4>1
        <4> QED  BY <4>2
      <3>2. CASE ~ok
        BY <1>15, <3>2 DEF RollbackResume
      <3> QED  BY <3>1, <3>2
    <2>2. /\ agent.pc = "rb" /\ agent'.pc = "rb_check" /\ UNCHANGED tool
          /\ site'.edge = site.edge
      BY <1>15 DEF RollbackResume, At, pipeline
    <2> QED  BY <2>1, <2>2 DEF UndoneInv, Opened, JoinPcs
  <1>16. CASE RollbackNoResume
    BY <1>16 DEF RollbackNoResume, Go, At, pipeline, CreateInv, EdgeInv,
      UndoneInv, Opened, CreatePcs, JoinPcs, PastNoReturn
  <1>17. ASSUME NEW seen \in {"paused", "producing", "unreadable"}, RollbackCheck(seen)
        PROVE  UndoneInv'
    BY <1>17, MovedIs, MovedAlso DEF RollbackCheck, Move, Go, At, pipeline,
      CreateInv, EdgeInv, UndoneInv, Opened, CreatePcs, JoinPcs, PastNoReturn
  <1>18. ASSUME NEW e \in BOOLEAN, NEW ok \in BOOLEAN, Reopen(e, ok)
        PROVE  UndoneInv'
    BY <1>18 DEF Reopen, ReopenPending, Go, Ends, NoAgent, At, pipeline,
      CreateInv, EdgeInv, UndoneInv, Opened, CreatePcs, JoinPcs, PastNoReturn
  <1>19. CASE NotReopened
    BY <1>19 DEF NotReopened, Ends, NoAgent, At, pipeline, CreateInv, EdgeInv,
      UndoneInv, Opened, CreatePcs, JoinPcs, PastNoReturn
  <1>20. CASE NothingToReopen
    BY <1>20 DEF NothingToReopen, ReopenPending, Go, At, pipeline, CreateInv,
      EdgeInv, UndoneInv, Opened, CreatePcs, JoinPcs, PastNoReturn
  <1>21. CASE RollbackDone
    BY <1>21 DEF RollbackDone, ReopenPending, Ends, NoAgent, At, pipeline,
      CreateInv, EdgeInv, UndoneInv, Opened, CreatePcs, JoinPcs, PastNoReturn
  <1>22. CASE OpEnds
    BY <1>22 DEF OpEnds, Ends, NoAgent, At, pipeline, CreateInv, EdgeInv,
      UndoneInv, Opened, CreatePcs, JoinPcs, PastNoReturn
  <1>23. CASE OpGuarded
    BY <1>23 DEF OpGuarded, NeedsGuard, Go, At, pipeline, CreateInv, EdgeInv,
      UndoneInv, Opened, CreatePcs, JoinPcs, PastNoReturn
  <1>24. CASE OpGoes
    BY <1>24 DEF OpGoes, RolledBack, Held, Go, At, pipeline, CreateInv, EdgeInv,
      UndoneInv, Opened, CreatePcs, JoinPcs, PastNoReturn
  <1>25. CASE Fence
    BY <1>25 DEF Fence, Go, At, pipeline, CreateInv, EdgeInv, UndoneInv, Opened,
      CreatePcs, JoinPcs, PastNoReturn
  <1>26. CASE FenceFails
    BY <1>26 DEF FenceFails, Ends, NoAgent, At, pipeline, CreateInv, EdgeInv,
      UndoneInv, Opened, CreatePcs, JoinPcs, PastNoReturn
  <1>27. CASE StartSegment
    BY <1>27, SegmentStarts DEF CreateInv, CreatePcs, EdgeInv, UndoneInv, Opened,
      JoinPcs, NoAgent
  <1>28. CASE RefreezeIntent
    BY <1>28 DEF RefreezeIntent, Go, At, pipeline, CreateInv, EdgeInv, UndoneInv,
      Opened, CreatePcs, JoinPcs, PastNoReturn
  <1>29. ASSUME NEW e \in BOOLEAN, NEW ok \in BOOLEAN, Refreeze(e, ok)
        PROVE  UndoneInv'
    <2>1. CASE ok
      BY <1>29, <2>1 DEF Refreeze, Go, At, pipeline, Running, UndoneInv, Opened,
        JoinPcs
    <2>2. CASE ~ok
      <3>1. RefusedAfterRefreeze
        BY <1>29, <2>2 DEF Refreeze
      <3>2. /\ UNCHANGED tool /\ site'.edge \in {"frozen", site.edge} /\ agent.pc = "jhook"
        BY <1>29 DEF Refreeze, At, pipeline
      <3> QED  BY <3>1, <3>2, RefusedIs DEF UndoneInv, Opened, NoAgent, JoinPcs
    <2> QED  BY <2>1, <2>2
  <1>30. CASE JoinChecked
    BY <1>30 DEF JoinChecked, At, pipeline, CreateInv, EdgeInv, UndoneInv, Opened,
      CreatePcs, JoinPcs, PastNoReturn
  <1>31. CASE JoinRefused
    <2>1. agent.pc = "jcheck" /\ agent' = NoAgent /\ UNCHANGED <<site, tool>>
      BY <1>31, RefusedIs DEF JoinRefused, At, Ends, pipeline
    <2>2. RefusedAfterRefreeze \/ UNCHANGED journal
      BY <1>31 DEF JoinRefused
    <2> QED  BY <2>1, <2>2, RefusedIs DEF UndoneInv, Opened, NoAgent, JoinPcs
  <1>32. CASE JoinRecord
    BY <1>32, SegmentIs DEF JoinRecord, Go, At, pipeline, CreateInv, EdgeInv,
      UndoneInv, Opened, CreatePcs, JoinPcs, PastNoReturn
  <1>33. ASSUME NEW e \in BOOLEAN, NEW ok \in BOOLEAN, JoinPause(e, ok)
        PROVE  UndoneInv'
    BY <1>33 DEF JoinPause, Go, Ends, NoAgent, At, pipeline, CreateInv, EdgeInv,
      UndoneInv, Opened, CreatePcs, JoinPcs, PastNoReturn
  <1>34. CASE JoinCommit
    BY <1>34 DEF JoinCommit, Go, At, pipeline, CreateInv, EdgeInv, UndoneInv,
      Opened, CreatePcs, JoinPcs, PastNoReturn
  <1>35. CASE Joined
    BY <1>35, MovedIs, MovedAlso DEF Joined, Go, At, pipeline, CreateInv, EdgeInv,
      UndoneInv, Opened, CreatePcs, JoinPcs, PastNoReturn
  <1> QED
    BY <1>1, <1>2, <1>3, <1>4, <1>5, <1>6, <1>7, <1>8, <1>9, <1>10, <1>11,
      <1>12, <1>13, <1>14, <1>15, <1>16, <1>17, <1>18, <1>19, <1>20, <1>21,
      <1>22, <1>23, <1>24, <1>25, <1>26, <1>27, <1>28, <1>29, <1>30, <1>31,
      <1>32, <1>33, <1>34, <1>35
    DEF Steps

LEMMA UndoneVerify ==
  Fields /\ CreateInv /\ EdgeInv /\ UndoneInv /\ Verify => UndoneInv'
  <1> SUFFICES ASSUME Fields, CreateInv, EdgeInv, UndoneInv, Verify PROVE UndoneInv'
    OBVIOUS
  <1>1. UNCHANGED <<journal, agent, site, fleet>> /\ PipelineStep
    BY DEF Verify
  <1>2. tool'.kind \in {tool.kind, "none", "export", "import", "severed"}
    BY <1>1 DEF Fields, ToolFields, PipelineStep, Export, Import, Starts,
      StepEnds, Compare, BuildBoot, StepFails, NoTool
  <1>3. agent.pc \in {"verify", "jverify"}
    BY DEF Verify
  <1> QED  BY <1>1, <1>2, <1>3 DEF UndoneInv, CreateInv, EdgeInv, Opened,
    CreatePcs, JoinPcs, PastNoReturn

LEMMA UndoneCommands ==
  Fields /\ CreateInv /\ EdgeInv /\ UndoneInv /\ Commands
  => UndoneInv'
  <1> SUFFICES ASSUME Fields, CreateInv, EdgeInv, UndoneInv, Commands PROVE
    UndoneInv'
    OBVIOUS
  <1> USE DEF Fields, AgentFields, JournalFields, UndoneInv, CreateInv, EdgeInv,
    Opened, CreatePcs, JoinPcs, PastNoReturn, At, Go, NoAgent, pipeline
  <1>1. CASE StartRun \/ StartRollback
    BY <1>1 DEF StartRun, StartRollback, Killed, NoTool
  <1>2. CASE Unhalt
    BY <1>2, MovedIs, MovedAlso DEF Unhalt
  <1>3. CASE ResumeJoin
    BY <1>3, MovedIs, MovedAlso DEF ResumeJoin
  <1>4. CASE Join
    BY <1>4 DEF Join, Joinable
  <1>5. CASE JoinReverify
    BY <1>5 DEF JoinReverify, Reverifies, Joinable
  <1> QED  BY <1>1, <1>2, <1>3, <1>4, <1>5 DEF Commands

LEMMA UndoneWorld ==
  Fields /\ CreateInv /\ EdgeInv /\ UndoneInv /\ World => UndoneInv'
  <1> SUFFICES ASSUME Fields, CreateInv, EdgeInv, UndoneInv, World PROVE UndoneInv'
    OBVIOUS
  <1> USE DEF Fields, ToolFields, SiteFields, UndoneInv, CreateInv, EdgeInv,
    Opened, CreatePcs, JoinPcs, PastNoReturn
  <1>1. CASE Crash
    <2>1. /\ UNCHANGED <<journal, site>> /\ agent.pc # "off" /\ agent'.pc = "off"
          /\ ~agent'.seg
          /\ \/ tool'.kind \in {"none", tool.kind}
             \/ tool'.kind = HookOf(agent.pc)
      BY <1>1 DEF Crash, At, Dies, Killed, NoTool, Ends, NoAgent
    <2> QED  BY <2>1 DEF HookOf
  <1>2. CASE ToolRuns
    <2>1. tool'.kind \in {"none", tool.kind} /\ UNCHANGED <<journal, agent, site>>
      BY <1>2 DEF ToolRuns, ToolWorks, NoTool
    <2> QED  BY <2>1
  <1>3. CASE HookRuns
    BY <1>3 DEF HookRuns, NoTool
  <1>4. CASE HoldSealed \/ OthersPause \/ Unpaused \/ Produces
    BY <1>4 DEF HoldSealed, OthersPause, Unpaused, Produces, pipeline
  <1> QED  BY <1>1, <1>2, <1>3, <1>4 DEF World

LEMMA UndoneNext ==
  Fields /\ CreateInv /\ EdgeInv /\ UndoneInv /\ [Next]_vars => UndoneInv'
  <1>1. UndoneInv /\ UNCHANGED vars => UndoneInv'
    BY DEF UndoneInv, Opened, JoinPcs, vars, pipeline
  <1> QED
    BY <1>1, UndoneVerify, UndoneSteps, UndoneCommands, UndoneWorld DEF Next

(***************************************************************************)
(* The theorems.                                                           *)
(***************************************************************************)
IInv == Fields /\ CutInv /\ KnownInv /\ CreateInv /\ EdgeInv /\ UndoneInv

LEMMA Inductive == Spec => []IInv
  <1>1. Init => IInv
    BY FieldsInit, CutInit, KnownInit, CreateInit, EdgeInit, UndoneInit DEF IInv
  <1>2. IInv /\ [Next]_vars => IInv'
    BY FieldsNext, CutNext, KnownNext, CreateNext, EdgeNext, UndoneNext DEF IInv
  <1> QED  BY <1>1, <1>2, PTL DEF Spec

\* What the journal calls verified is the whole of the ceremony's own cut,
\* whatever files and tools an earlier attempt left in the work directory.
THEOREM VerifiesItsCut == Spec => []VerifiedIsTheCut
  <1>1. IInv => VerifiedIsTheCut
    BY DEF IInv, KnownInv, VerifiedIsTheCut
  <1> QED  BY <1>1, Inductive, PTL

\* A target that runs, runs what this journal verified, and a joined one what
\* the quorum runs.
THEOREM BootsTheVerified == Spec => []BootsWhatVerified
  <1>1. IInv => BootsWhatVerified
    BY DEF IInv, KnownInv, BootsWhatVerified
  <1> QED  BY <1>1, Inductive, PTL

\* However often the commands die, at most one chain is created, and a
\* journal that joins the fleet's chain has created none.
THEOREM CreatesOnce == Spec => []OneTarget
  <1>1. IInv => OneTarget
    BY DEF IInv, CreateInv, OneTarget
  <1> QED  BY <1>1, Inductive, PTL

\* Past the point of no return the edge is frozen, by this ceremony or again
\* by the join.
THEOREM StaysFrozen == Spec => []CommittedIsFrozen
  <1>1. IInv => CommittedIsFrozen
    BY DEF IInv, EdgeInv, Frozen, CommittedIsFrozen
  <1> QED  BY <1>1, Inductive, PTL

\* A ceremony that counts as rolled back has its edge open and no pause of its
\* own, after a join that froze again and was refused too.
THEOREM UndoneForGood == Spec => []DoneMeansUndone
  <1>1. IInv => DoneMeansUndone
    BY DEF IInv, UndoneInv, Opened, RolledBack, DoneMeansUndone
  <1> QED  BY <1>1, Inductive, PTL
=============================================================================
