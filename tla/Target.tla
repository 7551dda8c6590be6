------------------------------- MODULE Target -------------------------------
(***************************************************************************)
(* The way of one coordinated upstream producer from its cut to a target   *)
(* chain (machine.rs): the verification, its own chain creation and        *)
(* ignition, the abort, strand and rollback that may come instead, unhalt, *)
(* and the ways back in, `join' and `join --reverify', onto the chain a    *)
(* LIVE quorum runs.  The commands may die at any step and the hooks and   *)
(* tools they started may run on.                                          *)
(*  - The pause is one flag with the owner the journal knows: who may      *)
(*    touch it is PauseCustody's matter, the way to the cut Ceremony's.    *)
(*  - The fleet is the snapshot a LIVE quorum runs; whether its views are  *)
(*    in sight, and what the resume guard and the gate answer, is free     *)
(*    (Fleet checks those protocols).                                      *)
(*  - Records written one after the other with nothing in between are one  *)
(*    step; IGNITED and LIVE are one state; a refused command that changed *)
(*    nothing is no step.                                                  *)
(***************************************************************************)
EXTENDS Pipeline, Naturals

CONSTANT MaxCrash   \* bound: deaths of a command

ASSUME TargetAssumption == MaxCrash \in Nat

VARIABLES
  journal,  \* what a replay recovers
  agent,    \* the running command
  site,     \* source, edge and target as they are
  fleet,    \* what the LIVE quorum runs
  crashes

vars == <<pipeline, journal, agent, site, fleet, crashes>>

JournalStates ==
  {"SNAPSHOTTED", "VERIFIED", "LIVE", "ABORTED", "STRANDED", "HALTED"}

NoAgent ==
  [pc      |-> "off",
   seg     |-> FALSE,    \* segment_started
   refroze |-> FALSE,    \* refrozen
   paused  |-> FALSE,    \* what join_checks read
   mem     |-> Nothing,  \* the evidence this join holds
   rres    |-> "none"]   \* the resume of this rollback

Init ==
  /\ PipelineInit
  /\ \E p \in {"own", "other"} :
       /\ journal = [state |-> "SNAPSHOTTED", verified |-> Nothing,
            writes |-> TRUE, steps |-> {}, done |-> FALSE, pending |-> FALSE,
            own |-> p = "own", create |-> FALSE, id |-> "none",
            join |-> FALSE, ignite |-> FALSE, unhalted |-> FALSE]
       /\ site = [edge |-> "frozen", paused |-> p, moved |-> FALSE, made |-> 0,
            up |-> Nothing, open |-> FALSE, forced |-> FALSE]
  /\ agent = NoAgent
  /\ fleet \in {Whole(s) : s \in Snapshot}
  /\ crashes = 0

At(l) == agent.pc = l
Go(l) == agent' = [agent EXCEPT !.pc = l]
Ends  == agent' = NoAgent

(* A transition record, and what its replay forgets.                       *)
Moved(j, s) ==
  [j EXCEPT !.state = s, !.done = FALSE,
     !.ignite   = @ \/ s \in {"LIVE", "HALTED"},
     !.unhalted = @ /\ s # "HALTED",
     !.pending  = @ /\ s \notin {"ABORTED", "STRANDED"},
     !.steps    = IF s = "ABORTED" THEN @ ELSE {}]
Move(s) == journal' = Moved(journal, s)

PastNoReturn ==
  \/ journal.create \/ journal.join \/ journal.ignite
  \/ journal.state \in {"LIVE", "HALTED"}
RolledBack == journal.state = "ABORTED" /\ journal.done
ReopenPending == journal.writes /\ "on_abort" \notin journal.steps
Sealed == site.paused # "no" /\ ~site.moved

(***************************************************************************)
(* run.                                                                    *)
(***************************************************************************)
StartRun ==
  /\ At("off") /\ ~journal.pending
  /\ Go("run")
  /\ UNCHANGED <<pipeline, journal, site, fleet, crashes>>

(* What a dead command left running is stopped first.                      *)
InDoubt ==
  /\ journal.ignite \/ (journal.create /\ journal.id = "none")
  /\ ~journal.unhalted
  /\ journal.state \in {"SNAPSHOTTED", "VERIFIED"}

Run ==
  /\ At("run") /\ Killed
  /\ CASE InDoubt -> Move("HALTED") /\ Ends /\ UNCHANGED stage
       [] ~InDoubt /\ journal.state = "SNAPSHOTTED" ->
            Go("verify") /\ stage' = "begin" /\ UNCHANGED journal
       [] ~InDoubt /\ journal.state = "VERIFIED" ->
            Go("verified") /\ UNCHANGED <<journal, stage>>
       [] ~InDoubt /\ journal.state = "STRANDED" ->
            Go("reseal") /\ UNCHANGED <<journal, stage>>
       [] OTHER -> Ends /\ UNCHANGED <<journal, stage>>
  /\ UNCHANGED <<work, site, fleet, crashes>>

RunRefused ==
  /\ At("run") /\ Running
  /\ Ends /\ UNCHANGED <<pipeline, journal, site, fleet, crashes>>

Verify ==
  /\ agent.pc \in {"verify", "jverify"} /\ stage \notin {"ok", "failed"}
  /\ PipelineStep
  /\ UNCHANGED <<journal, agent, site, fleet, crashes>>

Verified ==
  /\ At("verify") /\ stage = "ok"
  /\ journal' = [Moved(journal, "VERIFIED") EXCEPT !.verified = work.boot]
  /\ Go("verified") /\ stage' = "off"
  /\ UNCHANGED <<work, tool, box, site, fleet, crashes>>

NotVerified ==
  /\ At("verify") /\ stage \in {"ok", "failed"}
  /\ Go("abort") /\ stage' = "off"
  /\ UNCHANGED <<work, tool, box, journal, site, fleet, crashes>>

(* The boot files are the verified ones, the source is sealed, and a quorum*)
(* verified the same.  A join has been through its own checks.             *)
Gate ==
  /\ At("verified") /\ work.boot = journal.verified
  /\ journal.join \/ (Sealed /\ journal.verified = fleet)
  /\ Go("create")
  /\ UNCHANGED <<pipeline, journal, site, fleet, crashes>>

Refused ==
  /\ agent.pc \in {"verified", "create", "ignite"}
  /\ Go("abort")
  /\ UNCHANGED <<pipeline, journal, site, fleet, crashes>>

CreateAgain ==    \* mutant: a creation that gave no id is tried again
  /\ At("create")
  /\ IF journal.id # "none" THEN Go("ignite") /\ UNCHANGED journal
     ELSE Sealed /\ journal' = [journal EXCEPT !.create = TRUE] /\ Go("creating")
  /\ UNCHANGED <<pipeline, site, fleet, crashes>>

(* A known chain is reused; an unanswered creation is never repeated; the  *)
(* intent is the point of no return.                                       *)
Create ==
  /\ At("create")
  /\ IF journal.id # "none" THEN Go("ignite") /\ UNCHANGED journal
     ELSE /\ ~journal.create /\ Sealed
          /\ journal' = [journal EXCEPT !.create = TRUE] /\ Go("creating")
  /\ UNCHANGED <<pipeline, site, fleet, crashes>>

CreateHook(effect, id) ==
  /\ At("creating") /\ (id => effect)
  /\ site' = [site EXCEPT !.made = IF effect THEN @ + 1 ELSE @]
  /\ IF id THEN journal' = [journal EXCEPT !.id = "own"] /\ Go("ignite")
     ELSE Go("abort") /\ UNCHANGED journal
  /\ UNCHANGED <<pipeline, fleet, crashes>>

Ignite ==
  /\ At("ignite")
  /\ journal.join \/ Sealed
  /\ journal' = [journal EXCEPT !.ignite = TRUE] /\ Go("igniting")
  /\ UNCHANGED <<pipeline, site, fleet, crashes>>

Ignited(effect, ok) ==
  /\ At("igniting") /\ (ok => effect)
  /\ site' = [site EXCEPT !.up = IF effect THEN work.checkpoint ELSE @]
  /\ IF ok THEN Move("LIVE") /\ Ends ELSE Go("abort") /\ UNCHANGED journal
  /\ UNCHANGED <<pipeline, fleet, crashes>>

(***************************************************************************)
(* abort, strand and the steps of a rollback.                              *)
(***************************************************************************)
Abort(clear) ==
  /\ At("abort")
  /\ IF PastNoReturn THEN Move("HALTED") /\ Ends
     ELSE IF clear THEN journal' = [journal EXCEPT !.pending = TRUE] /\ Go("rb")
     ELSE Go("strand") /\ UNCHANGED journal
  /\ UNCHANGED <<pipeline, site, fleet, crashes>>

(* ensure_source_paused: one more pause if a read does not show one.       *)
Sealings ==
  IF site.paused # "no" THEN {<<journal.own, site.paused>>}
  ELSE {<<TRUE, "own">>, <<TRUE, "no">>}

Reseal ==
  /\ At("reseal")
  /\ \E p \in Sealings : /\ journal' = [journal EXCEPT !.own = p[1]]
                         /\ site' = [site EXCEPT !.paused = p[2]]
  /\ Ends /\ UNCHANGED <<pipeline, fleet, crashes>>

Strand ==
  /\ At("strand")
  /\ \E p \in Sealings :
       /\ journal' = Moved([journal EXCEPT !.own = p[1]], "STRANDED")
       /\ site' = [site EXCEPT !.paused = p[2], !.open = site.edge = "open"]
  /\ Ends /\ UNCHANGED <<pipeline, fleet, crashes>>

(* The agent's own pause is resumed; another one is left.                  *)
RollbackResume(ok) ==
  /\ At("rb") /\ journal.own
  /\ IF ok
     THEN /\ journal' = [journal EXCEPT !.own = FALSE,
                                        !.steps = @ \cup {"resume"}]
          /\ site' = [site EXCEPT !.paused = "no"]
     ELSE UNCHANGED journal /\ site' \in {site, [site EXCEPT !.paused = "no"]}
  /\ agent' = [agent EXCEPT !.pc = "rb_check", !.rres = IF ok THEN "ok" ELSE "err"]
  /\ UNCHANGED <<pipeline, fleet, crashes>>

RollbackNoResume ==
  /\ At("rb") /\ ~journal.own /\ Go("rb_check")
  /\ UNCHANGED <<pipeline, journal, site, fleet, crashes>>

(* A source that is paused, or cannot be read, keeps its writes frozen.    *)
RollbackCheck(seen) ==
  /\ At("rb_check")
  /\ seen = "unreadable" \/ (seen = "paused" <=> site.paused # "no")
  /\ IF /\ agent.rres = "ok" \/ journal.writes
        /\ agent.rres # "err" /\ seen # "producing"
     THEN Go("strand") /\ UNCHANGED journal
     ELSE Move("ABORTED") /\ Go("rb_open")
  /\ UNCHANGED <<pipeline, site, fleet, crashes>>

(* Read once more, then on_abort; a step done is recorded.                 *)
Reopen(effect, ok) ==
  /\ At("rb_open") /\ ReopenPending /\ agent.rres # "err"
  /\ site.paused = "no" /\ (ok => effect)
  /\ site' = [site EXCEPT !.edge = IF effect THEN "open" ELSE @]
  /\ IF ok THEN /\ journal' = [journal EXCEPT !.steps = @ \cup {"on_abort"}]
                /\ Go("rb_done")
     ELSE Ends /\ UNCHANGED journal
  /\ UNCHANGED <<pipeline, fleet, crashes>>

NotReopened ==
  /\ At("rb_open")
  /\ ReopenPending \/ agent.rres = "err"
  /\ Ends /\ UNCHANGED <<pipeline, journal, site, fleet, crashes>>

NothingToReopen ==
  /\ At("rb_open") /\ ~ReopenPending /\ agent.rres # "err"
  /\ Go("rb_done")
  /\ UNCHANGED <<pipeline, journal, site, fleet, crashes>>

RollbackDone ==
  /\ At("rb_done")
  /\ journal' = [journal EXCEPT !.done = TRUE]
  /\ Ends /\ UNCHANGED <<pipeline, site, fleet, crashes>>

(***************************************************************************)
(* The operator's rollback and unhalt.                                     *)
(***************************************************************************)
StartRollback ==
  /\ At("off") /\ Killed /\ Go("op")
  /\ UNCHANGED <<work, stage, journal, site, fleet, crashes>>

Held ==
  ~journal.own /\ site.paused # "no" /\ ReopenPending /\ ~RolledBack
NeedsGuard ==
  /\ ~PastNoReturn /\ "resume" \notin journal.steps
  /\ journal.state # "ABORTED" \/ ~journal.done

(* Refused: without the flag it takes, rolled back already, or guarded.    *)
OpEnds ==
  /\ At("op")
  /\ \/ Held \/ RolledBack \/ PastNoReturn
     \/ NeedsGuard /\ journal.state = "ABORTED"
  /\ Ends
  /\ UNCHANGED <<pipeline, journal, site, fleet, crashes>>

(* The guard refuses: sealed, again or for the first time.                 *)
OpGuarded ==
  /\ At("op") /\ NeedsGuard /\ journal.state # "ABORTED"
  /\ Go(IF journal.state = "STRANDED" THEN "reseal" ELSE "strand")
  /\ UNCHANGED <<pipeline, journal, site, fleet, crashes>>

(* Guard clear or --force-stranded, --force-after-ignite past the point of *)
(* no return; the intent first; a pause of someone else is then ours.      *)
OpGoes ==
  /\ At("op") /\ ~RolledBack
  /\ journal' = [journal EXCEPT !.pending = TRUE, !.own = @ \/ Held]
  /\ Go(IF PastNoReturn THEN "fence" ELSE "rb")
  /\ UNCHANGED <<pipeline, site, fleet, crashes>>

Fence ==
  /\ At("fence")
  /\ site' = [site EXCEPT !.up = Nothing, !.forced = TRUE] /\ Go("rb")
  /\ UNCHANGED <<pipeline, journal, fleet, crashes>>

FenceFails ==
  /\ At("fence") /\ Ends
  /\ UNCHANGED <<pipeline, journal, site, fleet, crashes>>

Unhalt ==
  /\ At("off") /\ journal.state = "HALTED"
  /\ journal' = [Moved(journal, "VERIFIED") EXCEPT !.unhalted = TRUE]
  /\ UNCHANGED <<pipeline, agent, site, fleet, crashes>>

(***************************************************************************)
(* join.                                                                   *)
(***************************************************************************)
(* A committed join is finished: the chain is in its record.               *)
ResumeJoin ==
  /\ At("off") /\ ~journal.pending /\ journal.join
  /\ LET j == [journal EXCEPT !.id = IF @ = "none" THEN "fleet" ELSE @]
     IN  journal' = IF journal.state \in {"STRANDED", "ABORTED"}
                    THEN Moved(j, "VERIFIED") ELSE j
  /\ Go("run") /\ UNCHANGED <<pipeline, site, fleet, crashes>>

Joinable ==
  /\ At("off") /\ ~journal.pending /\ ~journal.join
  /\ journal.state \in {"STRANDED", "ABORTED"}
  /\ ~journal.ignite /\ journal.id = "none"

Join ==
  /\ Joinable /\ journal.verified # Nothing
  /\ agent' = [NoAgent EXCEPT !.pc = "jfreeze", !.mem = journal.verified]
  /\ UNCHANGED <<pipeline, journal, site, fleet, crashes>>

Reverifies(allowed) ==
  /\ Joinable /\ allowed /\ ~site.moved
  /\ Go("jverify") /\ stage' = "begin"
  /\ UNCHANGED <<work, tool, box, journal, site, fleet, crashes>>
JoinReverifyAny == Reverifies(TRUE)     \* mutant
JoinReverify == Reverifies(journal.verified = Nothing)

(* Nothing is journaled until the quorum's evidence matches.               *)
Reverified ==
  /\ At("jverify") /\ stage \in {"ok", "failed"}
  /\ IF stage = "ok"
     THEN agent' = [agent EXCEPT !.pc = "jfreeze", !.mem = work.boot] ELSE Ends
  /\ stage' = "off"
  /\ UNCHANGED <<work, tool, box, journal, site, fleet, crashes>>

(* start_segment: what an earlier undo did is forgotten.                   *)
SegmentKeepsDone(j) ==    \* mutant: the earlier undo still counts as done
  [j EXCEPT !.writes = @ /\ "on_abort" \notin j.steps, !.steps = {}]
Segment(j) ==
  [j EXCEPT !.writes = @ /\ "on_abort" \notin j.steps, !.steps = {},
            !.done = FALSE]

ReopenedFully == RolledBack     \* mutant: an undo half done froze still
Reopened == journal.state = "ABORTED"

StartSegment ==
  /\ At("jfreeze")
  /\ IF Reopened
     THEN /\ journal' = Segment(journal)
          /\ agent' = [agent EXCEPT !.pc = "jintent", !.seg = TRUE,
                                    !.refroze = TRUE]
     ELSE Go("jcheck") /\ UNCHANGED journal
  /\ UNCHANGED <<pipeline, site, fleet, crashes>>

RefreezeIntent ==
  /\ At("jintent")
  /\ journal' = [journal EXCEPT !.writes = TRUE] /\ Go("jhook")
  /\ UNCHANGED <<pipeline, site, fleet, crashes>>

(* Refused after on_freeze ran again: on_abort is due again.               *)
RefusedAfterRefreeze ==
  /\ journal' = [journal EXCEPT !.done = FALSE, !.steps = @ \ {"on_abort"}]
  /\ Ends

Refreeze(effect, ok) ==
  /\ At("jhook") /\ (effect => ~Running) /\ (ok => effect)
  /\ site' = [site EXCEPT !.edge = IF effect THEN "frozen" ELSE @]
  /\ IF ok THEN Go("jcheck") /\ UNCHANGED journal ELSE RefusedAfterRefreeze
  /\ UNCHANGED <<pipeline, fleet, crashes>>

(* join_view: a quorum is LIVE with this very evidence.                    *)
QuorumLive(ours) == ours = fleet

(* The boot files, the quorum's evidence, a source that did not move.      *)
JoinChecked ==
  /\ At("jcheck") /\ work.boot = agent.mem /\ QuorumLive(agent.mem) /\ ~site.moved
  /\ agent' = [agent EXCEPT !.pc = "jcommit", !.paused = site.paused # "no"]
  /\ UNCHANGED <<pipeline, journal, site, fleet, crashes>>

JoinRefused ==
  /\ At("jcheck")
  /\ IF agent.refroze THEN RefusedAfterRefreeze ELSE Ends /\ UNCHANGED journal
  /\ UNCHANGED <<pipeline, site, fleet, crashes>>

JoinRecord ==
  /\ At("jcommit")
  /\ LET j == [journal EXCEPT !.verified = agent.mem]
     IN  journal' = IF agent.seg THEN j ELSE Segment(j)
  /\ Go(IF agent.paused THEN "jmark" ELSE "jpause")
  /\ UNCHANGED <<pipeline, site, fleet, crashes>>

JoinPause(applied, ok) ==
  /\ At("jpause") /\ (ok => applied)
  /\ journal' = [journal EXCEPT !.own = TRUE]
  /\ site' = [site EXCEPT !.paused = IF applied THEN "own" ELSE @]
  /\ IF ok THEN Go("jmark") ELSE Ends
  /\ UNCHANGED <<pipeline, fleet, crashes>>

(* From here a failure halts.                                              *)
JoinCommit ==
  /\ At("jmark")
  /\ journal' = [journal EXCEPT !.join = TRUE, !.create = TRUE] /\ Go("jmove")
  /\ UNCHANGED <<pipeline, site, fleet, crashes>>

Joined ==
  /\ At("jmove")
  /\ journal' = Moved([journal EXCEPT !.id = "fleet"], "VERIFIED") /\ Go("run")
  /\ UNCHANGED <<pipeline, site, fleet, crashes>>

(***************************************************************************)
(* The world: deaths, hooks that run on, the source and its other owners.  *)
(***************************************************************************)
HookOf(pc) ==
  CASE pc = "creating" -> "create" [] pc = "jhook" -> "freeze"
    [] pc = "rb_open" -> "reopen" [] OTHER -> "none"

Crash ==
  /\ ~At("off") /\ crashes < MaxCrash /\ crashes' = crashes + 1
  /\ \/ Dies
     \/ /\ HookOf(agent.pc) # "none" /\ ~Running
        /\ At("rb_open") => /\ ReopenPending /\ agent.rres # "err"
                            /\ site.paused = "no"
        /\ tool' = [NoTool EXCEPT !.kind = HookOf(agent.pc)]
        /\ stage' = "off" /\ UNCHANGED box
  /\ Ends /\ UNCHANGED <<work, journal, site, fleet>>

ToolRuns == ToolWorks /\ UNCHANGED <<journal, agent, site, fleet, crashes>>

HookRuns ==
  /\ tool.kind \in {"create", "freeze", "reopen"} /\ tool' = NoTool
  /\ site' = [site EXCEPT
       !.made = IF tool.kind = "create" THEN @ + 1 ELSE @,
       !.edge = CASE tool.kind = "freeze" -> "frozen"
                  [] tool.kind = "reopen" -> "open" [] OTHER -> @]
  /\ UNCHANGED <<work, box, stage, journal, agent, fleet, crashes>>

(* hold_source_sealed, and the pipeline's own: an open pause is re-made.   *)
HoldSealed ==
  /\ agent.pc \in {"verify", "verified"} /\ ~journal.create /\ ~journal.ignite
  /\ journal.own /\ site.paused = "no"
  /\ site' = [site EXCEPT !.paused = "own"]
  /\ UNCHANGED <<pipeline, journal, agent, fleet, crashes>>

OthersPause ==
  /\ site.paused = "no" /\ site' = [site EXCEPT !.paused = "other"]
  /\ UNCHANGED <<pipeline, journal, agent, fleet, crashes>>

Unpaused ==
  /\ site.paused # "no" /\ site' = [site EXCEPT !.paused = "no"]
  /\ UNCHANGED <<pipeline, journal, agent, fleet, crashes>>

Produces ==
  /\ site.paused = "no" /\ ~site.moved /\ site' = [site EXCEPT !.moved = TRUE]
  /\ UNCHANGED <<pipeline, journal, agent, fleet, crashes>>

Commands ==
  StartRun \/ StartRollback \/ Unhalt \/ ResumeJoin \/ Join \/ JoinReverify

Steps ==
  \/ Run \/ RunRefused \/ Verify \/ Verified \/ NotVerified \/ Gate \/ Refused
  \/ Create \/ Ignite \/ Reseal \/ Strand \/ RollbackNoResume
  \/ NotReopened \/ NothingToReopen \/ RollbackDone
  \/ OpEnds \/ OpGuarded \/ OpGoes \/ Fence \/ FenceFails
  \/ Reverified \/ StartSegment \/ RefreezeIntent \/ JoinChecked \/ JoinRefused
  \/ JoinRecord \/ JoinCommit \/ Joined
  \/ \E ok \in BOOLEAN : Abort(ok) \/ RollbackResume(ok)
  \/ \E effect, ok \in BOOLEAN :
       \/ CreateHook(effect, ok) \/ Ignited(effect, ok) \/ Reopen(effect, ok)
       \/ Refreeze(effect, ok) \/ JoinPause(effect, ok)
  \/ \E seen \in {"paused", "producing", "unreadable"} : RollbackCheck(seen)

World ==
  Crash \/ ToolRuns \/ HookRuns \/ HoldSealed \/ OthersPause \/ Unpaused \/ Produces

Next == Commands \/ Steps \/ World

Spec == Init /\ [][Next]_vars
-----------------------------------------------------------------------------
TypeOK ==
  /\ work \in [log : File, env : BOOLEAN, checkpoint : File, boot : File]
  /\ tool.kind \in {"none", "export", "import", "severed", "create", "freeze",
                    "reopen"} /\ tool.reads \in File
  /\ box \in BOOLEAN
  /\ stage \in {"off", "begin", "export", "exported", "import", "imported",
                "compared", "ok", "failed"}
  /\ journal.state \in JournalStates /\ journal.verified \in File
  /\ journal.steps \subseteq {"resume", "on_abort"}
  /\ journal.id \in {"none", "own", "fleet"}
  /\ DOMAIN agent = DOMAIN NoAgent /\ agent.mem \in File
  /\ site \in [edge : {"open", "frozen"}, paused : {"no", "own", "other"},
               moved : BOOLEAN, made : 0..2, up : File, open : BOOLEAN,
               forced : BOOLEAN]
  /\ fleet \in File /\ crashes \in 0..MaxCrash

(* What a ceremony journals as verified, first or again, is the whole of   *)
(* its own cut: no part, and no other snapshot of the same block, left in  *)
(* the work directory by an earlier ceremony, attempt or outliving tool.   *)
VerifiedIsTheCut == journal.verified \in {Nothing, Whole(Cut)}

(* A target runs the checkpoint this journal verified, whatever attempts   *)
(* came after that; a joined one what the quorum runs.                     *)
BootsWhatVerified ==
  /\ site.up # Nothing => site.up = journal.verified
  /\ site.up # Nothing /\ journal.join => site.up = fleet

(* One chain per journal: an unanswered creation, a death and its orphan   *)
(* included, is never repeated, nor left behind for the fleet's chain.     *)
OneTarget ==
  /\ site.made <= 1
  /\ journal.join => site.made = 0 \/ site.forced

(* Past the point of no return the edge is frozen: whatever an undo before *)
(* a join reopened, and whoever died, is frozen again first.  Excused: a   *)
(* forced rollback, and a strand over an open edge (StrandedEdge).         *)
CommittedIsFrozen ==
  PastNoReturn => site.edge = "frozen" \/ site.open \/ site.forced

(* An ABORTED ceremony that counts as rolled back is: the edge is open and *)
(* no pause of its own is left, also after a join that was refused.        *)
DoneMeansUndone ==
  RolledBack => site.edge = "open" /\ ~journal.own
=============================================================================
