# pulse-cutover: TLA+ models and proofs

`pulse-cutover` moves an Antelope chain from one node implementation to another at a chosen block
`H`. On every producer an agent freezes writes, lets the chain become quiescent at `H`, pauses the
producer, takes and verifies a snapshot, creates and ignites the target, and at every point before
ignition must be able to put everything back: un-pause the producer, reopen the edge, restore the
producer's transaction admission. The difficulty is not the forward path. It is that the agent
shares the producer with operators, hooks, schedulers and nodeos restarts that pause and un-pause it
too, that nodeos cannot say *whose* pause it holds, that RPCs and hooks fail after taking effect, that
the agent may die between any two records of its journal, that several members must go one way without an
agreement protocol, and that after the point of no return going back would run two chains. The modules
here are about that.

Contents: [1 inventory](#1-inventory) · [2 plan](#2-plan) · [3 modules](#3-modules) ·
[4 runs](#4-runs) · [5 fairness](#5-fairness) · [6 disagreements found](#6-disagreements-found) ·
[7 proofs](#7-proofs) · [8 mutants](#8-mutants) · [9 limits](#9-what-is-only-model-checked-and-what-is-not-modelled)

Source paths below are the repository's (`src/machine.rs` is the agent's `machine.rs`; `PROJECT.json`
gives them with the checkout's `src/` prefix). Run everything in this directory:

    tlc -workers 2 -config CeremonyScheduled.cfg MCCeremony.tla
    tlapm TargetProofs.tla

## 1 Inventory

### 1.1 The agent (Rust, `src/*.rs`)

| component | state it keeps | operations | what makes it correct |
|---|---|---|---|
| pause-episode log (`journal.rs` `pause_episodes`) | a vector of (owner, open) episodes folded from the journal | pause, ack, resume intent, resume, release | only the newest open episode is ever consulted; a closed one never again |
| pause custody (`machine.rs` `read_paused`, `src_pause`, `src_resume`, `adopt_external_pause`, `reassert_seal`) | `pause_events`, `paused_by_us`, `pause_unknown`, `ever_paused_by_us` | read, adopt, pause, re-pause, resume, release | never resume someone else's pause; never forget one's own |
| ceremony state machine (`machine.rs` `run`, `step_*`, `abort`, `strand`, `halt`, `rollback_steps`, `operator_rollback_opts`) | state, `ignition_started`, `rollback_pending`, `strand_intent`, `rollback_steps_done`, `writes_closed_by_us`, `admission_lock` | run, rollback, join, unhalt | a rollback called done undid everything; writes reopen only into a producing chain; nothing resumes past the point of no return; a ceremony that decided to go back never goes on; one target per journal, and it boots what was verified |
| journal (`journal.rs`) | an append-only file, fsynced per record; torn tail | open and repair, append, replay | a replay recovers what the dead agent had durably decided, and a crash leaves a journal that opens |
| admission lock (`machine.rs` `lock_admission`, `check_admission_lock`, `release_admission`; burn-off audit in `step_frozen`) | the producer's actor whitelist; the lock intent | lock, re-lock, release, audit | restored only into a producing source, always before a rollback is done, never over another list; no block after `H` has transactions |
| hooks (`ops.rs`) | process groups, a marker for the one running | run with timeout, stop an orphan | an orphan never acts after the next command believed it stopped |
| fleet view, resume guard, gate (`fleet.rs`, `machine.rs` `fleet_gate`, `wait_own_report_withdrawn`) | members' reports with ages, exit marks | guard, gate, withdraw | no gate counts a member that resumes, and none creates without the word of every member that has resumed |
| coordination (`coord.rs`) | await loop, accepted payload, child, tombstones | await, arm, derive, start, resume, abort | an event is started once, and only as armed; an aborted event never goes on |
| beacon (`beacon.rs`) | last report, sequence | probe, send | the report says what the journal says |
| producer gate (`producer_gate.rs`) | none (reads schedules and versions) | cover, precheck | the fleet covers the schedule before the freeze |
| upstream pipeline (`upstream.rs`) | staged files, tool processes | export, import, compare, boot files | nothing but the whole of this ceremony's cut is ever taken for verified |
| readiness drill (`drill.rs`) | three locks, the producer's marker, the published record, a recorded group, a container | drill, cancel, clear-marker | a drill and a ceremony never work on one producer together |
| live watch, looper (`live_watch.rs`, `looper.rs`) | successive heads; the loop's gate | judge, loop | a stalled target is noticed once |
| shadow ceremonies (`shadow.rs`) | the identity binding | gate each source mutation | a shadow never touches a source it was not bound to |
| verify, scan, keys, secrets, sanitize | none | hash, parse, redact | pure data |
| doctor, report, config, main, stop | none | read-only checks, parsing | – |

### 1.2 Around the agent

| component | state | operations | what makes it correct |
|---|---|---|---|
| mission control relay (`control/*.mjs`, `server.js`) | members' latest reports, instance conflicts, high-water marks | ingest, resolve, persist | a member's high-water mark never decreases, across restarts too |
| edge gateway (`gateway/server.js`) | none | translate `/v1` | formatting |
| history federator (`federator/server.js`) | boundary file | route a block range | each block is served by exactly one history |
| installers, replay tools (`install.sh`, `cutover.sh`, `tools/`) | files | shell, comparison | – |

### 1.3 How they interact

- The agent *calls* nodeos (`/v1/producer/pause`, `resume`, `paused`, whitelist) and the hooks; either
  may take effect and answer an error, or answer ok and have no effect.
- The agent *records* in the journal: an intent before an effect with consequences, an
  acknowledgement or a closing record after it. A new process sees the journal only.
- Agents *see each other* only through the relay, in reports that have an age; there is no agreement
  protocol, only gates that fail closed.
- The *commands* are `run`, `rollback`, `unhalt` and `join`; one process at a time holds the journal's
  lock. Any can be started after the last ended or died; `await` starts `run` as its child.
- A *drill* shares the producer with the ceremony and keeps away from it by lock files, a marker and records
  that are each read and written on their own.

### 1.4 Which behaviours are hard

Ownership of a pause under other actors (reads that decide, RPCs that follow them later, an
un-pause and re-pause no read can see); a death between an intent and its effect, an effect and its
record, a decision and its transition; an undo of several steps one of which fails, repeated later
from the steps already done; a hook outliving the agent; every wait re-sealing the source while an
operator un-pauses it; the last moment at which resuming is allowed; reports that are true when sent and
false when counted; a tool of a dead process writing the file the next one reads. `PROJECT.json` lists them as
`hazards`, each at its line with the properties that cover it or the reason why none does.

## 2 Plan

Order: what can lose a chain first (the pause's ownership, then the undo, then agreement across
members, then what a target boots), then what starts and surrounds a ceremony.

| | module | models | builds on | status |
|---|---|---|---|---|
| 1 | `EpisodeStack` | pause-episode log as a stack (operators): the abstract specification of 2 | – | done |
| 2 | `PauseEpisodes` | the fold as `journal.rs` writes it (operators) | 1 | done |
| 3 | `PauseCustody` | the pause primitives against other actors and deaths: the abstract protocol of 4 | 1 | done, proved |
| 4 | `Ceremony` | `run`, `abort`, `strand`, `halt`, `rollback` of one producer, implements 3 | 3 | done; refinement and every safety property proved |
| 5 | `OneChain`, `Fleet` | members' reports, marks and memories, guard, gate, withdrawal, early abort, fresh journals, a restored relay; implements `OneChain` | – | done; every property proved |
| 6 | `Journal` | the file: append, fsync, repair, replay | 2 | done; every property proved |
| 7 | `Await` | await, ARM, tombstones, restarts, its child and the operator's own commands | – | done; every property proved |
| 8 | `Pipeline`, `Target` | verification, chain creation, unhalt, join, re-verification | – | done; every property proved |
| 9 | `Drill` | locks, marker, record, groups and container between drill, ceremony and operator | – | done; every property proved |

What was considered and left out, most worthwhile first:

- The *burn-off audit* over several producers' blocks after `H` (`machine.rs` 5192): it is one of the reasons of
  `Fails` in `Ceremony`. What it reads are finished blocks, no step of an agent interleaves with it.
- *Relay ingest* (instance conflicts, authentication, file formats): `Fleet` has the marks and their
  loss, which is what the agents rest on.
- *cancel-intent, api mode, degraded waits, shadow journals, the fork backend*: variants of commands that are modelled,
  each with its own refusals.

## 3 Modules

### 3.1 `EpisodeStack.tla`, `PauseEpisodes.tla`, `Journal.tla`

`pause_episodes` (`journal.rs` 211–276) folds the journal's pause records into `Vec<(PauseOwner, bool)>`,
each record searching it from the newest entry for the latest open one. `PauseEpisodes` is that fold;
`EpisodeStack` is what the code relies on: a stack of the owners of the open episodes (`ours`, `external`,
`unknown`, `closing`) with one operator per record kind. The other modules use the stack.

Owners: an own intent is `unknown` until acknowledged (`acksTracked`; older journals track no acks and
start `ours`), `ours` after, `closing` from the resume intent on; `external` is adopted; an operator's
release makes it `ours` for the run that journaled it (`live`) and `unknown` for any run that replays it.

`Journal` is the file the records live in: a sequence of units (two halves of a body, a line feed), because the
body and the line feed are two writes and either may be torn. A line ends at each of `Ends` and parses (`LineParses`)
when it is one whole body; the records of a replay (`Recovered`) are therefore the bodies at every third unit. Both folds,
over the events and over the episodes, are recursive functions, which the prover can reason about (7).

| variable | code |
|---|---|
| `file`, `synced` | the bytes as the kernel holds them; how many are on the disk for certain |
| `pc`, `eps` | the agent that holds the lock: opening (`tail`, `cut`, `flush`, `replay`) or writing (`up`, `line`, `sync`, `dirty`); its folded episodes |
| `event`, `acked` | what each record carries; the records whose write returned Ok |
| `legacy`, `acks`, `intent` | an older agent's journal; the ARMED record's flag; a pause of its own not yet confirmed |
| `settled`, `spoilt` | ghosts: the episodes at the last fsync; a partial write was left behind and the agent wrote on |

`TakeLock`, `RepairRefuses` | `TailClean` | `AddNewline` | `SaveAside`, `Cut`, `Flush`, then `ReplayRefuses` or `Replay` are
`Journal::open`; `WriteBody`, `LineFeed`, `Sync` and their failures are `append`; `Dies` is a kill or a power loss,
which keeps any prefix that holds the synced one. A record whose fsync failed stays in the file and
may come back as if it had been acknowledged; `OwnershipIsEarned` says exactly what such a ghost may give.
An agent that writes on after a write that failed in part glues the next record to the fragment, and the next
open refuses although `EVIDENCE.md`'s I6 says it recovers: `spoilt` marks that case, and `OpensAgain` excuses it.

### 3.2 `PauseCustody.tla`

| variable | code |
|---|---|
| `pause` | ground truth at nodeos: `none`, `agent`, `external` (nodeos reports only paused or not) |
| `jopen`, `open` | what a replay folds to; `Machine::pause_events` of the running agent |
| `ever` | `ever_paused_by_us` |
| `step`, `answer` | where inside `src_pause` / `src_resume`; the last answer |
| `trusted`, `hidden` | ghosts: the agent has an acknowledged pause whose end it has not seen; the present external pause began where no read could see it |
| `ext`, `crashes` | bounds |

Each durable record, RPC and read is a step of its own, and others may act, and the agent die, between
any two. `src_pause` is `AdoptExternalPause` | `PauseUnreadable` | `PauseIntent` | `PauseAgain`, then `PauseRpc`,
then `PauseAck`; `src_resume` is `ResumeOwn` (or `ResumeUnpaused`, the FROZEN recovery's), `ResumeRpc`,
`ResumeConfirm`, then the caller's `ResumeClose` or `ResumeRecheck`. `SealTick` is the pipeline's `reassert_seal`.
Callers are free here: any primitive may start whenever its own guard holds. That is the point: what
is shown holds for any ceremony built from these primitives.

What `NoForeignResume` excuses is named, not assumed away: a pause someone makes between a read and the
RPC after it (RISK-REGISTER A-20), or after an un-pause the agent had no read of (A-21), cannot be told
apart by any client of nodeos; `hidden` marks exactly these windows and nothing else. A pause the
operator released explicitly in this run is the other exception.

### 3.3 `Ceremony.tla`

One producer's ceremony in producer mode, over `P == INSTANCE PauseCustody` with its variables. Three more:
`journal` (what a replay recovers), `agent` (the process; lost at a death), `site` (edge, whitelist, an
orphaned hook). `agent.pc` names the place in the code:

| actions | code |
|---|---|
| `StartRun` … `RunOn`, `Preflight`, `RunEnds`, `Exit` | `run`, its dispatch on a replayed journal, `preflight`, `stop_point` |
| `Pause`, `Seal`, `Hold`, `Sealed` | `src_pause`; `ensure_source_paused`; `hold_source_sealed`, as subroutines with `back`/`ret` |
| `Armed`, `LockIntent`, `LockRpc`, `FreezeIntent`, `FreezeHookRuns` | `step_armed`, `lock_admission` |
| `Frozen` … `Quiesced` | `step_frozen`: recovery of a pause, snapshot, pause, quiescence |
| `Snapshotted`, `VerifyTick`, `Verified` | `step_snapshotted` with the `ReassertSeal` tick |
| `VerifiedTick`, `CreateIntent`, `Created`, `NoCreation`, `IgniteIntent`, `Ignited`, `Live` | `step_verified` with the fleet gate's ticks, `upstream_create_chain`, `step_ignited` |
| `Halt`, `AbortUnguarded`, `AbortGuarded`, `Withdrawn`, `StrandRead`, `Stranded` | `abort`, `halt`, `strand` |
| `Rollback*`, `Unlock`, `NoUnlock`, `AbortHookRuns`, `NoAbortHook` | `rollback_steps` and `release_admission` |
| `StartRollback`, `Op*` | `operator_rollback_opts`, with `--force-after-ignite` (`force`) and `--force-stranded` (`fs`) |
| `Crash`, `OrphanRuns`, `OthersPause`, `OthersUnpause`, `NodeosRestart`, `OthersWhitelist` | the world |

`Moved(s)` is what a replay forgets at a transition record (`journal.rs` 600–690); `MarkStep` is `mark_step`.
The configuration's switches are the CONSTANTS, so a `.cfg` is a `cutover.toml`. `Fails` stands for every
refusal of a state that leads to `abort`; the data behind each refusal is abstracted, the fact that it may
come at any time is kept. A read and the record it decides are one step (nobody else writes the
journal); an RPC or a hook is always a step apart from both.

`Custody == P!Spec`: the ceremony implements the custody protocol.

### 3.4 `OneChain.tla`, `Fleet.tla`

`OneChain` is the promise: members go ahead with the target or return to the old chain, and never both.
`Fleet` is how the code tries to keep it with nothing but reports of some age.

| variable | code |
|---|---|
| `st`, `pc`, `ver`, `going` | the ceremony's state; where its process is (`run`, `gated`, `cleared` of an abort, `withdraw`); a VERIFIED transition in the journal; a pending rollback |
| `rep`, `mark`, `relay`, `saved` | the relay's latest report and per-event mark of a member (`nextEventMark`); its state's completeness, id and who will find it behind; a backup |
| `mem`, `tomb` | the journaled fleet memory (`note_fleet_view`); the exit tombstone on the box |
| `atH`, `signed` | the source's head is at `H`; a signed abort |
| `counted`, `back`, `blind`, `proved` | ghosts: whom a passed gate counted; who resumed the old chain; who did so on a restored relay it could not tell; an early abort was taken |

`Gate`, `NoAbort`, `Create` are `fleet_gate`, `require_no_abort` and the creation intent, three steps with others in
between. `FirstGuard`, `SecondGuard` are `resume_guard_with` around `wait_own_report_withdrawn`; `Strand` its refusal;
`RollbackStranded` `operator_rollback_opts`; `EarlyAborts` `quorum_unreachable_abort`; `FreshJournal` an agent that
starts over on a new journal; `Beacon` a report sent and marked; `RelayLost`, `Backup` the relay's own deaths.
Each read chooses *which* reports look fresh (`Fresh`), so any age, delay or loss is covered by a report
that does not. Waits have no length: the settle between the two guards (`machine.rs` 3939–3957, the longer of the member's own
beacon interval and 10 s) is a point at which the others may act, and nothing is concluded from it, because a peer past its gate may
stay in `require_no_abort` for longer (2858–2885). So `OneChain` does not promise that nobody is ahead while another is back, which the code cannot
keep (6.4, `docs/DESIGN.md` 417–420). It promises what the withdrawal and the guards can: a gate takes a set of members' word (`counted`), never that of one who is back;
whoever goes ahead has the word of everyone who is back, and nobody goes back next to one ahead who does not have its word. A member so counted may be on the other chain.

The relay has a state id and a generation. A restored relay shows the id it had and an earlier generation, but only to a member that looks before it has
caught up with the one that member knows, or has journaled (every 30 s) if it died since: `relay.behind` is the set of those who will find it behind, any set at all.
`Older` is what a member can tell, `blind` who returned while it could not.

Tombstones are assumed written when the code goes on; a member arms only below `H` and verifies only at `H`.

### 3.5 `Pipeline.tla`, `Target.tla`

From the cut on: one coordinated upstream producer in SNAPSHOTTED, with a pause of its own or an adopted one.

| variable | code |
|---|---|
| `work`, `stage` | the work directory (log, `manifest.env`, checkpoint, boot files), each file the snapshot it comes from and whether it is whole; where this process's `upstream_verify` is |
| `tool`, `box` | the recorded process group of a tool or hook; an export container that outlived its command |
| `journal` | state, the verified checkpoint, creation intent and chain id, ignition, join, unhalt, the pending rollback and its steps, whose pause |
| `agent` | the running command: `run`, `rollback`, `unhalt`, `join`, `join --reverify`, and the flags of `join_reverify` |
| `site`, `fleet` | edge, source, chains made, what the target runs; the snapshot a LIVE quorum runs |

`Export` … `BuildBoot` are the stages, `ToolWorks` what a tool writes and when, in the directory it was
started in, whether or not the process that started it is alive. `Create`, `CreateHook`, `Ignite`, `Ignited` are
`upstream_create_chain` and `step_ignited`, each hook with and without effect and with either answer; `Abort` … `RollbackDone` the undo;
`Unhalt`, `Join`, `JoinReverify`, `StartSegment`, `Refreeze`, `JoinChecked`, `JoinPause`, `JoinCommit` the
ways back in. `HookRuns` is a hook whose command died: it takes effect late. Before any command goes on, the
recorded group is stopped (`Killed`).

The guard, the gate and the LIVE view answer freely (`Fleet` has those protocols); the pause is one flag with
its owner (`PauseCustody` has who may touch it); consecutive records with nothing between them are one step; IGNITED and
LIVE are one state; two hooks and `auto_rollback` are configured.

### 3.6 `Await.tla`

`run_await` (`coord.rs`) and the child it starts: `agent` is the waiting process, `driver` whoever holds the
journal (its child, an orphan of a dead one, or an operator's own `run`), `tombs` `coord-tombstones.json` (what was
decided of an event, and which decisions came later), `derived` the `ceremony-<id>.toml` files, `journal` the ceremony's state, who it was armed for
and, on a mainnet chain, bound to. The relay is the adversary: at each look it serves any signed message and
withholds any other. `PollArms`, `Derive`, `RecordRan`, `Spawn`, `Reap` are the way of one event; `StartResumes` |
`StartWaits` what a restarted await makes of its own `ran` tombstone; `RunArms`, `RunResumes`, `RunRefuses`, `RunFinished`
what the child makes of the journal it finds; `SeesAbort`, `Clears`, `Commits` the polls around the freeze,
creation and ignition; `Halts` and `Unhalts` a seal that remembers the state it was set in and an operator who returns there (`journal.from`; GOING is IGNITED and FLIPPED, and also
VERIFIED past the creation intent, which `Halts` may remember as FROZEN); `AgentDies`, `DriverDies`, `Restart`, `StartLimit` systemd and the operator.

### 3.7 `Drill.tla`

Drills, a ceremony and an operator on one producer, under three configurations in two directories. `held` are
the three locks (journal, root, producer), `latest` the published record of a directory, `marker` the
producer's work marker, `tool`, `rec` and `box` the group, its record and the export container, which
outlive their process. `DBegin` … `DClear` is a drill; `ABegin` … `AEnd` a ceremony's preflight up to
the freeze; `OCancel` … `OEnd` `drill --cancel`, `drill --clear-marker` and the loop's reset. Each lock, read and write is a step,
and any process may die between two. A drill killed between starting a tool and recording its group
(`ops.rs`, about 880) leaves work that nothing names; such drills are in `lost`, and the properties except `SealedStaysAlone`
excuse them.

### 3.8 Proof modules

`PauseCustodyProofs`, `CeremonyProofs`, `CeremonySafetyProofs`, `FleetProofs`, `TargetProofs`, `AwaitProofs`,
`DrillProofs`, `JournalProofs`, see 7. `MC*.tla` extend the module they check and give it its
functions and symmetry sets.

## 4 Runs

| run | constants | checks | distinct states |
|---|---|---|---|
| `Journal` | 4 records, 2 deaths, partial writes | `TypeOK`, `KeepsAcknowledged`, `OpensAgain`, `ImplementsStack`, `OwnershipIsEarned` | 1.10 M |
| `PauseCustody` | 4 steps of others, depth 4, 2 deaths | `TypeOK`, `NoForeignResume`, `NoBuriedOwnership`, `OwnPauseIsRecorded`, `ReplayLosesOnlyReleases` | 121 k |
| `CeremonyScheduled` | admission lock, freeze hook, automatic rollback, forced commands; 1 step of others, 1 death | `TypeOK`, `NoOwnPauseLeft`, `DoneMeansUnlocked`, `Custody`, `ReopensOnlyIntoProducing`, `NoResumePastNoReturn`, `NeverRunsOn` | 2.35 M |
| `CeremonyEnds` | unscheduled, both hooks, no lock, `FairSpec`; 2 steps of others, 1 death | `NoOwnPauseLeft`, `DoneMeansOpen`, `EveryCommandEnds` | 0.32 M |
| `Target` | 2 snapshots of the cut block, 3 deaths | `VerifiedIsTheCut`, `BootsWhatVerified`, `OneTarget`, `CommittedIsFrozen`, `DoneMeansUndone` | 309 k |
| `Fleet` | 3 members, quorum 2, early abort, 1 fresh journal | `NoUncountedSplit`, `NoGateAfterProof`, `ReturnedNeverCounts` | 812 k |
| `FleetRestored` | 2 members, quorum 1, 1 loss of the relay | `TypeOK`, `OneOutcome` | 1.34 M |
| `Drill` | 2 drills, 1 ceremony, 1 operator, 3 configurations, 2 directories | `TypeOK`, `WorkIsNamed`, `OneDrill`, `CutAlone`, `SealedStaysAlone` | 1.55 M |
| `Await` | 3 payloads of 2 events, 2 deaths | `TypeOK`, `StartedOnce`, `OnlyWhatWasArmed`, `DrivesItsOwn`, `AbortIsFinal` | 64 k |
| `OwnPauseLeft`, `StrandedEdge`, `FleetHasty` | see 6 | one property each, violated | – |

What the properties say of the code:

- `NoOwnPauseLeft` (I1 of `tests/model.rs`): a rollback recorded as done never leaves the agent's pause in
  force, whatever was interrupted before. `DoneMeansOpen` (I7), `DoneMeansUnlocked` (I8): nor a closed edge,
  nor a locked producer, although an orphaned hook of a dead agent may still run, and a nodeos
  restart or another actor changes the whitelist behind the agent's back. `DoneMeansUndone` carries this on past a refused join.
- `ReopensOnlyIntoProducing` (I2, A-20): the edge and the admission reopen into a paused producer only if
  someone else paused it after the very last read (`readAt` counts their steps).
- `NoResumePastNoReturn` (I4): past a creation or ignition intent only a forced rollback that fenced this
  box's target sends a resume.
- `NeverRunsOn`: after a durable decision to go back (`rollback_pending`, `strand_intent`) no later run takes
  the ceremony forward, wherever the deciding process died.
- `Custody`: no caller uses a primitive outside its guard (refinement of `PauseCustody`).
- `EveryCommandEnds` (I6): see 5.
- `KeepsAcknowledged`, `OpensAgain`: the repair of a torn tail drops the torn record, never another, and itself survives
  a death. `ImplementsStack`: the fold is the abstract stack. `OwnershipIsEarned`: no restart makes a pause ours.
- `VerifiedIsTheCut`, `BootsWhatVerified`, `OneTarget`: files and tools of an earlier attempt never end up in what
  is verified or booted, and a creation whose answer was lost is neither repeated nor forgotten by a join.
  `CommittedIsFrozen`: a join over an edge that a rollback reopened freezes it again first, whoever dies.
- `NoUncountedSplit`, `OneOutcome`, `ReturnedNeverCounts`, `NoGateAfterProof`: a gate counts reports sent before a peer
  withdrew; the marks, memories, tombstones and the two guards must make up for it. `NoUncountedSplit` is as strong as the code allows: whoever is
  ahead while another is back had counted that member while it was still in (6.4 is such a split).
- `StartedOnce`, `OnlyWhatWasArmed`, `DrivesItsOwn`, `AbortIsFinal`: replayed, reordered and withheld messages, a second body under the
  same id, deaths, and an operator on the same journal never start an event twice, drive a body that
  was not armed, or get past an abort this box has seen; `AbortIsFinal` lets a ceremony that was past its clearance when it halted return
  there when it is unhalted, as `cmd_unhalt` does.
- `WorkIsNamed`, `OneDrill`, `CutAlone`, `SealedStaysAlone`: work that outlives its drill stays named by the marker, so no drill,
  freeze or reset runs next to it.

**Bounds.** `MaxExternal` counts steps of other actors on the producer, `MaxCrash` deaths, `MaxDepth` open
episodes, `MaxRecords` writes to the journal, `MaxFresh` fresh journals, `MaxLoss` losses of the relay. The number of commands is not
bounded: the state graphs are finite however often `run`, `rollback`, `unhalt` and `join` alternate, so any
sequence of them is covered.

A pause has three parties (the agent's intent, another actor, a replay); the smallest custody histories that
can go wrong take two steps of others (un-pause, pause) and one death, and `PauseCustody` allows four and
two. `Ceremony` allows every interleaving of one fault of each kind with failing RPCs, hooks and reads, which are
unbounded; the smaller configuration allows two steps of others. Whitelist changes, nodeos restarts of an
unpaused producer and orphaned hooks are not counted. A nodeos restart that clears a pause is a step of others.

`MaxDepth` does cut something off: a pause RPC that fails leaves its intent open, so each re-seal against a failing
RPC adds an `unknown` entry. At the bound `src_pause` takes its read as unreadable, an outcome it always
has. The rollback acts on the top and closes at most the top, so depth 2 has every pair it can tell apart. In
`PauseCustody` the depth is 4, and the custody theorems hold for every depth.

`Target`: three deaths are one in the way forward, one in the undo and one in the join that follows, with their orphans;
the theorems hold for any number. Two snapshots are one right and one wrong file. `Fleet`: with three
members and a quorum of two a majority can form with and without the member that returns; with the relay
restored the space is too large for three, so `FleetRestored` has two and a quorum of one, which lets one member go ahead without the other's word; the proofs hold for any roster and any number of losses.
`Drill`: two drills and a third party on each of them; drills take all three configurations, the ceremony one of
the pair that shares a directory and the operator the other. `Await`: two bodies under one id and a second event are the
smallest relay that can mix up either; two deaths reach "a restart that resumes" and a death of that restart.
`Journal`: a torn record, its repair and a torn repair fit into four records and two deaths.

`PauseCustody`, `Ceremony` and `Target` are checked for deadlock. `Journal` ends when the records are used up, members of `Fleet` when each has an
outcome, drills of `Drill` run once each, and an await that systemd has given up on may rest: those runs turn the check off.

## 5 Fairness

`FairSpec` assumes that a running agent takes its next step, except out of ARMED (weak fairness of `Agent /\ ~At("armed")`: the process is
scheduled, RPCs and hooks have timeouts), and that the three waits with a deadline in the code end one way
or another (strong fairness, because a tick of the wait leaves and re-enters it): the quiescence wait
(`quiescence_timeout_secs`), the verification tools (their timeouts) and the fleet gate (its deadline).
The wait for the freeze height in ARMED (`machine.rs` 4620–4649) has no deadline: it ends when the source's head gets there, on a signed abort, an unreachable
quorum or a stop, and a chain that stands still below `H` keeps a run there for ever. The waits that are part of a step of the model have deadlines of their own (finality and
the snapshot file: `snapshot_timeout`, 4940–4978; `require_no_abort`: 30 s for a relay that does not answer; the target's start: `quorum_timeout_secs`).
Nothing is assumed of the producer, the hooks' results, the relay, other actors or the operator: a
command must end even if every RPC fails for ever. `EveryCommandEnds` is then that every run ends or waits in ARMED for the source's head, that a run
which left that wait and every rollback end, and that no step of an undo
and no re-seal of a tick waits for something that need not come. Commands are not fair: nobody has to
start one.

`Fleet`, `Target`, `Await` and `Drill` claim no liveness: sealing and waiting for an operator is what
they do when in doubt, and systemd's start limit may leave an await off for good.

## 6 Disagreements found

Each is a run whose single property TLC finds violated; `PROJECT.json` quotes the lines.

1. **`OwnPauseLeft`** (`machine.rs` 4440; `tests/model.rs` I1; `machine.rs` 3317). With no `on_freeze` hook and
   `admission_lock` off: the pause RPC takes effect, its answer is lost, the agent dies. The re-run reads
   paused, its episode is `unknown`, so the pause is adopted as external on top of it. The abort then
   has resumed nothing, the latest episode is not unknown and no writes were frozen: `must_confirm` is false,
   no read is made, and the rollback is recorded done with the agent's own pause in force. An `on_freeze` hook closes it: its
   intent record makes `must_confirm` true, and the property is then a theorem (7). `admission_lock` alone does not: its unlock asks
   for a read, but once it has succeeded a repeated rollback (after a death and a seal that paused again) asks for none, and TLC
   finds the same end in 48 steps with two deaths.
2. **`StrandedEdge`** (`machine.rs` 4456, doc at 4244). A rollback whose `on_abort` succeeded and whose admission
   unlock failed is repeated, meets a paused producer and seals: STRANDED is recorded, though its doc says
   writes are frozen, over an edge that is open.
3. **`FleetHasty`** (`machine.rs` 3375; `machine.rs` 2935; `docs/DESIGN.md` 675). "A member withdrawing its VERIFIED
   report before resuming its source never counts": a rollback of a STRANDED member passes one guard and neither journals an
   intent nor waits until the relay shows its VERIFIED report gone. An operator who rolls back within one
   beacon interval after the strand resumes the old chain while a peer's gate counts the old report. The
   passing runs (`Hasty = FALSE`) have the operator wait until the relay shows STRANDED.

Met on the way, with no run of their own because the repository promises nothing that a run could refute, or concedes it:

The fleet *can* end on both chains. A gate counts a member and its owner then waits in `require_no_abort` (`machine.rs` 2858, 30 s
and more), reporting VERIFIED; the counted member leaves, its report is withdrawn and shown, its settle passes, its second guard finds
fewer than a quorum left and it resumes; then the waiting peer is cleared and creates. `docs/DESIGN.md` 417–420 concedes it ("it narrows
the r4 split, it does not prove no peer ignites"); oracle I9b of `TESTING.md` 51 reads as if it could not happen. With `Ahead = {} \/ back = {}` for an invariant of
the configuration `Fleet`, less the fresh journal, TLC shows it in 16 states. What does hold, checked and proved, is that there is no other way: `NoUncountedSplit`.

Smaller ones:
`join` tests only `reached_ignited` and the target's id (`machine.rs` 6232), so after a death in `create_chain` and a forced
rollback whose resume failed a join is accepted (ghost `site.forced`); a join from a STRANDED over an open edge does not freeze
it (ghost `site.open`); `join_checks` reads the source's head before it pauses the source and nothing
reads it again; after VERIFIED only the boot files are re-hashed, never the checkpoint they name; a tombstone
does not keep a run from *freezing* when the head is already at `freeze_at` (`machine.rs` 4621), only from creating and igniting; an await
whose child died before ARMED idles on its own `ran` tombstone (`coord.rs` 1183).

## 7 Proofs

For every value of the constants (naturals; Booleans for the switches: `CustodyAssumption`,
`CeremonyAssumption`, `FleetAssumption`, `PipelineAssumption`, `TargetAssumption`, `AwaitAssumption`, `DrillAssumption`, `JournalAssumption`,
nothing else).

**`PauseCustodyProofs`.** The five invariants follow from one inductive invariant

    IInv == TypeOK /\ Views /\ Firm /\ StepInv /\ ForeignInv /\ OwnPauseIsRecorded

The conjuncts support each other. `NoForeignResume` speaks of the moment a resume is in flight, so what
makes it true must be known before: `ForeignInv` says that an external pause under an own episode is
hidden or released *already*. That in turn needs `Firm` and `StepInv` (when an own acknowledged episode is open
and unreleased, the agent has `trusted` it since; where each `step` leaves the top of the stack), and the step
`Crash`, which replaces `open` by `jopen`, needs `Views`: the two views have equal length, agree below the
top up to the class {unknown, closing}, and at the top differ only by a release. From `Views`, too, follow
`NoBuriedOwnership` (only the top can be ours) and `ReplayLosesOnlyReleases`. The lemmas about the stack's
operators come first (`Close`, `Settle`, `Push`: type, length, what stays below the top), then one lemma per
group of conjuncts, `NextInv` by cases on the actions, and the theorems
`TypeCorrect`, `ResumesOnlyItsOwn`, `OwnershipIsNewest`, `OwnPauseIsDurable`, `ReplayIsFaithful`.

**`CeremonyProofs`.** `ImplementsCustody` (`Spec => Custody`): the initial states agree and every step of `Ceremony`
is a step of `P!Next` or leaves the custody variables alone, one lemma per group of actions (run, seal, undo,
operator, commands, world). With `C == INSTANCE PauseCustodyProofs` the custody theorems carry over:
`CeremonyResumesOnlyItsOwn` and `CeremonyForgetsNoPause`. No bound, switch or number of commands enters.

**`CeremonySafetyProofs`.** Every safety property of the ceremony, for any number of commands, deaths and steps of others, and for
every configuration but where said, from layers that are each inductive given the ones before:

    C!IInv /\ Fields /\ PathInv /\ EndInv /\ SiteInv     and, with a freeze hook,  /\ Unwritten /\ Cleared

`Fields`: the records keep their fields (`CeremonyTypeCorrect`). `PathInv`: at each place of the process the journal is in the state
that place belongs to; a subroutine (`pause`, `hold`, `seal`) counts as the place it returns to, which is what makes this inductive.
A place of the forward path has no rollback or strand intent on record, and the place where a resume is prepared is before the point
of no return or fenced: `CeremonyNeverRunsOn` and `CeremonyResumesBeforeNoReturn` are then one step each, given who moves the journal
(`MovesFromForward`) and who prepares a resume (`ResumesFrom`). `EndInv`: once done is recorded the process rests and neither the lock nor
the reopening hook is owed (`Ends`); between the last read and the reopening the pause is not the agent's, and another's came
later (`Reopens`); both need what `keep` and the resume's answer tell of each other (`Keeps`). `SiteInv`: the sentinel is
on the whitelist only under a recorded lock; an orphaned freeze hook outlives only an ARMED ceremony that nobody has moved since, so it
can never close an edge behind a rollback that is done; an orphaned reopening hook outlives only an ABORTED one without a pause of our own;
`on_abort` recorded means the edge is open. Hence `CeremonyDoneMeansOpen`, `CeremonyDoneMeansUnlocked`, `CeremonyReopensIntoProducing`.
`CeremonyLeavesNoOwnPause` assumes `FreezeHook`, and has to (6.1). `Unwritten`: as long as the freeze intent is not on record the
ceremony has not come near the pause: no episode, no pause RPC, no target, a place before the freeze or of an undo. So a rollback
that asks for no confirming read has nothing to confirm, and one that asks has seen the producer producing (`Cleared`).

**`FleetProofs`.** For any roster, quorum and number of losses of the relay. `FleetTypes` first, then two chains of
invariants. `ProofIsFinal`: an early abort is taken on marks, so `MarksTrue` says that on a relay that keeps its state a mark tells what
its member's journal says, `VerifiedLate` that a member past the gate has a VERIFIED behind it, `ExitsHoldTomb`
and `TombEnds` that an exit mark of a member that never verified means a tombstone, which a fresh journal cannot pass; the members a gate
counted and the members proved out are then disjoint subsets of the roster, and a cardinality lemma ends it (`CountedVerified`).
`NeverCountedAgain`: `ReturnedShowsOut` says that the relay's report of a member that returned is withdrawn
or an exit *before* it returns, which is what the second guard waits for.

Its second part shows that whoever is ahead had counted everyone who is back (`OnlyCountedSplit`, the property `NoUncountedSplit`) and that `Fleet` implements
`OneChain` (`FleetKeepsOneChain`), again for any roster, quorum and number of losses. The assumptions are the early abort, as every run of `Fleet` has it,
and operators who wait for STRANDED (`~Hasty`; without it `FleetHasty` is a counterexample to what the argument rests on).
Who returned on a restored relay without being able to tell is excused by the model already (`blind`), so a return that counts read a
relay in its first era, and there every gate that was passed counted a quorum of VERIFIED marks (`FirstEraCounts`). What the guard
saw then leaves nobody past a gate that may still lead to the target (`ReturnCloses`). `Closed` says how it stays so, whatever the relay
loses later: either a signed abort stands between a gate and the creation, or fewer than a quorum can ever show VERIFIED again, because those who
returned or whose box ended the event are out for good (`Shut`), which their tombstones guarantee even on a restored relay (`ExitsShown`).

**`JournalProofs`.** Every property of the run, for any number of records, deaths, power losses and failed writes, on older journals too.
A replay is recursive, over lines and over events, and the library's induction theorems cannot be used here (they take an operator as a parameter). But a
set of naturals with a member has a least one (`LeastNumber`, from the well-foundedness of `<`), and a fact is shown by
induction on the *set* of the numbers it holds of (`UpTo`). The same gives a recursive function its values (`Recursion`), and so what `Fold` and `OpenOwners` compute.

- `EpisodesAreAStack`: each kind of record moves the open owners of *any* vector of episodes as `EpisodeStack` says. The search finds the
  latest open entry, entries after it are closed and add no owner (`OwnersFlat`), so changing it changes the top (`OwnersChange`).
  `JournalIsAStack` is the same of the records an agent acknowledges.
- `JournalTypeCorrect` from `Typed /\ AtEnd`: an agent between the writes of a record has that record at the end of the file.
- `JournalKeepsAcknowledged` from `Growing /\ Kept`: records begin in the order they were written in, and an acknowledged one lies whole,
  with its line feed, in what is synced, which no repair cuts. Where every line parses the lines are three units each (`LinesOfThree`), so it is one of the rows.
- `JournalOpensAgain` from `Sound`: until an agent writes on after a partial write, the unit at each position is the one its remainder modulo 3 says.
- `JournalOwnershipIsEarned` needs most, as the next replay may be of *any* whole number of lines (`Rows(k)`) from the synced ones on. `After(k)` is
  what it would make of the pause, and the lines are `Clean` when each record that makes a pause ours (`Gain`) is acknowledged.

      Ordered /\ Unstacked /\ Remembers /\ Backed

  `Unstacked`: no intent or adoption follows lines that say *ours*; so ours is only ever the top of the stack, and no resume or release
  uncovers an older one (`RowsLow`); and the only record that makes a pause ours is a `Gain` (`BodyGains`). `Remembers`: an agent that is up
  knows of every pause that the whole file says is ours, which is why it writes no such intent. `Backed`: whatever the file is cut to,
  *ours* is what the last one to act knew. They hold together only; `Ordered` are the layers above, with what the agent keeps between an intent and its ack
  (`Confirmed`) and that the synced file ends in a line feed and a fragment does not (`Lined`).

**`TargetProofs`.** Every property of the run, for any set of snapshots and any number of deaths, from

    IInv == Fields /\ CutInv /\ KnownInv /\ CreateInv /\ EdgeInv /\ UndoneInv

in layers, each inductive given the ones before it. `Fields`: the records keep their fields. `CutInv`: what counts
as exported is a whole log, past the import's gate it is the cut's, so is what the import makes of it, and past the
comparison no tool runs that could rewrite it, which is where an outliving container matters. `KnownInv`: what is
journaled as verified, or held as evidence by a join, is nothing or the whole cut; committed means
verified. `CreateInv`: a chain that may exist was asked for, and until a join or a forced rollback nothing leads back to the
state that asks. `EdgeInv`: an edge is open, or a reopening hook outlives its command, only in an ABORTED ceremony that is
not committed. `UndoneInv`: what is recorded as reopened is open, no freezing hook outlives, and the own pause is gone before
done counts. One lemma per layer and group of actions; the theorems `VerifiesItsCut`, `BootsTheVerified`, `CreatesOnce`,
`StaysFrozen`, `UndoneForGood`.

**`AwaitProofs`.** Every property of the run, for any events, payloads and number of deaths, from

    IInv == TypeOK /\ DriveInv /\ ArmedInv /\ StartInv

`DriveInv`: who drives the journal drives it with the payload it is bound to if it is bound, which past ARMED it
always is; needed because `DrivesItsOwn` alone says nothing of the moment before the binding is written. `ArmedInv`: an ARM names
whatever a configuration was derived from, a process was started with or the journal was armed for, so the body that a relay serves later
under the same id never gets there. `StartInv`: what was started is decided, and what await accepted,
derived or recorded was not started, whatever it was before it died; the `ran` tombstone is
on the disk when the child starts. About the tombstones one lemma (`RecordLemma`): recording keeps them ordered, forgets none and
downgrades no abort, from which `AbortStays`: who is past the clearance looks for no abort again, nor does an unhalt that
goes back there (`halted_from`), but nobody *comes* past it over a tombstone. Theorems: `AwaitTypes`, `StartsOnce`, `ArmedIsSigned`, `NobodyElseDrives`, `AbortStays`.

**`DrillProofs`.** Every property of the run, for any drills, ceremonies, operators, configurations and directories, from

    IInv == TypeOK /\ LockInv /\ SealInv /\ NamedInv /\ RecordInv /\ ToolInv /\ LeftInv
              /\ FinishInv /\ CutInv

The locks end with their process; what is left must be seen through a record and a marker that are read and written one by one. `LockInv`
says where a process is and what it holds there, so a drill that works and whoever has the producer's
lock are the same process or the drill is not there (`NoneWorks`). `RecordInv` and `NamedInv` say what record and marker
tell of a drill while it works, `ToolInv` where its tools can be, and that an unrecorded one is one whose drill still has
the locks (or is `lost`). Together they give `LeftSeen`: whatever outlives a drill is seen by everyone who reads marker and
record under the locks, from which `LeftInv` is kept: nobody replaces or clears a marker over work that is left. The one step
that this does not cover is the operator who finishes a dead drill's record and removes its container: another export
started in between would be forgotten, so `FinishInv` follows the command from its kill to the record and says that the drill is
past starting anything. `CutInv` is the preflight in two reads, the marker for other directories and the record for its own, and
what each rules out until the cut; `SealInv` the lock that an agent needs to move a journal. Theorems: `DrillStateTypes`,
`WorkStaysNamed`, `OneDrillWorks`, `CutsAlone`, `SealedAlone`.

## 8 Mutants

Each property has a one-line mistake in a mapped definition that breaks it under its own run, kept next to
the definition with the comment `mutant`; no specification uses them. They are the mistakes a
change to this code could make: the search from the wrong end, an ack held only in memory, an ok answer
taken for proof, the confirming read dropped for writes this journal froze, a failed hook marked as done, a
pending rollback that does not stop a run, a log without its manifest taken for an export, a gate that counts a withdrawing
member, a silent member taken for one that is out, an ARM matched by id and not by body, a marker cleared with work left.

## 9 What is only model-checked and what is not modelled

Only model-checked: liveness (`EveryCommandEnds`; temporal reasoning under fairness is out of the prover's
reach). Every other property of a passing run is a theorem. Proved under a hypothesis on the configuration:
`NoOwnPauseLeft` (`FreezeHook`; *false* in some others, 6.1), `NoUncountedSplit` and `OneOutcome` (`EarlyAbort`, `~Hasty`).

Assumed: a tombstone is on the disk when the code goes on (a write that fails is only warned of, `machine.rs` 3596);
a disk does not report a failed fsync and forget the page later; an export container writes in the directory it was started in; process ids in a recorded
group are told apart by their start time; nobody forges a signature.

Abstracted: in `Ceremony` the snapshot, the verification and the target answer either way at any time, and in `Ceremony`
and `Target` so do the guard and the gate, so what holds there holds for any fleet, and what `Fleet` adds holds for any
ceremony; the three are not composed into one model. The burn-off audit is one of the reasons of `Fails`. `reassert_seal`'s
journal writes that fail are ignored by the code and always succeed here. An RPC whose effect comes after its answer is
not modelled. The read of the whitelist and the call that sets it in `release_admission` (`machine.rs` 1579) are one step: nodeos has no
compare-and-set, so a list set between them is overwritten, and nothing is stated of that. `Drill.Bound` takes every record to hold the request id of its drill: a record made without one
(`drill.rs` 2262–2263) binds to any configuration, and its check then tells no two drills apart. `Target` has one state
for IGNITED and LIVE, so an unhalt returns to either of them as to the same one.

Not modelled, by component (each with its reason in `PROJECT.json`): of the ceremony cancel-intent, api mode,
degraded waits, shadow journals, the fork backend and older agents' journals; of the fleet view `live_view` and identity
conflicts; of the coordination the message format, its state file and HTTP; of the relay ingest, authentication and files; of the
drill its evidence, pins and argument vectors. Not at all: the beacon's probes, the producer gate, live watch, shadow
ceremonies (read-only gates in front of or behind what is modelled), the edge gateway, history federator, scan and keys,
doctor, report, configuration, command line, installers and replay tools (formatting, parsing and I/O without
ceremony state).
