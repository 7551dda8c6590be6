------------------------------- MODULE Drill -------------------------------
(***************************************************************************)
(* A readiness drill shares a producer's box with the ceremony, the loop   *)
(* harness and the operator's commands (src/drill.rs; preflight of         *)
(* src/machine.rs; loop_gate of src/looper.rs; try_lock of                 *)
(* src/journal.rs; the recorded groups of src/ops.rs).  They keep apart by *)
(* three lock files, the drill's published record, the producer's work     *)
(* marker and the record of the process group a tool runs in; each is read *)
(* and written on its own, and all but the locks outlive their process.    *)
(* Abstractions:                                                           *)
(*  - every configuration names the same producer API: one producer lock   *)
(*    and one marker;                                                      *)
(*  - a drill process is its drill id, and its height is used by no other; *)
(*  - a group "ps" cannot inspect is one that is alive, as in the code;    *)
(*  - a drill's evidence is left out, and of its snapshot request only that *)
(*    it is recorded: the producer API reports an id for it.               *)
(***************************************************************************)
EXTENDS FiniteSets

CONSTANTS
  Drill,      \* drill processes, each with its own drill id
  Agent,      \* ceremony processes
  Operator,   \* operators who run drill --cancel, drill --clear-marker or loop
  Config,     \* configurations, each with a journal of its own
  Uses,       \* the configurations a process is run with
  Dir,        \* journal directories
  DirOf,      \* the directory a configuration keeps its journal in
  Nobody      \* no drill, no configuration

Proc == Drill \cup Agent \cup Operator

ASSUME DrillAssumption ==
  /\ DirOf \in [Config -> Dir] /\ Uses \in [Proc -> SUBSET Config]
  /\ Drill \cap Agent = {} /\ Drill \cap Operator = {} /\ Agent \cap Operator = {}
  /\ Nobody \notin Proc \cup Config

VARIABLES
  at, cfg, held,  \* where a process is, under which configuration, with which locks
  task,           \* an operator's command and the drill it is about
  early,          \* agents whose run began before their write freeze
  journal,        \* a configuration's ceremony: FROZEN from the write-freeze intent on
  latest,         \* drill/latest.json of a directory
  marker,         \* the drill the producer's work marker names
  tool, rec,      \* the tool group a drill started; drills whose record names a live group
  box,            \* drills whose export container runs
  lost            \* drills that died between starting a tool and recording its group

vars == <<at, cfg, held, task, early, journal, latest, marker, tool, rec, box, lost>>
whose == <<cfg, held, task, early>>
work == <<tool, rec, box>>

Idle == "idle"
NoRecord == [id |-> Nobody, running |-> FALSE, box |-> "none"]
NoTask == [cmd |-> "none", id |-> Nobody]

Init ==
  /\ at = [p \in Proc |-> Idle] /\ cfg = [p \in Proc |-> Nobody]
  /\ held = [p \in Proc |-> {}] /\ task = [p \in Proc |-> NoTask] /\ early = {}
  /\ journal = [c \in Config |-> "none"]
  /\ latest = [h \in Dir |-> NoRecord] /\ marker = Nobody
  /\ tool = [d \in Drill |-> "none"] /\ rec = {} /\ box = {} /\ lost = {}

-----------------------------------------------------------------------------
(* What a process reads. *)

Home(p) == DirOf[cfg[p]]

\* The drill's process is there (same pid and start time).
Alive(d) == d \in Drill /\ at[d] \notin {Idle, "dead"}

\* A recorded pipeline group that is not proven gone.
GroupLeft(d) == d \in rec /\ tool[d] # "none"

\* (mutant) the export container is forgotten once the record is finished.
RunningNoBox(h) ==
  (latest[h].running /\ Alive(latest[h].id)) \/ GroupLeft(latest[h].id)

\* The drill a directory's record names runs, or has left work behind.
Running(h) ==
  \/ latest[h].running /\ Alive(latest[h].id)
  \/ GroupLeft(latest[h].id)
  \/ latest[h].box = "left"

\* What the producer's marker says of the drill it names.
MarkerWork ==
  IF marker = Nobody THEN "none"
  ELSE IF latest[Home(marker)].id = marker
       THEN IF Running(Home(marker)) THEN "live" ELSE "done"
       ELSE IF Alive(marker) \/ GroupLeft(marker) THEN "live" ELSE "unknown"

\* (mutant) only a marker of unknown fate blocks.
BlockerUnknown(p) == MarkerWork = "unknown"

\* The marker names work under another directory, or work of unknown fate.
ForeignBlocker(p) ==
  MarkerWork = "unknown" \/ (MarkerWork = "live" /\ Home(marker) # Home(p))

\* (mutant) only a ceremony before its freeze is in progress.
ConflictArmed(p) == journal[cfg[p]] = "ARMED"

\* A ceremony of this journal is in progress, sealed, unfinished or LIVE.
Conflict(p) == journal[cfg[p]] \notin {"none", "ABORTED"}

\* Another process holds the lock file that configuration c names.
Taken(l, c) ==
  \E q \in Proc: l \in held[q] /\ CASE l = "journal" -> cfg[q] = c
                                    [] l = "root" -> Home(q) = DirOf[c]
                                    [] l = "producer" -> TRUE

-----------------------------------------------------------------------------
(* Steps shared by the commands. *)

Goes(p, where) == at' = [at EXCEPT ![p] = where] /\ UNCHANGED whose

\* The process ends and its locks with it; only a drill's identity stays.
Leaves(p, where) ==
  /\ at' = [at EXCEPT ![p] = where]
  /\ held' = [held EXCEPT ![p] = {}]
  /\ cfg' = IF where = Idle THEN [cfg EXCEPT ![p] = Nobody] ELSE cfg
  /\ task' = [task EXCEPT ![p] = NoTask] /\ early' = early \ {p}

\* Run a command under configuration c: the journal's lock is the first of three.
Begins(p, c, t) ==
  /\ ~Taken("journal", c)
  /\ at' = [at EXCEPT ![p] = "root"] /\ cfg' = [cfg EXCEPT ![p] = c]
  /\ held' = [held EXCEPT ![p] = {"journal"}] /\ task' = [task EXCEPT ![p] = t]

Locks(p, l, then) ==
  /\ ~Taken(l, cfg[p])
  /\ at' = [at EXCEPT ![p] = then] /\ held' = [held EXCEPT ![p] = @ \cup {l}]
  /\ UNCHANGED <<cfg, task, early>>

\* A drill and an operator give up when another process holds a lock.
LockStep(p) ==
  /\ \/ at[p] = "root" /\ Locks(p, "root", "producer")
     \/ at[p] = "producer" /\ Locks(p, "producer", "locked")
     \/ at[p] \in {"root", "producer"} /\ Taken(at[p], cfg[p]) /\ Leaves(p, Idle)
  /\ UNCHANGED <<journal, latest, marker, work, lost>>

\* Kill a tool's group: gone with its record, or signalled and not proven gone,
\* which starts nothing more and keeps the record.
Stopped(d) ==
  \/ tool' = [tool EXCEPT ![d] = "none"] /\ rec' = rec \ {d}
  \/ tool' = [tool EXCEPT ![d] = "dying"] /\ UNCHANGED rec

\* Kill the group a record names; one that cannot be inspected is left alone.
Kill(d) == (d \in rec /\ Stopped(d)) \/ UNCHANGED <<tool, rec>>

\* Kill and remove the export container, then ask the daemon until it is gone.
\* Without that answer the record keeps saying it was left.
Settled(h) ==
  /\ box' = box \ {latest[h].id}
  /\ latest' = [latest EXCEPT ![h].box = "gone"]
NotSettled(h) == box' \in {box, box \ {latest[h].id}} /\ UNCHANGED latest

\* (mutant) a drill removes its own marker whatever is left of it.
ClearOwn(d, h) == marker' = IF marker = d THEN Nobody ELSE marker

\* Remove the marker only for its own drill, and only once that drill's record
\* shows nothing running (or never named it).
ClearMarker(d, h) ==
  marker' = IF marker = d /\ (latest[h].id = d => ~Running(h)) THEN Nobody ELSE marker

-----------------------------------------------------------------------------
(* The drill. *)

DBegin(d) ==
  /\ at[d] = Idle /\ \E c \in Uses[d]: Begins(d, c, NoTask)
  /\ UNCHANGED <<early, journal, latest, marker, work, lost>>

\* A marker is replaced only when its drill's work is done.
WriteMarker(d) == MarkerWork \in {"none", "done"} /\ marker' = d

\* All three locks are held: no ceremony, no drill of this directory, then the marker.
DMark(d) ==
  /\ at[d] = "locked"
  /\ \/ ~Conflict(d) /\ ~Running(Home(d)) /\ WriteMarker(d) /\ Goes(d, "marked")
     \/ Leaves(d, Idle) /\ UNCHANGED marker
  /\ UNCHANGED <<journal, latest, work, lost>>

\* Schedule the snapshot and publish RUNNING, or fail before anything started.
DPublish(d) ==
  /\ at[d] = "marked"
  /\ \/ latest' = [latest EXCEPT ![Home(d)] = [id |-> d, running |-> TRUE, box |-> "none"]]
        /\ Goes(d, "waiting")
     \/ Goes(d, "clear") /\ UNCHANGED latest
  /\ UNCHANGED <<journal, marker, work, lost>>

\* H is final and its file is there: name the container before it can exist.
DName(d) ==
  /\ at[d] = "waiting" /\ Goes(d, "export")
  /\ latest' = [latest EXCEPT ![Home(d)].box = "left"]
  /\ UNCHANGED <<journal, marker, work, lost>>

\* Start the next tool: the export, then the others; after the container is
\* settled only the fingerprint of a comparison that disagreed.
DSpawn(d) ==
  /\ at[d] \in {"export", "next", "settled"} /\ ~GroupLeft(d)
  /\ tool' = [tool EXCEPT ![d] = IF at[d] = "export" THEN "export" ELSE "later"]
  /\ Goes(d, "started")
  /\ UNCHANGED <<journal, latest, marker, rec, box, lost>>

\* Record the started group; a tool whose record cannot be written is killed.
DRecord(d) ==
  /\ at[d] = "started"
  /\ \/ /\ rec' = IF tool[d] = "none" THEN rec ELSE rec \cup {d}
        /\ Goes(d, "running") /\ UNCHANGED tool
     \/ tool' = [tool EXCEPT ![d] = "none"] /\ Goes(d, "failed") /\ UNCHANGED rec
  /\ UNCHANGED <<journal, latest, marker, box, lost>>

\* The tool ended, or is stopped at a cancel or a timeout: a group that outlives
\* its kill keeps its record and fails the drill.
DToolEnds(d) ==
  /\ at[d] = "running"
  /\ \/ /\ tool[d] = "none" /\ UNCHANGED <<tool, rec>>
        /\ \E then \in {IF latest[Home(d)].box = "gone" THEN "settled" ELSE "next", "failed"}:
             Goes(d, then)
     \/ tool[d] # "none" /\ Stopped(d) /\ Goes(d, "failed")
  /\ UNCHANGED <<journal, latest, marker, box, lost>>

\* Whatever the pipeline did, its container is settled before the drill goes on.
DSettle(d) ==
  /\ at[d] \in {"next", "failed"} /\ latest[Home(d)].box = "left"
  /\ \/ Settled(Home(d)) /\ Goes(d, IF at[d] = "next" THEN "settled" ELSE "stopped")
     \/ NotSettled(Home(d)) /\ Goes(d, IF at[d] = "next" THEN "failed" ELSE "stopped")
  /\ UNCHANGED <<journal, marker, tool, rec, lost>>

\* An error or a cancel before, between or after the tools.
DFail(d) ==
  /\ \/ at[d] \in {"waiting", "export", "next", "settled"} /\ Goes(d, "failed")
     \/ at[d] = "failed" /\ latest[Home(d)].box # "left" /\ Goes(d, "stopped")
  /\ UNCHANGED <<journal, latest, marker, work, lost>>

\* The record says DONE or FAILED.
Over(h) == latest' = [latest EXCEPT ![h].running = FALSE]

DDone(d) ==
  /\ at[d] = "settled" /\ Goes(d, "clear") /\ Over(Home(d))
  /\ UNCHANGED <<journal, marker, work, lost>>

\* A container or a group that is left keeps the record RUNNING.
DFailed(d) ==
  /\ at[d] = "stopped" /\ Goes(d, "clear")
  /\ IF latest[Home(d)].box = "left" \/ GroupLeft(d) THEN UNCHANGED latest ELSE Over(Home(d))
  /\ UNCHANGED <<journal, marker, work, lost>>

DClear(d) ==
  /\ at[d] = "clear" /\ ClearMarker(d, Home(d)) /\ Leaves(d, "dead")
  /\ UNCHANGED <<journal, latest, work, lost>>

\* The process is killed at any point.
DDie(d) ==
  /\ Alive(d)
  /\ Leaves(d, IF at[d] \in {"root", "producer", "locked"} THEN Idle ELSE "dead")
  /\ lost' = IF at[d] = "started" THEN lost \cup {d} ELSE lost
  /\ UNCHANGED <<journal, latest, marker, work>>

\* What runs on without the drill: its tool, and the container the export starts.
DWork(d) ==
  /\ \/ tool[d] # "none" /\ tool' = [tool EXCEPT ![d] = "none"] /\ rec' = rec \ {d} /\ UNCHANGED box
     \/ tool[d] = "export" /\ box' = box \cup {d} /\ UNCHANGED <<tool, rec>>
     \/ d \in box /\ box' = box \ {d} /\ UNCHANGED <<tool, rec>>
  /\ UNCHANGED <<at, whose, journal, latest, marker, lost>>

-----------------------------------------------------------------------------
(* The ceremony: its run up to the write freeze, and after it. *)

ABegin(a) ==
  /\ at[a] = Idle
  /\ \E c \in Uses[a]:
       /\ journal[c] # "ABORTED" /\ Begins(a, c, NoTask)
       /\ journal' = [journal EXCEPT ![c] = IF @ = "none" THEN "ARMED" ELSE @]
       /\ early' = IF journal[c] = "FROZEN" THEN early ELSE early \cup {a}
  /\ UNCHANGED <<latest, marker, work, lost>>

\* A problem found before the freeze aborts the ceremony; nothing was touched.
Refuses(a) ==
  a \in early /\ Leaves(a, Idle) /\ journal' = [journal EXCEPT ![cfg[a]] = "ABORTED"]
GoesOn(a, where) == Goes(a, where) /\ UNCHANGED journal

\* A held lock is a problem before the freeze and no obstacle after it; a
\* producer lock that cannot be opened is done without.
ALock(a) ==
  /\ \E l \in {"root", "producer"}:
       LET then == IF l = "root" THEN "producer" ELSE "marker"
       IN  /\ at[a] = l
           /\ \/ Locks(a, l, then) /\ UNCHANGED journal
              \/ Taken(l, cfg[a]) /\ (Refuses(a) \/ (a \notin early /\ GoesOn(a, then)))
              \/ l = "producer" /\ GoesOn(a, then)
  /\ UNCHANGED <<latest, marker, work, lost>>

\* Before the freeze work under another directory is a problem; after it a live
\* one is asked to stop and its recorded group killed.
AMarker(a) ==
  /\ at[a] = "marker"
  /\ \/ ~ForeignBlocker(a) /\ GoesOn(a, "activity") /\ UNCHANGED work
     \/ ForeignBlocker(a) /\ Refuses(a) /\ UNCHANGED work
     \/ /\ ForeignBlocker(a) /\ a \notin early /\ GoesOn(a, "activity")
        /\ IF MarkerWork = "live" THEN Kill(marker) /\ UNCHANGED box ELSE UNCHANGED work
  /\ UNCHANGED <<latest, marker, lost>>

\* The same for a drill of this directory.
AActivity(a) ==
  /\ at[a] = "activity"
  /\ \/ ~Running(Home(a)) /\ GoesOn(a, "armed") /\ UNCHANGED work
     \/ Running(Home(a)) /\ Refuses(a) /\ UNCHANGED work
     \/ /\ Running(Home(a)) /\ a \notin early /\ GoesOn(a, "wait")
        /\ Kill(latest[Home(a)].id) /\ UNCHANGED box
  /\ UNCHANGED <<latest, marker, lost>>

\* After a bounded wait the locks are tried again; the cut goes on either way.
AWait(a) ==
  /\ at[a] = "wait" /\ at' = [at EXCEPT ![a] = "armed"]
  /\ held' = [held EXCEPT ![a] = @ \cup {l \in {"root", "producer"}: ~Taken(l, cfg[a])}]
  /\ UNCHANGED <<cfg, task, early, journal, latest, marker, work, lost>>

\* (mutant) the name of the step is journaled in place of the state.
AFreezeStep(a) ==
  /\ at[a] = "armed" /\ Goes(a, "cut")
  /\ journal' = [journal EXCEPT ![cfg[a]] = at[a]]
  /\ UNCHANGED <<latest, marker, work, lost>>

\* The write freeze.
AFreeze(a) ==
  /\ at[a] = "armed" /\ Goes(a, "cut")
  /\ journal' = [journal EXCEPT ![cfg[a]] = "FROZEN"]
  /\ UNCHANGED <<latest, marker, work, lost>>

\* The run ends: rolled back, or not (LIVE, STRANDED or killed).
AEnd(a) ==
  /\ at[a] # Idle
  /\ \/ UNCHANGED journal
     \/ /\ at[a] \in {"armed", "cut"}
        /\ journal' = [journal EXCEPT ![cfg[a]] = "ABORTED"]
  /\ Leaves(a, Idle)
  /\ UNCHANGED <<latest, marker, work, lost>>

-----------------------------------------------------------------------------
(* The operator's commands. *)

\* drill --cancel: a live drill is asked to stop; for a dead one the locks come first.
OCancel(o) ==
  /\ at[o] = Idle
  /\ \E c \in Uses[o]:
       LET l == latest[DirOf[c]]  t == [cmd |-> "cancel", id |-> l.id]
       IN  /\ l.running \/ Running(DirOf[c])
           /\ IF l.running /\ Alive(l.id)
              THEN /\ at' = [at EXCEPT ![o] = "kill"] /\ cfg' = [cfg EXCEPT ![o] = c]
                   /\ task' = [task EXCEPT ![o] = t] /\ UNCHANGED held
              ELSE Begins(o, c, t)
  /\ UNCHANGED <<early, journal, latest, marker, work, lost>>

\* The drill stopped by itself in time, or its recorded group is killed.
OKill(o) ==
  /\ at[o] = "kill"
  /\ \/ held[o] = {} /\ ~Running(Home(o)) /\ Leaves(o, Idle) /\ UNCHANGED work
     \/ Kill(task[o].id) /\ Goes(o, "killed") /\ UNCHANGED box
  /\ UNCHANGED <<journal, latest, marker, lost>>

\* INCOMPLETE while the group or the process is left; the record of a drill that
\* has died since is finished under the locks.
OKilled(o) ==
  /\ at[o] = "killed"
  /\ LET l == latest[Home(o)]
         left == GroupLeft(task[o].id) \/ (l.running /\ Alive(l.id))
     IN  \/ (left \/ (held[o] = {} /\ ~Running(Home(o)))) /\ Leaves(o, Idle)
         \/ ~left /\ held[o] # {} /\ Goes(o, "settle")
         \/ /\ ~left /\ held[o] = {}
            /\ Begins(o, cfg[o], [task[o] EXCEPT !.cmd = "finish"]) /\ UNCHANGED early
  /\ UNCHANGED <<journal, latest, marker, work, lost>>

\* Settle the container the record names, or end INCOMPLETE.
OSettle(o) ==
  /\ at[o] = "settle"
  /\ \/ latest[Home(o)].box = "left" /\ Settled(Home(o)) /\ Goes(o, "publish")
     \/ latest[Home(o)].box = "left" /\ NotSettled(Home(o)) /\ Leaves(o, Idle)
     \/ latest[Home(o)].box # "left" /\ Goes(o, "publish") /\ UNCHANGED <<box, latest>>
  /\ UNCHANGED <<journal, marker, tool, rec, lost>>

\* FAILED, then the marker if it is that drill's and nothing of it runs.
OPublish(o) ==
  /\ \/ /\ at[o] = "publish" /\ Goes(o, "clear") /\ UNCHANGED marker
        /\ Over(Home(o))
     \/ /\ at[o] = "clear" /\ Leaves(o, Idle) /\ UNCHANGED latest
        /\ ClearMarker(latest[Home(o)].id, Home(o))
  /\ UNCHANGED <<journal, work, lost>>

\* drill --clear-marker and loop take the locks first.
OBegin(o) ==
  /\ at[o] = Idle
  /\ \E c \in Uses[o], t \in {[cmd |-> "clear", id |-> marker], [cmd |-> "loop", id |-> Nobody]}:
       (t.cmd = "clear" => marker # Nobody) /\ Begins(o, c, t)
  /\ UNCHANGED <<early, journal, latest, marker, work, lost>>

\* loop goes on without a producer lock it cannot open.
OUnlocked(o) ==
  /\ at[o] = "producer" /\ task[o].cmd = "loop" /\ Goes(o, "locked")
  /\ UNCHANGED <<journal, latest, marker, work, lost>>

\* The marker goes only when its drill's process, group and container are gone.
OClear(o) ==
  LET d == task[o].id
  IN  /\ task[o].cmd = "clear" /\ ~Conflict(o)
      /\ marker = d /\ ~Alive(d) /\ ~GroupLeft(d) /\ d \notin box
      /\ marker' = Nobody /\ Leaves(o, Idle)

\* loop resets the source only next to no drill's work.
OLoop(o) ==
  /\ task[o].cmd = "loop" /\ ~Running(Home(o)) /\ ~ForeignBlocker(o)
  /\ Goes(o, "reset") /\ UNCHANGED marker

\* The record's snapshot request must be the cancelled drill's.
Bound(o) == latest[Home(o)].id = task[o].id

\* What a command does once it has the locks, unless it refuses.
OLocked(o) ==
  /\ at[o] = "locked"
  /\ \/ task[o].cmd = "cancel" /\ ~Conflict(o) /\ Bound(o) /\ Goes(o, "kill") /\ UNCHANGED marker
     \/ task[o].cmd = "finish" /\ ~Conflict(o) /\ Bound(o) /\ Goes(o, "settle") /\ UNCHANGED marker
     \/ OClear(o) \/ OLoop(o)
  /\ UNCHANGED <<journal, latest, work, lost>>

\* The command refuses, ends or is killed.
OEnd(o) ==
  /\ at[o] # Idle /\ Leaves(o, Idle)
  /\ UNCHANGED <<journal, latest, marker, work, lost>>

-----------------------------------------------------------------------------
DStep(d) ==
  \/ DBegin(d) \/ LockStep(d) \/ DMark(d) \/ DPublish(d) \/ DName(d) \/ DSpawn(d)
  \/ DRecord(d) \/ DToolEnds(d) \/ DSettle(d) \/ DFail(d) \/ DDone(d) \/ DFailed(d)
  \/ DClear(d) \/ DDie(d) \/ DWork(d)
AStep(a) ==
  \/ ABegin(a) \/ ALock(a) \/ AMarker(a) \/ AActivity(a) \/ AWait(a)
  \/ AFreeze(a) \/ AEnd(a)
OStep(o) ==
  \/ OCancel(o) \/ OBegin(o) \/ LockStep(o) \/ OUnlocked(o) \/ OLocked(o) \/ OKill(o)
  \/ OKilled(o) \/ OSettle(o) \/ OPublish(o) \/ OEnd(o)

Next ==
  \/ \E d \in Drill: DStep(d)
  \/ \E a \in Agent: AStep(a)
  \/ \E o \in Operator: OStep(o)

Spec == Init /\ [][Next]_vars

-----------------------------------------------------------------------------
TypeOK ==
  /\ cfg \in [Proc -> Config \cup {Nobody}]
  /\ held \in [Proc -> SUBSET {"journal", "root", "producer"}]
  /\ journal \in [Config -> {"none", "ARMED", "FROZEN", "ABORTED"}]
  /\ latest \in [Dir -> [id : Drill \cup {Nobody}, running : BOOLEAN, box : {"none", "left", "gone"}]]
  /\ marker \in Drill \cup {Nobody}
  /\ tool \in [Drill -> {"none", "export", "later", "dying"}]
  /\ early \subseteq Agent /\ rec \subseteq Drill /\ box \subseteq Drill /\ lost \subseteq Drill

Outlives(d) == tool[d] # "none" \/ d \in box
AtWork(d) == Outlives(d) \/ (Alive(d) /\ at[d] \notin {"root", "producer", "locked"})

\* Work that can outlive its drill is always named by the producer's marker, so
\* no command on the producer can miss it (drill.rs 935-1037, 2298-2390).
WorkIsNamed == \A d \in Drill \ lost: Outlives(d) => marker = d

\* One drill's work on the producer at a time, whatever died (drill.rs 1375-1399).
OneDrill == \A d, e \in Drill \ lost: AtWork(d) /\ AtWork(e) => d = e

\* A ceremony that began before its freeze and holds the producer's lock never
\* freezes next to a drill's work, nor does a reset run next to it
\* (machine.rs 2120-2200, looper.rs 255-280).
CutAlone ==
  \A p \in Agent \cup Operator:
    /\ "producer" \in held[p]
    /\ at[p] = "reset" \/ (p \in Agent /\ p \in early /\ at[p] \in {"armed", "cut"})
    => \A d \in Drill \ lost: ~AtWork(d)

\* No drill works under the journal of a ceremony that is in progress, sealed or
\* live, also when that ceremony's process is gone (drill.rs 1165-1181).
SealedStaysAlone ==
  \A d \in Drill: AtWork(d) /\ Alive(d) => journal[cfg[d]] \in {"none", "ABORTED"}
=============================================================================
