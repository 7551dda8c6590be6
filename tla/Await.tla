-------------------------------- MODULE Await --------------------------------
(***************************************************************************)
(* coord.rs run_await and the ceremony it starts: one box that waits for a *)
(* signed event and a signed ARM, runs `run --config ceremony-<id>.toml'   *)
(* as its child, is restarted by systemd when it fails, and an operator    *)
(* who works on the same journal by hand.                                  *)
(*                                                                         *)
(* The relay is external: it cannot forge a signature, but it may serve    *)
(* any signed message and leave out any other, at every look, so a message *)
(* that is not signed yet is one that it leaves out.                       *)
(*                                                                         *)
(* Abstracted: the ceremony is its journal's state, who it was armed and   *)
(* authenticated for, and the process that drives it (Ceremony has the     *)
(* steps); a mainnet chain, whose journal is bound to the event that its   *)
(* ARM authenticated; tombstone writes succeed and are one step; the head, *)
(* the ARM's age and the operator's confirm file are choices at each look. *)
(***************************************************************************)
EXTENDS Naturals

CONSTANTS Payloads,     \* signed event payloads (an id and a body)
          NoPayload,
          EventOf,      \* payload -> event id
          HeightOf,     \* payload -> H
          Valid,        \* payloads that validate_event accepts on this node
          Armed,        \* payloads that the coordinator signs an ARM for
          MaxCrash      \* bound: processes that die or are refused by the disk

Events == {EventOf[p] : p \in Payloads}

ASSUME AwaitAssumption ==
  /\ NoPayload \notin Payloads
  /\ Valid \subseteq Payloads /\ Armed \subseteq Payloads
  /\ DOMAIN EventOf = Payloads /\ DOMAIN HeightOf = Payloads
  /\ MaxCrash \in Nat

VARIABLES
  tombs,    \* coord-tombstones.json: an event's kind, and who has a later `at'
  derived,  \* event id -> the payload ceremony-<id>.toml was derived from
  journal,  \* the journal at journal_path: state, armed by, bound to, and the
            \* state it was HALTED from
  agent,    \* the await process: pc, the accepted payload, its child
  driver,   \* the process that holds the journal: its config, whose it is
  starts,   \* event id -> ceremonies await started fresh for it (capped)
  crashes

vars == <<tombs, derived, journal, agent, driver, starts, crashes>>

Kinds == {"aborted", "missed", "ran", "completed"}
States == {"none", "ARMED", "FROZEN", "GOING", "LIVE", "ABORTED", "HALTED", "STRANDED"}
Pcs == {"off", "failed", "start", "loop", "derive", "record", "spawn", "child"}

NoDriver == [config |-> NoPayload, of |-> "none", clear |-> FALSE]

(* The decision recorded for an event id, and recording one: an `aborted'  *)
(* is never downgraded, anything else is rewritten as the latest.          *)
Kind(ts, e) == ts.kind[e]
Tombstoned(e) == Kind(tombs, e) = "aborted"
Decide(ts, e, kind) ==
  [kind  |-> [ts.kind EXCEPT ![e] = kind],
   after |-> [x \in Events |-> IF x = e \/ ts.kind[x] = "none" THEN {}
                               ELSE ts.after[x] \cup {e}]]
RecordTwice(ts, e, kind) ==            \* mutant: an earlier decision stays, too
  IF Kind(ts, e) = "aborted" THEN ts
  ELSE [kind  |-> [ts.kind EXCEPT ![e] = kind],
        after |-> [x \in Events |-> IF ts.kind[x] = "none" THEN {}
                                    ELSE ts.after[x] \cup {e}]]
Record(ts, e, kind) == IF Kind(ts, e) = "aborted" THEN ts ELSE Decide(ts, e, kind)

Init ==
  /\ tombs = [kind |-> [e \in Events |-> "none"], after |-> [e \in Events |-> {}]]
  /\ derived = [e \in Events |-> NoPayload]
  /\ journal = [state |-> "none", by |-> NoPayload, bound |-> NoPayload, from |-> "none"]
  /\ agent = [pc |-> "off", accepted |-> NoPayload, code |-> 0]
  /\ driver = NoDriver
  /\ starts = [e \in Events |-> 0] /\ crashes = 0
-----------------------------------------------------------------------------
(* One look at the relay, at the source's head against H, and at whether   *)
(* the ARM is fresh and the operator confirmed it (or auto_arm is on).     *)
Looks ==
  [event : Payloads \cup {NoPayload}, final : {"no", "aborted", "completed"},
   arm : Armed \cup {NoPayload}, lead : {"unknown", "ample", "short", "late"},
   go : BOOLEAN]

(* Step 1 of the loop: a served abort or completion of the served event is *)
(* recorded at once; a decided event is dropped; a changed body under the  *)
(* same id is another event and is validated again.                        *)
Noted(doc) ==
  IF doc.event = NoPayload THEN tombs
  ELSE LET e == EventOf[doc.event]
       IN  IF \/ doc.final = "aborted"
              \/ doc.final = "completed" /\ Kind(tombs, e) = "none"
           THEN Record(tombs, e, doc.final) ELSE tombs
Validates(doc) == doc.event \in Valid /\ doc.lead \in {"unknown", "ample"}
Accepts(doc) ==
  IF doc.event = NoPayload THEN agent.accepted
  ELSE IF Kind(Noted(doc), EventOf[doc.event]) # "none" THEN NoPayload
  ELSE IF agent.accepted = doc.event \/ Validates(doc) THEN doc.event
  ELSE NoPayload

(* Step 2: an ARM that names the accepted event and its body, for an event *)
(* that is not aborted.                                                    *)
ArmBindsId(doc) ==                      \* mutant: the body is not compared
  /\ Accepts(doc) # NoPayload /\ doc.arm # NoPayload
  /\ EventOf[doc.arm] = EventOf[Accepts(doc)]
ArmBinds(doc) == Accepts(doc) # NoPayload /\ doc.arm = Accepts(doc)
Armable(doc) ==
  doc.go /\ ArmBinds(doc) /\ Kind(Noted(doc), EventOf[Accepts(doc)]) # "aborted"
Missed(doc) == doc.lead = "late"

Poll(doc) ==
  /\ agent.pc = "loop"
  /\ UNCHANGED <<derived, journal, driver, starts, crashes>>

PollWaits(doc) ==
  /\ Poll(doc) /\ ~(Armable(doc) /\ doc.lead # "unknown")
  /\ tombs' = Noted(doc)
  /\ agent' = [agent EXCEPT !.accepted = Accepts(doc)]

(* The window is gone: a terminal decision, and exit code 3.               *)
PollMisses(doc) ==
  /\ Poll(doc) /\ Armable(doc) /\ Missed(doc)
  /\ tombs' = Record(Noted(doc), EventOf[Accepts(doc)], "missed")
  /\ agent' = [agent EXCEPT !.pc = "off", !.accepted = NoPayload]

PollArms(doc) ==
  /\ Poll(doc) /\ Armable(doc) /\ doc.lead \in {"ample", "short"}
  /\ tombs' = Noted(doc)
  /\ agent' = [agent EXCEPT !.pc = "derive", !.accepted = Accepts(doc)]

(* A stop that is asked for while nothing runs ends await.                 *)
StopsWaiting ==
  /\ agent.pc = "loop"
  /\ agent' = [agent EXCEPT !.pc = "off", !.accepted = NoPayload]
  /\ UNCHANGED <<tombs, derived, journal, driver, starts, crashes>>

(* The config is derived, the start recorded, and only then started.       *)
Mine == EventOf[agent.accepted]

Derive ==
  /\ agent.pc = "derive"
  /\ \/ /\ derived' = [derived EXCEPT ![Mine] = agent.accepted]
        /\ agent' = [agent EXCEPT !.pc = "record"]
        /\ UNCHANGED crashes
     \/ /\ crashes < MaxCrash /\ crashes' = crashes + 1
        /\ agent' = [agent EXCEPT !.pc = "failed", !.accepted = NoPayload]
        /\ UNCHANGED derived
  /\ UNCHANGED <<tombs, journal, driver, starts>>

RecordNothing ==                        \* mutant: the start is not recorded
  /\ agent.pc = "record"
  /\ agent' = [agent EXCEPT !.pc = "spawn"]
  /\ UNCHANGED <<tombs, derived, journal, driver, starts, crashes>>
RecordRan ==
  /\ agent.pc = "record"
  /\ tombs' = Record(tombs, Mine, "ran")
  /\ agent' = [agent EXCEPT !.pc = "spawn"]
  /\ UNCHANGED <<derived, journal, driver, starts, crashes>>

Spawn ==
  /\ agent.pc = "spawn"
  /\ agent' = [agent EXCEPT !.pc = "child", !.accepted = derived[Mine], !.code = 0]
  /\ starts' = [starts EXCEPT ![Mine] = IF @ = 2 THEN 2 ELSE @ + 1]
  /\ UNCHANGED <<tombs, derived, journal, driver, crashes>>
-----------------------------------------------------------------------------
(* A start: the most recent decision whose config exists decides. Its      *)
(* ceremony is resumed when its journal is unfinished, no other one is.    *)
Unfinished == {"ARMED", "FROZEN", "STRANDED"}
Started(e) == tombs.kind[e] # "none" /\ derived[e] # NoPayload
LastStarted(e) == Started(e) /\ \A f \in tombs.after[e] : ~Started(f)
Resumable(e) == LastStarted(e) /\ journal.state \in Unfinished

StartResumes ==
  /\ agent.pc = "start"
  /\ \E e \in Events :
       /\ Resumable(e)
       /\ agent' = [agent EXCEPT !.pc = "child", !.accepted = derived[e], !.code = 0]
  /\ UNCHANGED <<tombs, derived, journal, driver, starts, crashes>>
StartWaits ==
  /\ agent.pc = "start" /\ \A e \in Events : ~Resumable(e)
  /\ agent' = [agent EXCEPT !.pc = "loop"]
  /\ UNCHANGED <<tombs, derived, journal, driver, starts, crashes>>

(* The child ends and await exits with its code; systemd restarts a code 1 *)
(* only, until its start limit, and an operator starts the rest.           *)
Reap ==
  /\ agent.pc = "child" /\ agent.code # 0
  /\ agent' = [pc |-> IF agent.code = 1 THEN "failed" ELSE "off",
               accepted |-> NoPayload, code |-> 0]
  /\ UNCHANGED <<tombs, derived, journal, driver, starts, crashes>>
Restart ==
  /\ agent.pc \in {"failed", "off"}
  /\ agent' = [agent EXCEPT !.pc = "start"]
  /\ UNCHANGED <<tombs, derived, journal, driver, starts, crashes>>
StartLimit ==
  /\ agent.pc = "failed" /\ agent' = [agent EXCEPT !.pc = "off"]
  /\ UNCHANGED <<tombs, derived, journal, driver, starts, crashes>>

(* await dies. Under the unit its child is killed with it; started by hand *)
(* it leaves an orphan that holds the journal.                             *)
AgentDies ==
  /\ agent.pc \notin {"off", "failed"} /\ crashes < MaxCrash
  /\ crashes' = crashes + 1
  /\ agent' = [pc |-> "failed", accepted |-> NoPayload, code |-> 0]
  /\ IF driver.of = "await"
     THEN driver' \in {NoDriver, [driver EXCEPT !.of = "orphan"]}
     ELSE UNCHANGED driver
  /\ UNCHANGED <<tombs, derived, journal, starts>>
-----------------------------------------------------------------------------
(* `run' with the config of payload p. An exit code: 100 stands for 0.     *)

Exit(of, code) ==
  agent' = IF of = "await" THEN [agent EXCEPT !.code = code] ELSE agent

(* The journal was armed on this chain: past ARMED it must be bound, and a *)
(* bound one continues only with the event it is bound to.                 *)
BoundAtAll(p) ==                        \* mutant: any binding will do
  journal.bound = NoPayload /\ journal.state # "ARMED"
BoundElsewhere(p) ==
  IF journal.bound = NoPayload THEN journal.state # "ARMED" ELSE journal.bound # p

Opens(p, of) ==
  \/ of = "await" /\ agent.pc = "child" /\ agent.code = 0
       /\ driver.of # "await" /\ p = agent.accepted
  \/ of = "hand" /\ driver.of = "none" /\ p # NoPayload
       /\ \E e \in Events : derived[e] = p

RunLockedOut(p, of) ==
  /\ Opens(p, of) /\ driver # NoDriver /\ Exit(of, 1)
  /\ UNCHANGED <<tombs, derived, journal, driver, starts, crashes>>

(* Nothing journaled yet: ARMED, unless the source cannot be read.         *)
RunArms(p, of) ==
  /\ Opens(p, of) /\ driver = NoDriver /\ journal.state = "none"
  /\ \/ /\ journal' = [journal EXCEPT !.state = "ARMED", !.by = p]
        /\ driver' = [config |-> p, of |-> of, clear |-> FALSE]
        /\ UNCHANGED <<agent, crashes>>
     \/ /\ crashes < MaxCrash /\ crashes' = crashes + 1
        /\ Exit(of, 1) /\ UNCHANGED <<journal, driver>>
  /\ UNCHANGED <<tombs, derived, starts>>

RunRefuses(p, of) ==
  /\ Opens(p, of) /\ driver = NoDriver /\ journal.state # "none"
  /\ BoundElsewhere(p) \/ journal.state \in {"ABORTED", "HALTED", "STRANDED"}
  /\ \E code \in (IF journal.state = "ABORTED" THEN {1, 4} ELSE {1}) : Exit(of, code)
  /\ UNCHANGED <<tombs, derived, journal, driver, starts, crashes>>

RunFinished(p, of) ==
  /\ Opens(p, of) /\ driver = NoDriver /\ journal.state = "LIVE"
  /\ ~BoundElsewhere(p) /\ Exit(of, 100)
  /\ UNCHANGED <<tombs, derived, journal, driver, starts, crashes>>

RunResumes(p, of) ==
  /\ Opens(p, of) /\ driver = NoDriver /\ ~BoundElsewhere(p)
  /\ journal.state \in {"ARMED", "FROZEN", "GOING"}
  /\ driver' = [config |-> p, of |-> of, clear |-> FALSE]
  /\ UNCHANGED <<tombs, derived, journal, agent, starts, crashes>>

Drives(states) ==
  /\ driver # NoDriver /\ journal.state \in states
  /\ UNCHANGED <<derived, starts>>
Ends(state, code) ==
  /\ driver' = NoDriver /\ Exit(driver.of, code)
  /\ journal' = [journal EXCEPT !.state = state]

(* HALTED remembers where it was. Past the creation intent that is still   *)
(* VERIFIED (FROZEN here), until IGNITED or FLIPPED is journaled.          *)
Halts ==
  /\ driver' = NoDriver /\ Exit(driver.of, 1)
  /\ \E from \in {"FROZEN", journal.state} :
       journal' = [journal EXCEPT !.state = "HALTED", !.from = from]

(* A fresh ARM, or a resumed one that died before it: the relay must serve *)
(* the event of this config and its H must be the journal's; or the abort. *)
Authenticate ==
  /\ Drives({"ARMED"}) /\ journal.bound = NoPayload
  /\ HeightOf[driver.config] = HeightOf[journal.by]
  /\ journal' = [journal EXCEPT !.bound = driver.config]
  /\ UNCHANGED <<tombs, agent, driver, crashes>>

(* A tombstone, or an abort the relay serves, which is recorded first.     *)
SeesAbort ==
  /\ Drives({"ARMED", "FROZEN", "GOING"})
  /\ tombs' = Record(tombs, EventOf[driver.config], "aborted")
  /\ \/ journal.state # "GOING" /\ \E code \in {1, 4} : Ends("ABORTED", code)
     \/ journal.state = "FROZEN" /\ Ends("STRANDED", 1)
     \/ journal.state = "GOING" /\ Halts
  /\ UNCHANGED crashes

(* A head that is already at the freeze height leaves the wait for it      *)
(* before the abort is looked for, so a tombstone does not stop a freeze.  *)
Freezes ==
  /\ Drives({"ARMED"}) /\ journal.bound # NoPayload
  /\ journal' = [journal EXCEPT !.state = "FROZEN"]
  /\ UNCHANGED <<tombs, agent, driver, crashes>>

(* Creation and ignition need a relay that answers, and no abort; others   *)
(* may record one before the intent is journaled.                          *)
ClearsAnyway ==                         \* mutant: the tombstone is not read
  /\ Drives({"FROZEN"}) /\ driver' = [driver EXCEPT !.clear = TRUE]
  /\ UNCHANGED <<tombs, journal, agent, crashes>>
Clears ==
  /\ Drives({"FROZEN"}) /\ ~Tombstoned(EventOf[driver.config])
  /\ driver' = [driver EXCEPT !.clear = TRUE]
  /\ UNCHANGED <<tombs, journal, agent, crashes>>
Commits ==
  /\ Drives({"FROZEN"}) /\ driver.clear
  /\ journal' = [journal EXCEPT !.state = "GOING"]
  /\ driver' = [driver EXCEPT !.clear = FALSE]
  /\ UNCHANGED <<tombs, agent, crashes>>

Fails ==
  /\ Drives({"ARMED", "FROZEN", "GOING"})
  /\ \/ journal.state # "GOING" /\ \E code \in {1, 4} : Ends("ABORTED", code)
     \/ journal.state = "FROZEN" /\ Ends("STRANDED", 1)
     \/ journal.state # "ARMED" /\ Halts
  /\ UNCHANGED <<tombs, crashes>>
GoesLive ==
  Drives({"GOING"}) /\ Ends("LIVE", 100) /\ UNCHANGED <<tombs, crashes>>
Stops ==
  /\ Drives({"ARMED", "FROZEN", "GOING"}) /\ Ends(journal.state, 6)
  /\ UNCHANGED <<tombs, crashes>>
DriverDies ==
  /\ Drives({"ARMED", "FROZEN", "GOING"}) /\ crashes < MaxCrash
  /\ crashes' = crashes + 1 /\ Ends(journal.state, 1)
  /\ UNCHANGED tombs
-----------------------------------------------------------------------------
(* The operator.                                                           *)

RollsBack ==
  /\ driver = NoDriver /\ journal.state \in {"ARMED", "FROZEN", "STRANDED"}
  /\ journal' = [journal EXCEPT !.state = "ABORTED"]
  /\ UNCHANGED <<tombs, derived, agent, driver, starts, crashes>>
Unhalts(p) ==
  /\ driver = NoDriver /\ journal.state = "HALTED" /\ ~BoundElsewhere(p)
  /\ journal' = [journal EXCEPT !.state = journal.from, !.from = "none"]
  /\ UNCHANGED <<tombs, derived, agent, driver, starts, crashes>>

AgentNext ==
  \/ \E doc \in Looks : PollWaits(doc) \/ PollMisses(doc) \/ PollArms(doc)
  \/ StopsWaiting \/ Derive \/ RecordRan \/ Spawn
  \/ StartResumes \/ StartWaits
  \/ Reap \/ Restart \/ StartLimit \/ AgentDies
RunNext ==
  \/ \E p \in Payloads, of \in {"await", "hand"} :
       \/ RunLockedOut(p, of) \/ RunArms(p, of) \/ RunRefuses(p, of)
       \/ RunFinished(p, of) \/ RunResumes(p, of)
  \/ Authenticate \/ SeesAbort \/ Freezes \/ Clears \/ Commits \/ Fails
  \/ GoesLive \/ Stops \/ DriverDies
OthersNext ==
  RollsBack \/ \E p \in Payloads : Unhalts(p)

Next == AgentNext \/ RunNext \/ OthersNext
Spec == Init /\ [][Next]_vars
-----------------------------------------------------------------------------
TypeOK ==
  /\ DOMAIN tombs = {"kind", "after"}
  /\ tombs.kind \in [Events -> Kinds \cup {"none"}] /\ tombs.after \in [Events -> SUBSET Events]
  /\ \A e, f \in Events : Kind(tombs, e) # "none" /\ Kind(tombs, f) # "none" =>
       (f \in tombs.after[e] <=> e # f /\ e \notin tombs.after[f])
  /\ derived \in [Events -> Payloads \cup {NoPayload}]
  /\ journal \in [state : States, by : Payloads \cup {NoPayload},
                  bound : Payloads \cup {NoPayload}, from : {"none", "FROZEN", "GOING"}]
  /\ agent \in [pc : Pcs, accepted : Payloads \cup {NoPayload}, code : {0, 1, 4, 6, 100}]
  /\ driver \in [config : Payloads \cup {NoPayload},
                 of : {"none", "await", "orphan", "hand"}, clear : BOOLEAN]
  /\ starts \in [Events -> 0..2] /\ crashes \in 0..MaxCrash

(* An event id is started at most once, however await is killed, restarted *)
(* or re-armed, and whatever body is published under it afterwards.        *)
StartedOnce == \A e \in Events : starts[e] <= 1

(* A ceremony is only ever armed for, and bound to, a payload that the     *)
(* coordinator's ARM names: not for another body under the same id.        *)
OnlyWhatWasArmed ==
  \A p \in {journal.by, journal.bound} \ {NoPayload} : p \in Armed

(* A signed abort that this box saw is final for its event, whatever the   *)
(* relay serves later and whoever runs: the decision stays, and no run of  *)
(* the event is cleared to create or ignite, or goes past that clearance   *)
(* without it.  Not forbidden: a ceremony that was past it when it HALTED  *)
(* goes back there when an operator unhalts it (main.rs 675), whatever was *)
(* decided meanwhile.                                                      *)
Past(j) == j.state \in {"GOING", "LIVE"} \/ (j.state = "HALTED" /\ j.from = "GOING")

AbortIsFinal ==
  [][\A e \in Events : Tombstoned(e) =>
       /\ Tombstoned(e)'
       /\ driver'.clear /\ EventOf[driver'.config] = e => driver.clear
       /\ ~Past(journal) /\ Past(journal)' /\ EventOf[journal.bound] = e => driver.clear]_vars

(* Past ARMED a process only ever drives the journal with the payload it   *)
(* is bound to: a later event's config never continues an earlier event's  *)
(* ceremony, which would poll the wrong event for its abort.               *)
DrivesItsOwn ==
  driver # NoDriver /\ journal.state \notin {"none", "ARMED"}
    => driver.config = journal.bound
=============================================================================
