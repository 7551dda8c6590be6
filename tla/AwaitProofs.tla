----------------------------- MODULE AwaitProofs -----------------------------
(***************************************************************************)
(* For any payloads, events and number of deaths: the five properties of   *)
(* Await, from one inductive invariant.                                    *)
(***************************************************************************)
EXTENDS Await, TLAPS

Named == Payloads \cup {NoPayload}

\* Whoever drives the journal drives it with the payload it is bound to, if it
\* is bound; only an ARMED one that nobody authenticated, or its abort, is not.
DriveInv ==
  /\ driver # NoDriver =>
       /\ driver.config \in Payloads
       /\ journal.state \in {"ARMED", "FROZEN", "GOING"}
       /\ journal.bound # NoPayload => driver.config = journal.bound
  /\ journal.state \notin {"none", "ARMED", "ABORTED"} => journal.bound # NoPayload
  /\ journal.state = "none" => journal.bound = NoPayload
  /\ journal.state = "HALTED" => journal.from # "none"

\* An ARM names whatever a config is derived from, a process is started with
\* or the journal is armed for.
Signed == Armed \cup {NoPayload}
ArmedInv ==
  /\ \A e \in Events : derived[e] \in Signed
  /\ agent.pc \in {"derive", "record", "spawn"} => agent.accepted \in Armed
  /\ agent.pc = "child" => agent.accepted \in Signed
  /\ driver.config \in Signed /\ journal.by \in Signed /\ journal.bound \in Signed

\* What was started is decided, and what await waits for was not started.
StartInv ==
  /\ StartedOnce
  /\ \A e \in Events : starts[e] > 0 => Kind(tombs, e) # "none"
  /\ agent.pc \in {"derive", "record", "spawn"} => agent.accepted # NoPayload
  /\ agent.pc \in {"off", "failed", "start"} => agent.accepted = NoPayload
  /\ agent.pc \in {"loop", "derive", "record", "spawn"} /\ agent.accepted # NoPayload
       => starts[Mine] = 0
  /\ agent.pc = "spawn" => Kind(tombs, Mine) # "none"

IInv == TypeOK /\ DriveInv /\ ArmedInv /\ StartInv

-----------------------------------------------------------------------------
(* The tombstones. *)

Tombs(ts) ==
  /\ DOMAIN ts = {"kind", "after"}
  /\ ts.kind \in [Events -> Kinds \cup {"none"}] /\ ts.after \in [Events -> SUBSET Events]
  /\ \A e, f \in Events : Kind(ts, e) # "none" /\ Kind(ts, f) # "none" =>
       (f \in ts.after[e] <=> e # f /\ e \notin ts.after[f])

\* Recording keeps the decisions ordered, forgets none and downgrades no abort.
LEMMA RecordLemma ==
  ASSUME NEW ts, Tombs(ts), NEW e \in Events, NEW k \in Kinds
  PROVE  /\ Tombs(Record(ts, e, k))
         /\ Kind(Record(ts, e, k), e) # "none"
         /\ \A f \in Events :
              /\ Kind(ts, f) # "none" => Kind(Record(ts, e, k), f) # "none"
              /\ Kind(ts, f) = "aborted" => Kind(Record(ts, e, k), f) = "aborted"
<1>1. CASE Kind(ts, e) = "aborted"
  BY <1>1 DEF Record
<1>2. CASE Kind(ts, e) # "aborted"
  <2> DEFINE new == Decide(ts, e, k)
  <2>1. Record(ts, e, k) = new
    BY <1>2 DEF Record
  <2>2. DOMAIN new = {"kind", "after"} /\ new.kind = [ts.kind EXCEPT ![e] = k]
        /\ new.after = [x \in Events |-> IF x = e \/ ts.kind[x] = "none" THEN {}
                                         ELSE ts.after[x] \cup {e}]
    BY DEF Decide
  <2>3. new.kind \in [Events -> Kinds \cup {"none"}] /\ new.after \in [Events -> SUBSET Events]
    BY <2>2 DEF Tombs
  <2>4. \A f \in Events : new.kind[f] = IF f = e THEN k ELSE ts.kind[f]
    BY <2>2 DEF Tombs
  <2>5. ASSUME NEW x \in Events, NEW y \in Events, new.kind[x] # "none", new.kind[y] # "none"
        PROVE  y \in new.after[x] <=> x # y /\ x \notin new.after[y]
    <3>1. \A z \in Events : z # e /\ new.kind[z] # "none" =>
             ts.kind[z] # "none" /\ new.after[z] = ts.after[z] \cup {e}
      BY <2>2, <2>4
    <3>2. new.after[e] = {}
      BY <2>2
    <3>3. CASE x = e
      BY <3>1, <3>2, <3>3, <2>5
    <3>4. CASE x # e /\ y = e
      BY <3>1, <3>2, <3>4, <2>5
    <3>5. CASE x # e /\ y # e
      BY <3>1, <3>5, <2>5 DEF Tombs, Kind
    <3> QED BY <3>3, <3>4, <3>5
  <2>6. k # "none"
    BY DEF Kinds
  <2>7. Tombs(new)
    BY <2>2, <2>3, <2>5 DEF Tombs, Kind
  <2>8. \A f \in Events : /\ Kind(ts, f) # "none" => Kind(new, f) # "none"
                          /\ Kind(ts, f) = "aborted" => Kind(new, f) = "aborted"
    BY <2>4, <2>6, <1>2 DEF Kind
  <2>9. Kind(new, e) # "none"
    BY <2>4, <2>6 DEF Kind
  <2> QED BY <2>1, <2>7, <2>8, <2>9
<1>3. Kind(ts, e) = "aborted" => Kind(ts, e) # "none"
  OBVIOUS
<1> QED BY <1>1, <1>2

\* What a step leaves behind is recorded as the tombstones before it were.
Keeps ==
  /\ Tombs(tombs')
  /\ \A e \in Events : /\ Kind(tombs, e) # "none" => Kind(tombs', e) # "none"
                       /\ Tombstoned(e) => Tombstoned(e)'

LEMMA EventsOf == \A p \in Payloads : EventOf[p] \in Events
  BY DEF Events

LEMMA NotedLemma ==
  ASSUME TypeOK, NEW doc \in Looks
  PROVE  /\ Tombs(Noted(doc))
         /\ \A e \in Events :
              /\ Kind(tombs, e) # "none" => Kind(Noted(doc), e) # "none"
              /\ Kind(tombs, e) = "aborted" => Kind(Noted(doc), e) = "aborted"
<1>1. Tombs(tombs)
  BY DEF TypeOK, Tombs
<1>2. doc.event \in Named /\ doc.final \in {"no", "aborted", "completed"}
  BY DEF Looks, Named
<1>3. CASE Noted(doc) = tombs
  BY <1>1, <1>3
<1>4. CASE Noted(doc) # tombs
  <2>1. doc.event \in Payloads /\ doc.final \in Kinds
        /\ Noted(doc) = Record(tombs, EventOf[doc.event], doc.final)
    BY <1>2, <1>4 DEF Noted, Named, Kinds
  <2> QED BY <2>1, <1>1, EventsOf, RecordLemma
<1> QED BY <1>3, <1>4

LEMMA AcceptsLemma ==
  ASSUME TypeOK, NEW doc \in Looks
  PROVE  /\ Accepts(doc) \in Named
         /\ Accepts(doc) # NoPayload =>
              \/ Accepts(doc) = agent.accepted
              \/ Kind(tombs, EventOf[Accepts(doc)]) = "none"
<1>1. doc.event \in Named /\ agent.accepted \in Named
  BY DEF Looks, Named, TypeOK
<1>2. doc.event # NoPayload => EventOf[doc.event] \in Events
  BY <1>1, EventsOf DEF Named
<1>3. doc.event # NoPayload /\ Kind(Noted(doc), EventOf[doc.event]) = "none"
        => Kind(tombs, EventOf[doc.event]) = "none"
  BY <1>2, NotedLemma
<1> QED BY <1>1, <1>3 DEF Accepts, Named

\* Every step keeps the tombstones.
LEMMA TombsNext ==
  ASSUME TypeOK, [Next]_vars, DriveInv, StartInv
  PROVE  Keeps
<1>0. Tombs(tombs)
  BY DEF TypeOK, Tombs
<1>1. ASSUME NEW ts, tombs' = ts, Tombs(ts),
             \A e \in Events : /\ Kind(tombs, e) # "none" => Kind(ts, e) # "none"
                               /\ Kind(tombs, e) = "aborted" => Kind(ts, e) = "aborted"
      PROVE  Keeps
  BY <1>1 DEF Keeps, Tombs, Tombstoned, Kind
<1>2. ASSUME UNCHANGED tombs PROVE Keeps
  BY <1>0, <1>1, <1>2
<1>3. ASSUME NEW e \in Events, NEW k \in Kinds, tombs' = Record(tombs, e, k) PROVE Keeps
  BY <1>0, <1>1, <1>3, RecordLemma
<1>4. ASSUME NEW doc \in Looks, PollWaits(doc) \/ PollArms(doc) PROVE Keeps
  BY <1>1, <1>4, NotedLemma DEF PollWaits, PollArms
<1>5. ASSUME NEW doc \in Looks, PollMisses(doc) PROVE Keeps
  <2>1. Accepts(doc) \in Payloads
    BY <1>5, AcceptsLemma DEF PollMisses, Armable, ArmBinds, Named
  <2>2. "missed" \in Kinds
    BY DEF Kinds
  <2> DEFINE e == EventOf[Accepts(doc)]
  <2>3. e \in Events
    BY <2>1, EventsOf
  <2>4. tombs' = Record(Noted(doc), e, "missed")
    BY <1>5 DEF PollMisses
  <2> HIDE DEF e
  <2>5. Tombs(Noted(doc))
    BY NotedLemma
  <2>6. /\ Tombs(Record(Noted(doc), e, "missed"))
        /\ \A f \in Events :
              /\ Kind(Noted(doc), f) # "none" => Kind(Record(Noted(doc), e, "missed"), f) # "none"
              /\ Kind(Noted(doc), f) = "aborted" => Kind(Record(Noted(doc), e, "missed"), f) = "aborted"
    BY <2>2, <2>3, <2>5, RecordLemma
  <2> QED BY <1>1, <2>4, <2>6, NotedLemma
<1>6. CASE RecordRan
  <2>1. Mine \in Events
    BY <1>6, EventsOf DEF RecordRan, Mine, StartInv, TypeOK
  <2> QED BY <2>1, <1>3, <1>6 DEF RecordRan, Kinds
<1>7. CASE SeesAbort
  BY <1>3, <1>7, EventsOf DEF SeesAbort, Drives, DriveInv, Kinds
<1>8. CASE Spawn \/ Derive \/ StopsWaiting \/ StartResumes \/ StartWaits \/ Reap \/ Restart
             \/ StartLimit \/ AgentDies
  BY <1>2, <1>8 DEF Spawn, Derive, StopsWaiting, StartResumes, StartWaits, Reap, Restart,
                    StartLimit, AgentDies
<1>9. ASSUME NEW p \in Payloads, NEW of \in {"await", "hand"},
             RunLockedOut(p, of) \/ RunArms(p, of) \/ RunRefuses(p, of)
             \/ RunFinished(p, of) \/ RunResumes(p, of)
      PROVE  Keeps
  BY <1>2, <1>9 DEF RunLockedOut, RunArms, RunRefuses, RunFinished, RunResumes
<1>10. CASE Authenticate \/ Freezes \/ Clears \/ Commits \/ Fails \/ GoesLive \/ Stops \/ DriverDies
  BY <1>2, <1>10 DEF Authenticate, Freezes, Clears, Commits, Fails, GoesLive, Stops, DriverDies
<1>11. CASE OthersNext
  BY <1>2, <1>11 DEF OthersNext, RollsBack, Unhalts
<1>12. CASE UNCHANGED vars
  BY <1>2, <1>12 DEF vars
<1> QED BY <1>4, <1>5, <1>6, <1>7, <1>8, <1>9, <1>10, <1>11, <1>12 DEF Next, AgentNext, RunNext

-----------------------------------------------------------------------------
(* Types. *)

Journals == [state : States, by : Named, bound : Named, from : {"none", "FROZEN", "GOING"}]
Agents == [pc : Pcs, accepted : Named, code : {0, 1, 4, 6, 100}]
Drivers == [config : Named, of : {"none", "await", "orphan", "hand"}, clear : BOOLEAN]
Rest ==
  /\ derived \in [Events -> Named] /\ journal \in Journals /\ agent \in Agents
  /\ driver \in Drivers /\ starts \in [Events -> 0..2] /\ crashes \in 0..MaxCrash

LEMMA TypeParts == TypeOK <=> Tombs(tombs) /\ Rest
  BY DEF TypeOK, Tombs, Rest, Journals, Agents, Drivers, Named

LEMMA ExitType ==
  ASSUME agent \in Agents, NEW of, NEW code \in {0, 1, 4, 6, 100}, Exit(of, code)
  PROVE  agent' \in Agents
  BY DEF Exit, Agents

LEMMA EndsType ==
  ASSUME Rest, NEW s \in States, NEW code \in {1, 4, 6, 100}, Ends(s, code)
  PROVE  journal' \in Journals /\ agent' \in Agents /\ driver' \in Drivers
<1>1. Exit(driver.of, code) /\ journal' = [journal EXCEPT !.state = s] /\ driver' = NoDriver
  BY DEF Ends
<1>2. agent' \in Agents
  BY <1>1, ExitType DEF Rest
<1>3. journal' \in Journals
  BY <1>1 DEF Rest, Journals
<1>4. NoDriver \in Drivers
  BY DEF NoDriver, Drivers, Named
<1> QED BY <1>1, <1>2, <1>3, <1>4

LEMMA HaltsType ==
  ASSUME Rest, Halts, journal.state \in {"FROZEN", "GOING"}
  PROVE  journal' \in Journals /\ agent' \in Agents /\ driver' \in Drivers
<1>1. PICK from \in {"FROZEN", "GOING"} :
         journal' = [journal EXCEPT !.state = "HALTED", !.from = from]
  BY DEF Halts
<1>2. Exit(driver.of, 1) /\ driver' = NoDriver
  BY DEF Halts
<1>3. agent' \in Agents
  BY <1>2, ExitType DEF Rest
<1>4. journal' \in Journals
  BY <1>1 DEF Rest, Journals, States
<1>5. NoDriver \in Drivers
  BY DEF NoDriver, Drivers, Named
<1> QED BY <1>2, <1>3, <1>4, <1>5

LEMMA AgentTypes ==
  ASSUME TypeOK, StartInv, AgentNext PROVE Rest'
<1>1. Rest /\ NoPayload \in Named
  BY TypeParts DEF Named
<1>2. ASSUME NEW doc \in Looks, PollWaits(doc) PROVE Rest'
  BY <1>1, <1>2, AcceptsLemma DEF PollWaits, Poll, Rest, Agents, Pcs
<1>3. ASSUME NEW doc \in Looks, PollMisses(doc) PROVE Rest'
  BY <1>1, <1>3 DEF PollMisses, Poll, Rest, Agents, Pcs
<1>4. ASSUME NEW doc \in Looks, PollArms(doc) PROVE Rest'
  BY <1>1, <1>4, AcceptsLemma DEF PollArms, Poll, Rest, Agents, Pcs
<1>5. CASE StopsWaiting
  BY <1>1, <1>5 DEF StopsWaiting, Rest, Agents, Pcs
<1>6. CASE Derive
  <2>1. agent.accepted \in Named /\ crashes \in 0..MaxCrash /\ MaxCrash \in Nat
    BY <1>1, AwaitAssumption DEF Rest, Agents
  <2>2. derived' \in [Events -> Named]
    BY <1>1, <1>6, <2>1 DEF Derive, Rest
  <2>3. crashes' \in 0..MaxCrash
    BY <1>6, <2>1 DEF Derive
  <2>4. agent' \in Agents
    <3>1. agent \in Agents /\ NoPayload \in Named
      BY <1>1 DEF Rest
    <3>2. \/ agent' = [agent EXCEPT !.pc = "record"]
          \/ agent' = [agent EXCEPT !.pc = "failed", !.accepted = NoPayload]
      BY <1>6 DEF Derive
    <3>3. "record" \in Pcs /\ "failed" \in Pcs
      BY DEF Pcs
    <3>4. CASE agent' = [agent EXCEPT !.pc = "record"]
      BY <3>1, <3>3, <3>4 DEF Agents
    <3>5. CASE agent' = [agent EXCEPT !.pc = "failed", !.accepted = NoPayload]
      BY <3>1, <3>3, <3>5 DEF Agents
    <3> QED BY <3>2, <3>4, <3>5
  <2> QED BY <1>1, <1>6, <2>2, <2>3, <2>4 DEF Derive, Rest
<1>7. CASE RecordRan
  BY <1>1, <1>7 DEF RecordRan, Rest, Agents, Pcs
<1>8. CASE Spawn
  <2>1. Mine \in Events
    BY <1>1, <1>8, EventsOf DEF Spawn, Mine, StartInv, Rest, Agents, Named
  <2>2. derived[Mine] \in Named /\ starts[Mine] \in 0..2
    BY <1>1, <2>1 DEF Rest
  <2>3. agent' \in Agents
    BY <1>1, <1>8, <2>2 DEF Spawn, Rest, Agents, Pcs
  <2>4. starts' \in [Events -> 0..2]
    <3>1. (IF starts[Mine] = 2 THEN 2 ELSE starts[Mine] + 1) \in 0..2
      BY <2>2
    <3>2. starts' = [starts EXCEPT ![Mine] = IF starts[Mine] = 2 THEN 2 ELSE starts[Mine] + 1]
      BY <1>8 DEF Spawn
    <3> QED BY <1>1, <2>1, <3>1, <3>2 DEF Rest
  <2> QED BY <1>1, <1>8, <2>3, <2>4 DEF Spawn, Rest
<1>9. CASE StartResumes
  <2>1. PICK e \in Events :
          agent' = [agent EXCEPT !.pc = "child", !.accepted = derived[e], !.code = 0]
    BY <1>9 DEF StartResumes
  <2>2. agent \in Agents /\ derived[e] \in Named
    BY <1>1 DEF Rest
  <2>3. agent' \in Agents
    BY <2>1, <2>2 DEF Agents, Pcs
  <2> QED BY <1>1, <1>9, <2>3 DEF StartResumes, Rest
<1>10. CASE StartWaits \/ Reap \/ Restart \/ StartLimit
  BY <1>1, <1>10 DEF StartWaits, Reap, Restart, StartLimit, Rest, Agents, Pcs
<1>11. CASE AgentDies
  <2>1. crashes' \in 0..MaxCrash
    BY <1>1, <1>11, AwaitAssumption DEF AgentDies, Rest
  <2>2. agent' \in Agents
    BY <1>1, <1>11 DEF AgentDies, Agents, Pcs
  <2>3. driver' \in Drivers
    <3>1. driver \in Drivers /\ NoPayload \in Named
      BY <1>1 DEF Rest
    <3>2. driver' \in {driver, NoDriver, [driver EXCEPT !.of = "orphan"]}
      BY <1>11 DEF AgentDies
    <3>3. NoDriver \in Drivers
      BY <3>1 DEF NoDriver, Drivers
    <3>4. [driver EXCEPT !.of = "orphan"] \in Drivers
      BY <3>1 DEF Drivers
    <3> QED BY <3>1, <3>2, <3>3, <3>4
  <2> QED BY <1>1, <1>11, <2>1, <2>2, <2>3 DEF AgentDies, Rest
<1> QED BY <1>2, <1>3, <1>4, <1>5, <1>6, <1>7, <1>8, <1>9, <1>10, <1>11 DEF AgentNext

LEMMA RunTypes ==
  ASSUME TypeOK, RunNext \/ OthersNext PROVE Rest'
<1>1. Rest /\ MaxCrash \in Nat
  BY TypeParts, AwaitAssumption
<1>2. ASSUME NEW p \in Payloads, NEW of \in {"await", "hand"},
             RunLockedOut(p, of) \/ RunRefuses(p, of) \/ RunFinished(p, of)
      PROVE  Rest'
  <2>1. PICK code \in {1, 4, 100} : Exit(of, code)
    BY <1>2 DEF RunLockedOut, RunRefuses, RunFinished
  <2>2. agent' \in Agents
    BY <1>1, <2>1, ExitType DEF Rest
  <2> QED BY <1>1, <1>2, <2>2 DEF RunLockedOut, RunRefuses, RunFinished, Rest
<1>3. ASSUME NEW p \in Payloads, NEW of \in {"await", "hand"}, RunArms(p, of)
      PROVE  Rest'
  <2>1. CASE driver' = [config |-> p, of |-> of, clear |-> FALSE]
             /\ journal' = [journal EXCEPT !.state = "ARMED", !.by = p] /\ UNCHANGED <<agent, crashes>>
    <3>1. driver' \in Drivers
      BY <2>1 DEF Drivers, Named
    <3>2. journal' \in Journals
      BY <1>1, <2>1 DEF Rest, Journals, States, Named
    <3> QED BY <1>1, <1>3, <2>1, <3>1, <3>2 DEF RunArms, Rest
  <2>2. CASE crashes < MaxCrash /\ crashes' = crashes + 1 /\ Exit(of, 1) /\ UNCHANGED <<journal, driver>>
    <3>1. agent' \in Agents
      BY <1>1, <2>2, ExitType DEF Rest
    <3> QED BY <1>1, <1>3, <2>2, <3>1 DEF RunArms, Rest
  <2> QED BY <1>3, <2>1, <2>2 DEF RunArms
<1>4. ASSUME NEW p \in Payloads, NEW of \in {"await", "hand"}, RunResumes(p, of)
      PROVE  Rest'
  <2>1. driver' \in Drivers
    BY <1>4 DEF RunResumes, Drivers, Named
  <2> QED BY <1>1, <1>4, <2>1 DEF RunResumes, Rest
<1>5. CASE Authenticate
  <2>1. journal' \in Journals
    BY <1>1, <1>5 DEF Authenticate, Rest, Journals, Drivers
  <2> QED BY <1>1, <1>5, <2>1 DEF Authenticate, Drives, Rest
<1>6. ASSUME NEW s \in States, NEW code \in {1, 4, 6, 100}, Ends(s, code),
             UNCHANGED <<derived, starts>>,
             UNCHANGED crashes \/ (crashes < MaxCrash /\ crashes' = crashes + 1)
      PROVE  Rest'
  BY <1>1, <1>6, EndsType DEF Rest
<1>7. CASE SeesAbort \/ Fails
  <2>1. CASE \E s \in States, code \in {1, 4, 6, 100} : Ends(s, code)
    BY <1>6, <1>7, <2>1 DEF SeesAbort, Fails, Drives
  <2>2. CASE Halts /\ journal.state \in {"FROZEN", "GOING"}
    BY <1>1, <1>7, <2>2, HaltsType DEF SeesAbort, Fails, Drives, Rest
  <2>3. \/ \E s \in States, code \in {1, 4, 6, 100} : Ends(s, code)
        \/ Halts /\ journal.state \in {"FROZEN", "GOING"}
    BY <1>7 DEF SeesAbort, Fails, Drives, States
  <2> QED BY <2>1, <2>2, <2>3
<1>8. CASE GoesLive
  BY <1>6, <1>8 DEF GoesLive, Drives, States
<1>9. CASE Stops \/ DriverDies
  <2>1. journal.state \in States
    BY <1>1 DEF Rest, Journals
  <2> QED BY <1>6, <1>9, <2>1 DEF Stops, DriverDies, Drives
<1>10. CASE Freezes
  BY <1>1, <1>10 DEF Freezes, Drives, Rest, Journals, States
<1>11. CASE Clears
  BY <1>1, <1>11 DEF Clears, Drives, Rest, Drivers
<1>12. CASE Commits
  <2>1. journal' \in Journals /\ driver' \in Drivers
    BY <1>1, <1>12 DEF Commits, Rest, Journals, States, Drivers
  <2> QED BY <1>1, <1>12, <2>1 DEF Commits, Drives, Rest
<1>13. CASE OthersNext
  <2>1. journal' \in Journals
    <3>1. CASE RollsBack
      BY <1>1, <3>1 DEF RollsBack, Rest, Journals, States
    <3>2. ASSUME NEW p \in Payloads, Unhalts(p) PROVE journal' \in Journals
      <4>1. journal.from \in {"none", "FROZEN", "GOING"} /\ journal \in Journals
        BY <1>1 DEF Rest, Journals
      <4>2. journal' = [journal EXCEPT !.state = journal.from, !.from = "none"]
        BY <3>2 DEF Unhalts
      <4>3. journal.from \in States
        BY <4>1 DEF States
      <4> QED BY <4>1, <4>2, <4>3 DEF Journals
    <3> QED BY <1>13, <3>1, <3>2 DEF OthersNext
  <2> QED BY <1>1, <1>13, <2>1 DEF OthersNext, RollsBack, Unhalts, Rest
<1> QED BY <1>2, <1>3, <1>4, <1>5, <1>7, <1>8, <1>9, <1>10, <1>11, <1>12, <1>13 DEF RunNext

LEMMA TypeNext ==
  ASSUME TypeOK, DriveInv, StartInv, [Next]_vars PROVE TypeOK'
<1>1. Tombs(tombs')
  BY TombsNext DEF Keeps
<1>2. Rest
  BY TypeParts
<1>3. ASSUME UNCHANGED vars PROVE Rest'
  <2>1. UNCHANGED <<derived, journal, agent, driver, starts, crashes>>
    BY <1>3 DEF vars
  <2> QED BY <1>2, <2>1 DEF Rest
<1>4. ASSUME AgentNext PROVE Rest'
  BY <1>4, AgentTypes
<1>5. ASSUME RunNext \/ OthersNext PROVE Rest'
  BY <1>5, RunTypes
<1>6. Rest'
  BY <1>3, <1>4, <1>5 DEF Next
<1> QED BY <1>1, <1>6 DEF TypeOK, Tombs, Rest, Journals, Agents, Drivers, Named, Kind

-----------------------------------------------------------------------------
(* What drives the journal. *)

LEMMA DriveNext ==
  ASSUME TypeOK, DriveInv, StartInv, [Next]_vars PROVE DriveInv'
<1>1. journal \in Journals /\ driver \in Drivers /\ NoPayload \notin Payloads
  BY TypeParts, AwaitAssumption DEF Rest
<1>2. DOMAIN journal = {"state", "by", "bound", "from"}
  BY <1>1 DEF Journals
<1>3. ASSUME UNCHANGED <<journal, driver>> PROVE DriveInv'
  BY <1>3 DEF DriveInv
<1>4. ASSUME UNCHANGED journal, driver' = NoDriver PROVE DriveInv'
  BY <1>4 DEF DriveInv
<1>5. ASSUME driver # NoDriver, NEW s \in States \ {"none", "HALTED"}, NEW code, Ends(s, code),
             s \in {"ARMED", "ABORTED"} \/ journal.bound # NoPayload
      PROVE  DriveInv'
  <2>1. journal'.state = s /\ journal'.bound = journal.bound /\ driver' = NoDriver
    BY <1>1, <1>2, <1>5 DEF Ends
  <2> QED BY <1>5, <2>1 DEF DriveInv
<1>6. CASE UNCHANGED vars
  BY <1>3, <1>6 DEF vars
<1>7. CASE AgentNext
  <2>1. CASE AgentDies
    <3>1. CASE driver' = [driver EXCEPT !.of = "orphan"] /\ driver # NoDriver
      <4>1. driver'.config = driver.config /\ UNCHANGED journal
        BY <1>1, <2>1, <3>1 DEF AgentDies, Drivers
      <4> QED BY <3>1, <4>1 DEF DriveInv
    <3>2. CASE driver' # [driver EXCEPT !.of = "orphan"]
      BY <1>3, <1>4, <2>1, <3>2 DEF AgentDies
    <3>3. driver.of = "await" => driver # NoDriver
      BY DEF NoDriver
    <3>4. driver.of # "await" => UNCHANGED driver
      BY <2>1 DEF AgentDies
    <3> QED BY <1>3, <2>1, <3>1, <3>2, <3>3, <3>4 DEF AgentDies
  <2>2. CASE ~AgentDies
    BY <1>3, <1>7, <2>2 DEF AgentNext, PollWaits, PollMisses, PollArms, Poll, StopsWaiting, Derive,
                            RecordRan, Spawn, StartResumes, StartWaits, Reap, Restart, StartLimit
  <2> QED BY <2>1, <2>2
<1>8. ASSUME NEW p \in Payloads, NEW of \in {"await", "hand"},
             RunLockedOut(p, of) \/ RunRefuses(p, of) \/ RunFinished(p, of)
      PROVE  DriveInv'
  BY <1>3, <1>8 DEF RunLockedOut, RunRefuses, RunFinished
<1>9. ASSUME NEW p \in Payloads, NEW of \in {"await", "hand"}, RunArms(p, of)
      PROVE  DriveInv'
  <2>1. CASE UNCHANGED <<journal, driver>>
    BY <1>3, <2>1
  <2>2. CASE ~UNCHANGED <<journal, driver>>
    <3>1. journal' = [journal EXCEPT !.state = "ARMED", !.by = p]
          /\ driver' = [config |-> p, of |-> of, clear |-> FALSE]
      BY <1>9, <2>2 DEF RunArms
    <3>2. journal'.state = "ARMED" /\ journal'.bound = NoPayload /\ driver'.config = p
      BY <1>1, <1>2, <1>9, <3>1 DEF RunArms, DriveInv
    <3> QED BY <3>2 DEF DriveInv
  <2> QED BY <2>1, <2>2
<1>10. ASSUME NEW p \in Payloads, NEW of \in {"await", "hand"}, RunResumes(p, of)
      PROVE  DriveInv'
  <2>1. driver'.config = p /\ UNCHANGED journal
    BY <1>10 DEF RunResumes
  <2> QED BY <1>10, <2>1 DEF RunResumes, BoundElsewhere, DriveInv
<1>11. CASE Authenticate
  <2>1. journal'.state = journal.state /\ journal'.bound = driver.config /\ UNCHANGED driver
    BY <1>1, <1>2, <1>11 DEF Authenticate
  <2>2. driver # NoDriver /\ journal.state = "ARMED"
    BY <1>11 DEF Authenticate, Drives
  <2> QED BY <2>1, <2>2 DEF DriveInv
<1>12. CASE SeesAbort \/ Fails
  <2>1. driver # NoDriver /\ journal.state \in {"ARMED", "FROZEN", "GOING"}
    BY <1>12 DEF SeesAbort, Fails, Drives
  <2>2. journal.state # "ARMED" => journal.bound # NoPayload
    BY <2>1 DEF DriveInv
  <2>3. ASSUME NEW s \in {"ABORTED", "STRANDED"}, NEW code \in {1, 4}, Ends(s, code),
               s = "ABORTED" \/ journal.state # "ARMED"
        PROVE  DriveInv'
    BY <1>5, <2>1, <2>2, <2>3 DEF States
  <2>4. ASSUME Halts, journal.state \in {"FROZEN", "GOING"} PROVE DriveInv'
    <3>1. PICK from \in {"FROZEN", "GOING"} :
             journal' = [journal EXCEPT !.state = "HALTED", !.from = from]
      BY <2>4 DEF Halts
    <3>2. journal'.state = "HALTED" /\ journal'.from = from /\ journal'.bound = journal.bound
      BY <1>1, <3>1 DEF Journals
    <3>3. driver' = NoDriver
      BY <2>4 DEF Halts
    <3> QED BY <2>2, <2>4, <3>2, <3>3 DEF DriveInv
  <2> QED BY <1>12, <2>1, <2>3, <2>4 DEF SeesAbort, Fails
<1>13. CASE GoesLive
  BY <1>5, <1>13 DEF GoesLive, Drives, DriveInv, States
<1>14. CASE Stops \/ DriverDies
  <2>1. driver # NoDriver /\ journal.state \in {"ARMED", "FROZEN", "GOING"}
        /\ \E code \in {1, 6} : Ends(journal.state, code)
    BY <1>14 DEF Stops, DriverDies, Drives
  <2> QED BY <1>5, <2>1 DEF DriveInv, States
<1>15. CASE Freezes
  <2>1. journal'.state = "FROZEN" /\ journal'.bound = journal.bound /\ UNCHANGED driver
    BY <1>1, <1>2, <1>15 DEF Freezes
  <2> QED BY <1>15, <2>1 DEF Freezes, Drives, DriveInv
<1>16. CASE Clears
  <2>1. driver'.config = driver.config /\ UNCHANGED journal /\ driver # NoDriver
    BY <1>1, <1>16 DEF Clears, Drives, Drivers
  <2> QED BY <2>1 DEF DriveInv
<1>17. CASE Commits
  <2>1. driver'.config = driver.config /\ driver # NoDriver
    BY <1>1, <1>17 DEF Commits, Drives, Drivers
  <2>2. journal'.state = "GOING" /\ journal'.bound = journal.bound
    BY <1>1, <1>2, <1>17 DEF Commits
  <2> QED BY <1>17, <2>1, <2>2 DEF Commits, Drives, DriveInv
<1>18. CASE RollsBack
  <2>1. journal'.state = "ABORTED" /\ driver' = NoDriver
    BY <1>1, <1>2, <1>18 DEF RollsBack
  <2> QED BY <2>1 DEF DriveInv
<1>19. ASSUME NEW p \in Payloads, Unhalts(p) PROVE DriveInv'
  <2>1. journal'.state = journal.from /\ journal'.bound = journal.bound /\ driver' = NoDriver
    BY <1>1, <1>19 DEF Unhalts, Journals
  <2>2. journal.from \in {"FROZEN", "GOING"} /\ journal.bound # NoPayload
    BY <1>1, <1>19 DEF Unhalts, Journals, DriveInv
  <2> QED BY <2>1, <2>2 DEF DriveInv
<1> QED BY <1>6, <1>7, <1>8, <1>9, <1>10, <1>11, <1>12, <1>13, <1>14, <1>15, <1>16, <1>17, <1>18,
           <1>19 DEF Next, RunNext, OthersNext

-----------------------------------------------------------------------------
(* What an ARM named. *)

\* A run of the ceremony, or the operator, changes nothing of await but the
\* exit code it will see.
LEMMA RunKeepsAgent ==
  ASSUME TypeOK, RunNext \/ OthersNext
  PROVE  UNCHANGED <<agent.pc, agent.accepted>> /\ UNCHANGED <<derived, starts>>
<1>1. agent \in Agents
  BY TypeParts DEF Rest
<1>2. ASSUME NEW of, NEW code, Exit(of, code) PROVE UNCHANGED <<agent.pc, agent.accepted>>
  BY <1>1, <1>2 DEF Exit, Agents
<1>3. ASSUME NEW s, NEW code, Ends(s, code) PROVE UNCHANGED <<agent.pc, agent.accepted>>
  BY <1>2, <1>3 DEF Ends
<1>4. ASSUME NEW p \in Payloads, NEW of \in {"await", "hand"},
             \/ RunLockedOut(p, of) \/ RunArms(p, of) \/ RunRefuses(p, of)
             \/ RunFinished(p, of) \/ RunResumes(p, of)
      PROVE  UNCHANGED <<agent.pc, agent.accepted>> /\ UNCHANGED <<derived, starts>>
  BY <1>2, <1>4 DEF RunLockedOut, RunArms, RunRefuses, RunFinished, RunResumes
<1>5. CASE SeesAbort \/ Fails \/ GoesLive \/ Stops \/ DriverDies
  BY <1>2, <1>3, <1>5 DEF SeesAbort, Fails, GoesLive, Stops, DriverDies, Drives, Halts
<1>6. CASE Authenticate \/ Freezes \/ Clears \/ Commits \/ OthersNext
  BY <1>6 DEF Authenticate, Freezes, Clears, Commits, Drives, OthersNext, RollsBack, Unhalts
<1> QED BY <1>4, <1>5, <1>6 DEF RunNext

LEMMA ArmedAgent ==
  ASSUME TypeOK, DriveInv, ArmedInv, StartInv, AgentNext PROVE ArmedInv'
<1>1. journal \in Journals /\ agent \in Agents /\ driver \in Drivers
      /\ NoPayload \notin Payloads /\ Armed \subseteq Payloads
  BY TypeParts, AwaitAssumption DEF Rest
<1>2. derived \in [Events -> Named]
  BY TypeParts DEF Rest
<1>3. ASSUME UNCHANGED <<derived, journal, driver>>, agent'.pc \notin {"derive", "record", "spawn", "child"}
      PROVE  ArmedInv'
  BY <1>3 DEF ArmedInv
<1>4. ASSUME NEW doc \in Looks, PollWaits(doc) \/ PollMisses(doc) PROVE ArmedInv'
  <2>1. agent'.pc \in {"loop", "off"}
    <3>1. PollWaits(doc) => agent'.pc = "loop"
      BY <1>1 DEF PollWaits, Poll, Agents
    <3>2. PollMisses(doc) => agent'.pc = "off"
      BY <1>1 DEF PollMisses, Agents
    <3> QED BY <1>4, <3>1, <3>2
  <2> QED BY <1>3, <1>4, <2>1 DEF PollWaits, PollMisses, Poll
<1>5. ASSUME NEW doc \in Looks, PollArms(doc) PROVE ArmedInv'
  <2>1. Accepts(doc) \in Armed
    BY <1>1, <1>5 DEF PollArms, Armable, ArmBinds, Looks
  <2>2. agent'.accepted = Accepts(doc) /\ UNCHANGED <<derived, journal, driver>>
    BY <1>1, <1>5 DEF PollArms, Poll, Agents
  <2> QED BY <2>1, <2>2 DEF ArmedInv, Signed
<1>6. CASE StopsWaiting \/ StartWaits \/ Reap \/ Restart \/ StartLimit
  <2>1. agent'.pc \in {"off", "loop", "failed", "start"}
    <3>1. StopsWaiting => agent'.pc = "off"
      BY <1>1 DEF StopsWaiting, Agents
    <3>2. Reap => agent'.pc \in {"failed", "off"}
      <4>1. Reap => agent'.pc = IF agent.code = 1 THEN "failed" ELSE "off"
        BY DEF Reap
      <4> QED BY <4>1
    <3>3. StartWaits \/ Restart \/ StartLimit => agent'.pc \in {"loop", "start", "off"}
      BY <1>1 DEF StartWaits, Restart, StartLimit, Agents
    <3> QED BY <1>6, <3>1, <3>2, <3>3
  <2> QED BY <1>3, <1>6, <2>1 DEF StopsWaiting, StartWaits, Reap, Restart, StartLimit
<1>7. CASE Derive
  <2>1. agent.accepted \in Armed /\ UNCHANGED <<journal, driver>>
    BY <1>7 DEF Derive, ArmedInv
  <2>2. CASE derived' = [derived EXCEPT ![Mine] = agent.accepted]
             /\ agent' = [agent EXCEPT !.pc = "record"]
    <3>1. \A e \in Events : derived'[e] \in Signed
      BY <1>2, <2>1, <2>2 DEF ArmedInv, Signed
    <3>2. agent'.accepted = agent.accepted /\ agent'.pc = "record"
      BY <1>1, <2>2 DEF Agents
    <3> QED BY <2>1, <3>1, <3>2 DEF ArmedInv
  <2>3. CASE agent' = [agent EXCEPT !.pc = "failed", !.accepted = NoPayload] /\ UNCHANGED derived
    BY <1>1, <1>3, <2>1, <2>3 DEF Agents
  <2> QED BY <1>7, <2>2, <2>3 DEF Derive
<1>8. CASE RecordRan
  <2>1. agent'.accepted = agent.accepted /\ agent'.pc = "spawn" /\ UNCHANGED <<derived, journal, driver>>
    BY <1>1, <1>8 DEF RecordRan, Agents
  <2> QED BY <1>8, <2>1 DEF RecordRan, ArmedInv
<1>9. ASSUME NEW e \in Events, agent' = [agent EXCEPT !.pc = "child", !.accepted = derived[e], !.code = 0],
             UNCHANGED <<derived, journal, driver>>
      PROVE  ArmedInv'
  <2>1. agent'.accepted = derived[e] /\ agent'.pc = "child"
    BY <1>1, <1>9 DEF Agents
  <2> QED BY <1>9, <2>1 DEF ArmedInv
<1>10. CASE Spawn
  <2>1. Mine \in Events
    BY <1>1, <1>10, EventsOf DEF Spawn, Mine, ArmedInv
  <2> QED BY <1>9, <1>10, <2>1 DEF Spawn
<1>11. CASE StartResumes
  BY <1>9, <1>11 DEF StartResumes
<1>12. CASE AgentDies
  <2>1. agent'.pc = "failed" /\ UNCHANGED <<derived, journal>>
    BY <1>12 DEF AgentDies
  <2>2. driver'.config \in {driver.config, NoPayload}
    BY <1>1, <1>12 DEF AgentDies, NoDriver, Drivers
  <2> QED BY <2>1, <2>2 DEF ArmedInv, Signed
<1> QED BY <1>4, <1>5, <1>6, <1>7, <1>8, <1>10, <1>11, <1>12 DEF AgentNext

LEMMA ArmedRun ==
  ASSUME TypeOK, DriveInv, ArmedInv, RunNext \/ OthersNext PROVE ArmedInv'
<1>1. journal \in Journals /\ agent \in Agents /\ driver \in Drivers
      /\ NoPayload \notin Payloads /\ Armed \subseteq Payloads
  BY TypeParts, AwaitAssumption DEF Rest
<1>2. UNCHANGED derived /\ UNCHANGED <<agent.pc, agent.accepted>>
  BY RunKeepsAgent
<1>3. ASSUME driver'.config \in Signed, journal'.by \in Signed, journal'.bound \in Signed
      PROVE  ArmedInv'
  BY <1>2, <1>3 DEF ArmedInv
<1>4. ASSUME driver'.config \in {driver.config, NoPayload},
             journal'.by = journal.by, journal'.bound = journal.bound
      PROVE  ArmedInv'
  BY <1>3, <1>4 DEF ArmedInv, Signed
<1>5. ASSUME NEW p \in Payloads, NEW of \in {"await", "hand"}, Opens(p, of) PROVE p \in Signed
  <2>1. CASE of = "await"
    BY <1>5, <2>1 DEF Opens, ArmedInv
  <2>2. CASE of = "hand"
    BY <1>5, <2>2 DEF Opens, ArmedInv
  <2> QED BY <2>1, <2>2
<1>6. ASSUME NEW p \in Payloads, NEW of \in {"await", "hand"},
             RunLockedOut(p, of) \/ RunRefuses(p, of) \/ RunFinished(p, of)
      PROVE  ArmedInv'
  BY <1>4, <1>6 DEF RunLockedOut, RunRefuses, RunFinished
<1>7. ASSUME NEW p \in Payloads, NEW of \in {"await", "hand"}, RunArms(p, of) PROVE ArmedInv'
  <2>1. CASE UNCHANGED <<journal, driver>>
    BY <1>4, <2>1
  <2>2. CASE ~UNCHANGED <<journal, driver>>
    <3>1. journal' = [journal EXCEPT !.state = "ARMED", !.by = p]
          /\ driver' = [config |-> p, of |-> of, clear |-> FALSE]
      BY <1>7, <2>2 DEF RunArms
    <3>2. journal'.by = p /\ journal'.bound = journal.bound /\ driver'.config = p
      BY <1>1, <3>1 DEF Journals
    <3>3. p \in Signed
      BY <1>5, <1>7 DEF RunArms
    <3> QED BY <1>3, <3>2, <3>3 DEF ArmedInv
  <2> QED BY <2>1, <2>2
<1>8. ASSUME NEW p \in Payloads, NEW of \in {"await", "hand"}, RunResumes(p, of) PROVE ArmedInv'
  <2>1. driver'.config = p /\ UNCHANGED journal /\ p \in Signed
    BY <1>5, <1>8 DEF RunResumes
  <2> QED BY <1>3, <2>1 DEF ArmedInv
<1>9. CASE Authenticate
  <2>1. journal'.by = journal.by /\ journal'.bound = driver.config /\ UNCHANGED driver
    BY <1>1, <1>9 DEF Authenticate, Journals
  <2> QED BY <1>3, <2>1 DEF ArmedInv
<1>10. ASSUME NEW s, NEW code, Ends(s, code) PROVE ArmedInv'
  <2>1. driver'.config = NoPayload /\ journal'.by = journal.by /\ journal'.bound = journal.bound
    BY <1>1, <1>10 DEF Ends, NoDriver, Journals
  <2> QED BY <1>4, <2>1
<1>11. CASE SeesAbort \/ Fails \/ GoesLive \/ Stops \/ DriverDies
  <2>1. ASSUME Halts PROVE ArmedInv'
    <3>1. PICK from : journal' = [journal EXCEPT !.state = "HALTED", !.from = from]
      BY <2>1 DEF Halts
    <3>2. driver'.config = NoPayload /\ journal'.by = journal.by /\ journal'.bound = journal.bound
      BY <1>1, <2>1, <3>1 DEF Halts, NoDriver, Journals
    <3> QED BY <1>4, <3>2
  <2> QED BY <1>10, <1>11, <2>1 DEF SeesAbort, Fails, GoesLive, Stops, DriverDies
<1>12. CASE Freezes \/ Clears \/ Commits
  <2>1. driver'.config = driver.config /\ journal'.by = journal.by /\ journal'.bound = journal.bound
    BY <1>1, <1>12 DEF Freezes, Clears, Commits, Journals, Drivers
  <2> QED BY <1>4, <2>1
<1>13. CASE OthersNext
  <2>1. driver' = driver /\ journal'.by = journal.by /\ journal'.bound = journal.bound
    BY <1>1, <1>13 DEF OthersNext, RollsBack, Unhalts, Journals
  <2> QED BY <1>4, <2>1
<1> QED BY <1>6, <1>7, <1>8, <1>9, <1>11, <1>12, <1>13 DEF RunNext

-----------------------------------------------------------------------------
(* What was started. *)

LEMMA StartAgent ==
  ASSUME TypeOK, StartInv, Keeps, AgentNext PROVE StartInv'
<1>1. agent \in Agents /\ NoPayload \notin Payloads /\ starts \in [Events -> 0..2]
  BY TypeParts, AwaitAssumption DEF Rest
<1>2. \A e \in Events : Kind(tombs, e) # "none" => Kind(tombs', e) # "none"
  BY DEF Keeps
<1>3. ASSUME UNCHANGED starts, agent'.pc \in {"off", "failed", "start", "loop", "child"},
             agent'.pc # "child" => agent'.accepted = NoPayload
      PROVE  StartInv'
  BY <1>2, <1>3 DEF StartInv, StartedOnce
\* What is accepted at a look was never started.
<1>4. ASSUME NEW doc \in Looks, Poll(doc), Accepts(doc) # NoPayload
      PROVE  EventOf[Accepts(doc)] \in Events /\ starts[EventOf[Accepts(doc)]] = 0
  <2>1. Accepts(doc) \in Payloads
    BY <1>4, AcceptsLemma DEF Named
  <2>2. EventOf[Accepts(doc)] \in Events
    BY <2>1, EventsOf
  <2>3. CASE Accepts(doc) = agent.accepted
    BY <1>4, <2>2, <2>3 DEF StartInv, Poll, Mine
  <2>4. CASE Kind(tombs, EventOf[Accepts(doc)]) = "none"
    BY <1>1, <2>2, <2>4 DEF StartInv
  <2> QED BY <1>4, <2>2, <2>3, <2>4, AcceptsLemma
<1>5. ASSUME NEW doc \in Looks, PollWaits(doc) \/ PollArms(doc) PROVE StartInv'
  <2>1. agent'.accepted = Accepts(doc) /\ UNCHANGED starts
        /\ (agent'.pc = "loop" \/ (agent'.pc = "derive" /\ Accepts(doc) # NoPayload))
    BY <1>1, <1>5 DEF PollWaits, PollArms, Armable, ArmBinds, Poll, Agents
  <2>2. Accepts(doc) # NoPayload => starts[EventOf[Accepts(doc)]] = 0
    BY <1>4, <1>5 DEF PollWaits, PollArms
  <2> QED BY <1>2, <2>1, <2>2 DEF StartInv, StartedOnce, Mine
<1>6. ASSUME NEW doc \in Looks, PollMisses(doc) PROVE StartInv'
  BY <1>1, <1>3, <1>6 DEF PollMisses, Poll, Agents
<1>7. CASE StopsWaiting \/ StartWaits \/ Reap \/ Restart \/ StartLimit \/ AgentDies \/ StartResumes
  <2>1. CASE StopsWaiting \/ Reap \/ AgentDies
    <3>1. agent'.pc \in {"off", "failed"} /\ agent'.accepted = NoPayload /\ UNCHANGED starts
      <4>1. StopsWaiting => agent'.pc = "off" /\ agent'.accepted = NoPayload
        BY <1>1 DEF StopsWaiting, Agents
      <4>2. Reap => agent'.pc = (IF agent.code = 1 THEN "failed" ELSE "off") /\ agent'.accepted = NoPayload
        BY DEF Reap
      <4>3. AgentDies => agent'.pc = "failed" /\ agent'.accepted = NoPayload
        BY DEF AgentDies
      <4>4. UNCHANGED starts
        BY <2>1 DEF StopsWaiting, Reap, AgentDies
      <4> QED BY <2>1, <4>1, <4>2, <4>3, <4>4
    <3> QED BY <1>3, <3>1
  <2>2. CASE StartWaits \/ Restart \/ StartLimit
    <3>1. agent'.pc \in {"loop", "start", "off"} /\ agent'.accepted = agent.accepted
          /\ agent.pc \in {"off", "failed", "start"} /\ UNCHANGED starts
      BY <1>1, <2>2 DEF StartWaits, Restart, StartLimit, Agents
    <3> QED BY <1>3, <3>1 DEF StartInv
  <2>3. CASE StartResumes
    <3>1. agent'.pc = "child" /\ UNCHANGED starts
      BY <1>1, <2>3 DEF StartResumes, Agents
    <3> QED BY <1>3, <3>1
  <2> QED BY <1>7, <2>1, <2>2, <2>3
<1>8. CASE Derive
  <2>1. CASE agent' = [agent EXCEPT !.pc = "record"]
    <3>1. agent'.accepted = agent.accepted /\ agent'.pc = "record" /\ agent.pc = "derive"
          /\ UNCHANGED starts
      BY <1>1, <1>8, <2>1 DEF Derive, Agents
    <3> QED BY <1>2, <3>1 DEF StartInv, StartedOnce, Mine
  <2>2. CASE agent' = [agent EXCEPT !.pc = "failed", !.accepted = NoPayload]
    BY <1>1, <1>3, <1>8, <2>2 DEF Derive, Agents
  <2> QED BY <1>8, <2>1, <2>2 DEF Derive
<1>9. CASE RecordRan
  <2>1. agent'.accepted = agent.accepted /\ agent'.pc = "spawn" /\ agent.pc = "record"
        /\ UNCHANGED starts /\ tombs' = Record(tombs, Mine, "ran")
    BY <1>1, <1>9 DEF RecordRan, Agents
  <2>2. Mine \in Events
    BY <1>1, <2>1, EventsOf DEF StartInv, Mine, Agents, Named
  <2>3. Kind(tombs', Mine) # "none"
    BY <2>1, <2>2, RecordLemma, TypeParts DEF Kinds
  <2> QED BY <1>2, <2>1, <2>3 DEF StartInv, StartedOnce, Mine
<1>10. CASE Spawn
  <2>1. Mine \in Events /\ starts[Mine] = 0 /\ Kind(tombs, Mine) # "none"
    BY <1>1, <1>10, EventsOf DEF Spawn, StartInv, Mine, Agents, Named
  <2>2. agent'.pc = "child" /\ UNCHANGED tombs
    BY <1>1, <1>10 DEF Spawn, Agents
  <2>3. starts' = [starts EXCEPT ![Mine] = 1]
    BY <1>10, <2>1 DEF Spawn
  <2>4. \A e \in Events : starts'[e] = IF e = Mine THEN 1 ELSE starts[e]
    BY <1>1, <2>1, <2>3
  <2>5. StartedOnce'
    BY <2>4 DEF StartedOnce, StartInv
  <2>6. \A e \in Events : starts'[e] > 0 => Kind(tombs', e) # "none"
    BY <2>1, <2>2, <2>4 DEF StartInv
  <2> QED BY <2>2, <2>5, <2>6 DEF StartInv
<1> QED BY <1>5, <1>6, <1>7, <1>8, <1>9, <1>10 DEF AgentNext

LEMMA StartRun ==
  ASSUME TypeOK, StartInv, Keeps, UNCHANGED starts, UNCHANGED <<agent.pc, agent.accepted>>
  PROVE  StartInv'
<1>1. agent.accepted # NoPayload => Mine \in Events
  BY TypeParts, EventsOf DEF Rest, Agents, Named, Mine
<1>2. agent'.pc = agent.pc /\ agent'.accepted = agent.accepted /\ Mine' = Mine
  BY DEF Mine
<1>3. \A e \in Events : Kind(tombs, e) # "none" => Kind(tombs', e) # "none"
  BY DEF Keeps
<1> QED BY <1>1, <1>2, <1>3 DEF StartInv, StartedOnce

-----------------------------------------------------------------------------
(* The theorems. *)

LEMMA InitInv == Init => IInv
<1> SUFFICES ASSUME Init PROVE IInv
  OBVIOUS
<1>1. NoPayload \notin Payloads /\ Armed \subseteq Payloads /\ MaxCrash \in Nat
  BY AwaitAssumption
<1>2. journal = [state |-> "none", by |-> NoPayload, bound |-> NoPayload, from |-> "none"]
      /\ agent = [pc |-> "off", accepted |-> NoPayload, code |-> 0] /\ driver = NoDriver
      /\ derived = [e \in Events |-> NoPayload] /\ starts = [e \in Events |-> 0] /\ crashes = 0
  BY DEF Init
<1>3. Tombs(tombs)
  BY DEF Init, Tombs, Kind
<1>4. journal \in Journals /\ agent \in Agents /\ driver \in Drivers
  BY <1>2 DEF Journals, Agents, Drivers, NoDriver, Named, States, Pcs
<1>5. derived \in [Events -> Named] /\ starts \in [Events -> 0..2] /\ crashes \in 0..MaxCrash
  BY <1>1, <1>2 DEF Named
<1>6. TypeOK
  BY <1>3, <1>4, <1>5, TypeParts DEF Rest
<1>7. DriveInv
  BY <1>2 DEF DriveInv
<1>8. ArmedInv
  BY <1>2 DEF ArmedInv, Signed, NoDriver
<1>9. StartInv
  BY <1>2 DEF StartInv, StartedOnce
<1> QED BY <1>6, <1>7, <1>8, <1>9 DEF IInv

LEMMA NextInv == IInv /\ [Next]_vars => IInv'
<1> SUFFICES ASSUME IInv, [Next]_vars PROVE IInv'
  OBVIOUS
<1>1. TypeOK' /\ DriveInv' /\ Keeps
  BY TypeNext, DriveNext, TombsNext DEF IInv
<1>2. CASE UNCHANGED vars
  BY <1>2 DEF vars, IInv, TypeOK, DriveInv, ArmedInv, StartInv, StartedOnce, Kind, Mine
<1>3. CASE AgentNext
  BY <1>1, <1>3, ArmedAgent, StartAgent DEF IInv
<1>4. CASE RunNext \/ OthersNext
  BY <1>1, <1>4, ArmedRun, RunKeepsAgent, StartRun DEF IInv
<1> QED BY <1>2, <1>3, <1>4 DEF Next

\* The four facts above hold in every reachable state.
LEMMA Invariance == Spec => []IInv
  BY InitInv, NextInv, PTL DEF Spec

\* Every variable keeps its type and any two decisions are ordered by their
\* time (coord.rs record_tombstone), for any payloads and number of deaths.
THEOREM AwaitTypes == Spec => []TypeOK
<1>1. IInv => TypeOK
  BY DEF IInv
<1> QED BY <1>1, Invariance, PTL

\* However await is killed, restarted or re-armed, it starts an event id at
\* most once (coord.rs run_await: recorded before it is started).
THEOREM StartsOnce == Spec => []StartedOnce
<1>1. IInv => StartedOnce
  BY DEF IInv, StartInv
<1> QED BY <1>1, Invariance, PTL

\* Whatever the relay serves, a ceremony is armed for and bound to what the
\* coordinator's ARM names (coord.rs check_arm, mainnet_binding_problem).
THEOREM ArmedIsSigned == Spec => []OnlyWhatWasArmed
<1>1. IInv => OnlyWhatWasArmed
  BY DEF IInv, ArmedInv, Signed, OnlyWhatWasArmed
<1> QED BY <1>1, Invariance, PTL

\* Past ARMED nobody drives the journal with another event's config, await,
\* its orphan or the operator (coord.rs mainnet_binding_problem).
THEOREM NobodyElseDrives == Spec => []DrivesItsOwn
<1>1. IInv => DrivesItsOwn
  BY DEF IInv, DriveInv, DrivesItsOwn
<1> QED BY <1>1, Invariance, PTL

\* An abort this box saw stays its decision: no run of the event is cleared to
\* create or ignite after it, or goes past that clearance without one (coord.rs
\* record_tombstone, machine.rs require_no_abort). A ceremony that was past it
\* already may return there when it is unhalted (main.rs cmd_unhalt).
THEOREM AbortStays == Spec => AbortIsFinal
<1> DEFINE Final ==
      \A e \in Events : Tombstoned(e) =>
        /\ Tombstoned(e)'
        /\ driver'.clear /\ EventOf[driver'.config] = e => driver.clear
        /\ ~Past(journal) /\ Past(journal)' /\ EventOf[journal.bound] = e => driver.clear
<1>1. ASSUME IInv, [Next]_vars PROVE Final
  <2>1. journal \in Journals /\ driver \in Drivers
    BY <1>1, TypeParts DEF IInv, Rest
  <2>2. \A e \in Events : Tombstoned(e) => Tombstoned(e)'
    BY <1>1, TombsNext DEF IInv, Keeps
  <2>3. ASSUME driver'.clear, ~driver.clear
        PROVE  ~Tombstoned(EventOf[driver'.config])
    <3>1. CASE Clears
      BY <2>1, <3>1 DEF Clears, Drivers
    <3>2. ASSUME ~Clears PROVE FALSE
      <4>1. ~NoDriver.clear
        BY DEF NoDriver
      <4>2. CASE UNCHANGED driver
        BY <2>3, <4>2
      <4>3. CASE driver' = NoDriver
        BY <2>3, <4>1, <4>3
      <4>4. ASSUME NEW p, NEW of, driver' = [config |-> p, of |-> of, clear |-> FALSE] PROVE FALSE
        BY <2>3, <4>4
      <4>5. CASE AgentNext
        <5>1. driver' \in {driver, NoDriver, [driver EXCEPT !.of = "orphan"]}
          BY <4>5 DEF AgentNext, PollWaits, PollMisses, PollArms, Poll, StopsWaiting, Derive, RecordRan,
                      Spawn, StartResumes, StartWaits, Reap, Restart, StartLimit, AgentDies
        <5>2. driver' = [driver EXCEPT !.of = "orphan"] => driver'.clear = driver.clear
          BY <2>1 DEF Drivers
        <5> QED BY <2>3, <4>2, <4>3, <5>1, <5>2
      <4>6. ASSUME NEW p \in Payloads, NEW of \in {"await", "hand"},
                   \/ RunLockedOut(p, of) \/ RunArms(p, of) \/ RunRefuses(p, of)
                   \/ RunFinished(p, of) \/ RunResumes(p, of)
            PROVE  FALSE
        BY <4>2, <4>4, <4>6 DEF RunLockedOut, RunArms, RunRefuses, RunFinished, RunResumes
      <4>7. CASE SeesAbort \/ Fails \/ GoesLive \/ Stops \/ DriverDies
        BY <4>3, <4>7 DEF SeesAbort, Fails, GoesLive, Stops, DriverDies, Ends, Halts
      <4>8. CASE Authenticate \/ Freezes \/ OthersNext \/ UNCHANGED vars
        BY <4>2, <4>8 DEF Authenticate, Freezes, OthersNext, RollsBack, Unhalts, vars
      <4>9. CASE Commits
        <5>1. driver'.clear = FALSE
          BY <2>1, <4>9 DEF Commits, Drivers
        <5> QED BY <2>3, <5>1
      <4> QED BY <1>1, <3>2, <4>5, <4>6, <4>7, <4>8, <4>9 DEF Next, RunNext
    <3> QED BY <3>1, <3>2
  <2>4. ASSUME ~Past(journal), Past(journal') PROVE driver.clear
    <3>1. CASE Commits
      BY <3>1 DEF Commits
    <3>2. ASSUME ~Commits PROVE FALSE
      <4>0. journal.state \notin {"GOING", "LIVE"} /\ (journal.state = "HALTED" => journal.from # "GOING")
        BY <2>4 DEF Past
      <4>1. CASE UNCHANGED journal
        BY <2>4, <4>1 DEF Past
      <4>2. ASSUME NEW s \in {journal.state, "ARMED", "FROZEN", "ABORTED", "STRANDED"},
                   s # "HALTED", journal'.state = s
            PROVE  FALSE
        BY <2>4, <4>0, <4>2 DEF Past
      <4>3. ASSUME NEW s, NEW code, Ends(s, code),
                   s \in {journal.state, "ABORTED", "STRANDED"}, s # "HALTED"
            PROVE  FALSE
        <5>1. journal'.state = s
          BY <2>1, <4>3 DEF Ends, Journals
        <5> QED BY <4>2, <4>3, <5>1
      <4>4. CASE Halts
        <5>1. PICK from \in {"FROZEN", journal.state} :
                 journal' = [journal EXCEPT !.state = "HALTED", !.from = from]
          BY <4>4 DEF Halts
        <5>2. journal'.state = "HALTED" /\ journal'.from = from
          BY <2>1, <5>1 DEF Journals
        <5> QED BY <2>4, <4>0, <5>1, <5>2 DEF Past
      <4>5. CASE AgentNext \/ UNCHANGED vars
        BY <4>1, <4>5 DEF AgentNext, PollWaits, PollMisses, PollArms, Poll, StopsWaiting, Derive,
             RecordRan, Spawn, StartResumes, StartWaits, Reap, Restart, StartLimit, AgentDies, vars
      <4>6. ASSUME NEW p \in Payloads, NEW of \in {"await", "hand"},
                   \/ RunLockedOut(p, of) \/ RunRefuses(p, of)
                   \/ RunFinished(p, of) \/ RunResumes(p, of)
            PROVE  FALSE
        BY <4>1, <4>6 DEF RunLockedOut, RunRefuses, RunFinished, RunResumes
      <4>7. ASSUME NEW p \in Payloads, NEW of \in {"await", "hand"}, RunArms(p, of) PROVE FALSE
        <5>1. journal' = journal \/ journal' = [journal EXCEPT !.state = "ARMED", !.by = p]
          BY <4>7 DEF RunArms
        <5>2. journal' = [journal EXCEPT !.state = "ARMED", !.by = p] => journal'.state = "ARMED"
          BY <2>1 DEF Journals
        <5> QED BY <4>1, <4>2, <5>1, <5>2
      <4>8. CASE SeesAbort \/ Fails
        BY <4>3, <4>4, <4>8 DEF SeesAbort, Fails
      <4>9. CASE GoesLive \/ Stops \/ DriverDies
        BY <4>0, <4>3, <4>9 DEF GoesLive, Stops, DriverDies, Drives
      <4>10. CASE Clears
        BY <4>1, <4>10 DEF Clears
      <4>11. CASE Authenticate \/ Freezes \/ RollsBack
        <5>1. journal.state # "HALTED"
          BY <4>11 DEF Authenticate, Freezes, RollsBack, Drives
        <5>2. journal'.state \in {journal.state, "FROZEN", "ABORTED"}
          BY <2>1, <4>11 DEF Authenticate, Freezes, RollsBack, Journals
        <5> QED BY <4>2, <5>1, <5>2
      <4>12. ASSUME NEW p \in Payloads, Unhalts(p) PROVE FALSE
        <5>1. journal'.state = journal.from /\ journal'.from = "none" /\ journal.state = "HALTED"
          BY <2>1, <4>12 DEF Unhalts, Journals
        <5>2. journal.from \in {"none", "FROZEN"}
          BY <2>1, <4>0, <5>1 DEF Journals
        <5> QED BY <2>4, <5>1, <5>2 DEF Past
      <4> QED BY <1>1, <3>2, <4>5, <4>6, <4>7, <4>8, <4>9, <4>10, <4>11, <4>12
              DEF Next, RunNext, OthersNext
    <3> QED BY <3>1, <3>2
  <2>5. Past(journal)' <=> Past(journal')
    BY DEF Past
  <2> QED BY <2>2, <2>3, <2>4, <2>5
<1>2. IInv /\ [Next]_vars => [Final]_vars
  BY <1>1
<1> QED BY <1>2, Invariance, PTL DEF Spec, AbortIsFinal
=============================================================================
