----------------------------- MODULE DrillProofs -----------------------------
(***************************************************************************)
(* For any drills, ceremonies, operators and configurations: the five      *)
(* properties of Drill, from one inductive invariant.                      *)
(***************************************************************************)
EXTENDS Drill, TLAPS

Three == {"journal", "root", "producer"}
Waits == {Idle, "root", "producer", "locked"}
Cmds == {"none", "cancel", "finish", "clear", "loop"}
Tasks == [cmd : Cmds, id : Drill \cup {Nobody}]

DrillPlaces ==
  Waits \cup {"marked", "waiting", "export", "started", "running", "next", "settled",
              "failed", "stopped", "clear", "dead"}
AgentPlaces == {Idle, "root", "producer", "marker", "activity", "wait", "armed", "cut"}
OperatorPlaces == Waits \cup {"kill", "killed", "settle", "publish", "clear", "reset"}
AllPlaces == DrillPlaces \cup AgentPlaces \cup OperatorPlaces

\* Where processes are, and that those that run have a configuration.
Places ==
  /\ at \in [Proc -> AllPlaces] /\ task \in [Proc -> Tasks]
  /\ \A d \in Drill: at[d] \in DrillPlaces
  /\ \A a \in Agent: at[a] \in AgentPlaces
  /\ \A o \in Operator: at[o] \in OperatorPlaces
  /\ \A p \in Proc: at[p] # Idle => cfg[p] \in Config

\* No two processes hold the same lock.
Apart(p, q) ==
  /\ "journal" \in held[p] /\ "journal" \in held[q] => cfg[p] # cfg[q]
  /\ "root" \in held[p] /\ "root" \in held[q] => Home(p) # Home(q)
  /\ ~("producer" \in held[p] /\ "producer" \in held[q])
Exclusive == \A p, q \in Proc: p # q => Apart(p, q)

\* What a process has taken.
DrillHolds(d) ==
  /\ at[d] \in {Idle, "dead"} => held[d] = {}
  /\ at[d] \notin {Idle, "dead"} => "journal" \in held[d]
  /\ at[d] = "producer" => "root" \in held[d]
  /\ at[d] \notin {Idle, "dead", "root", "producer"} => held[d] = Three
AgentHolds(a) == IF at[a] = Idle THEN held[a] = {} ELSE "journal" \in held[a]
OperatorHolds(o) ==
  /\ at[o] = Idle => held[o] = {}
  /\ at[o] \in {"root", "producer", "locked", "reset"} => "journal" \in held[o]
  /\ at[o] \in {"producer", "locked"} => "root" \in held[o]
  /\ at[o] = "locked" /\ task[o].cmd # "loop" => held[o] = Three
  /\ at[o] \in {"settle", "publish", "clear"} => held[o] = Three
  /\ at[o] \in {"kill", "killed"} => held[o] \in {{}, Three}
Holding ==
  /\ \A d \in Drill: DrillHolds(d)
  /\ \A a \in Agent: AgentHolds(a)
  /\ \A o \in Operator: OperatorHolds(o)

LockInv == Places /\ Exclusive /\ Holding

\* A drill that has passed its locks has seen no ceremony of its journal.
Working(d) == at[d] \notin Waits \cup {"dead"}
SealInv == \A d \in Drill: Working(d) => journal[cfg[d]] \in {"none", "ABORTED"}

\* A drill that works is the one the producer's marker names.
NamedInv == \A d \in Drill: Working(d) => marker = d

\* What a directory's record says: a drill that was published there, running while
\* its drill is, with the container named before the export.
Unpublished == Waits \cup {"marked"}
Ended == Unpublished \cup {"clear", "dead"}
RecordInv ==
  /\ \A h \in Dir: latest[h].id \in Drill => at[latest[h].id] \notin Unpublished /\ Home(latest[h].id) = h
  /\ \A d \in Drill: at[d] \notin Ended => latest[Home(d)].id = d /\ latest[Home(d)].running
  /\ \A d \in Drill: at[d] = "export" => latest[Home(d)].box = "left"

\* Where the tools of a drill can be; one that is not recorded runs only until it is.
ToolAt(d) ==
  /\ d \in rec => tool[d] # "none" /\ at[d] # "started"
  /\ at[d] \in Unpublished \cup {"waiting", "export"} => tool[d] = "none" /\ d \notin box
  /\ at[d] \in {"next", "settled"} => tool[d] = "none"
  /\ at[d] \in {"failed", "stopped", "clear"} => tool[d] \in {"none", "dying"}
  /\ d \notin lost /\ tool[d] # "none" => d \in rec \/ at[d] = "started"
ToolInv == \A d \in Drill: ToolAt(d)

\* What outlives a drill is named by its directory's record and by the marker.
LeftAt(d) ==
  /\ Outlives(d) => latest[Home(d)].id = d /\ marker = d
  /\ d \in box \/ tool[d] = "export" => latest[Home(d)].box = "left"
LeftInv == \A d \in Drill \ lost: LeftAt(d)

\* The operator who finishes a drill's record finishes one that starts nothing more.
Quiet(d) == d \in Drill \ lost => at[d] \in {"clear", "dead"} /\ tool[d] # "export"
FinishAt(o) == at[o] # Idle =>
  /\ task[o].cmd \in {"cancel", "finish"} /\ task[o].id \in Drill => at[task[o].id] \notin Unpublished
  /\ at[o] \in {"kill", "killed"} => task[o].cmd = "cancel"
  /\ at[o] \in {"kill", "killed"} /\ held[o] # {} => Bound(o)
  /\ task[o].cmd = "finish" /\ Bound(o) => Quiet(task[o].id)
  /\ at[o] = "settle" => Quiet(latest[Home(o)].id)
FinishInv == \A o \in Operator: FinishAt(o)

\* What a ceremony that began before its freeze, or a reset, has found with the
\* producer's lock: first no work under another directory, then none at all.
NoneUnder(h) == \A d \in Drill \ lost: Outlives(d) => Home(d) = h
NoneLeft == \A d \in Drill \ lost: ~Outlives(d)
CutAt(p) ==
  "producer" \in held[p] =>
    /\ p \in early /\ at[p] = "activity" => NoneUnder(Home(p))
    /\ at[p] = "reset" \/ (p \in early /\ at[p] \in {"armed", "cut"}) => NoneLeft
CutInv ==
  /\ \A a \in early: at[a] # "wait"
  /\ \A p \in Agent \cup Operator: CutAt(p)

IInv == TypeOK /\ LockInv /\ SealInv /\ NamedInv /\ RecordInv /\ ToolInv /\ LeftInv /\ FinishInv /\ CutInv

-----------------------------------------------------------------------------
(* Steps, process by process. *)

LEMMA Kinds ==
  /\ Drill \subseteq Proc /\ Agent \subseteq Proc /\ Operator \subseteq Proc
  /\ Drill \cap Agent = {} /\ Drill \cap Operator = {} /\ Agent \cap Operator = {}
  /\ Nobody \notin Drill /\ Nobody \notin Config /\ Nobody \notin Proc
  /\ DirOf \in [Config -> Dir] /\ \A p \in Proc: Uses[p] \subseteq Config
BY DrillAssumption DEF Proc

Types == TypeOK /\ Places

Solo(p) == \A q \in Proc: q # p =>
  at'[q] = at[q] /\ held'[q] = held[q] /\ cfg'[q] = cfg[q] /\ task'[q] = task[q]

LEMMA GoesLemma ==
  ASSUME Types, NEW p \in Proc, NEW w, Goes(p, w)
  PROVE  /\ Solo(p) /\ at'[p] = w /\ early' = early
         /\ held' = held /\ cfg' = cfg /\ task' = task
BY DEF Goes, whose, Solo, Types, Places

LEMMA LeavesLemma ==
  ASSUME Types, NEW p \in Proc, NEW w, Leaves(p, w)
  PROVE  /\ Solo(p) /\ at'[p] = w /\ early' = early \ {p}
         /\ held'[p] = {} /\ task'[p] = NoTask
         /\ cfg'[p] = IF w = Idle THEN Nobody ELSE cfg[p]
<1>1. \A q \in Proc: q # p => at'[q] = at[q] /\ held'[q] = held[q] /\ task'[q] = task[q]
  BY DEF Leaves, Types, Places, TypeOK
<1>2. \A q \in Proc: cfg'[q] = IF q = p /\ w = Idle THEN Nobody ELSE cfg[q]
  BY DEF Leaves, Types, TypeOK
<1>3. at'[p] = w /\ held'[p] = {} /\ task'[p] = NoTask /\ early' = early \ {p}
  BY DEF Leaves, Types, Places, TypeOK
<1> QED BY <1>1, <1>2, <1>3 DEF Solo

LEMMA BeginsLemma ==
  ASSUME Types, NEW p \in Proc, NEW c \in Config, NEW t, Begins(p, c, t)
  PROVE  /\ Solo(p) /\ at'[p] = "root"
         /\ held'[p] = {"journal"} /\ task'[p] = t /\ cfg'[p] = c
         /\ \A q \in Proc: "journal" \in held[q] => cfg[q] # c
<1>1. \A q \in Proc: "journal" \in held[q] => cfg[q] # c
  BY DEF Begins, Taken
<1> QED BY <1>1 DEF Begins, Solo, Types, Places, TypeOK

LEMMA LocksLemma ==
  ASSUME Types, NEW p \in Proc, NEW l \in {"root", "producer"}, NEW w, Locks(p, l, w)
  PROVE  /\ Solo(p) /\ at'[p] = w /\ early' = early
         /\ held'[p] = held[p] \cup {l} /\ task' = task /\ cfg' = cfg
         /\ \A q \in Proc: l \in held[q] => l = "root" /\ Home(q) # Home(p)
<1>1. \A q \in Proc: l \in held[q] => l = "root" /\ Home(q) # Home(p)
  BY DEF Locks, Taken, Home
<1> QED BY <1>1 DEF Locks, Solo, Types, Places, TypeOK

\* Exclusion: taken locks only shrink, or were free.
LEMMA ApartShrinks ==
  ASSUME Types, Exclusive, NEW p \in Proc, Solo(p),
         held'[p] \subseteq held[p], held'[p] = {} \/ cfg'[p] = cfg[p]
  PROVE  Exclusive'
BY DEF Exclusive, Apart, Solo, Home

LEMMA ApartBegins ==
  ASSUME Types, Exclusive, NEW p \in Proc, NEW c \in Config, NEW t, Begins(p, c, t)
  PROVE  Exclusive'
BY BeginsLemma DEF Exclusive, Apart, Solo, Home

LEMMA ApartLocks ==
  ASSUME Types, Exclusive, NEW p \in Proc, NEW l \in {"root", "producer"}, NEW w, Locks(p, l, w)
  PROVE  Exclusive'
BY LocksLemma DEF Exclusive, Apart, Solo, Home

-----------------------------------------------------------------------------
(* Types. *)

Who ==
  /\ Places /\ cfg \in [Proc -> Config \cup {Nobody}] /\ held \in [Proc -> SUBSET Three]
  /\ early \subseteq Agent
Data ==
  /\ journal \in [Config -> {"none", "ARMED", "FROZEN", "ABORTED"}]
  /\ latest \in [Dir -> [id : Drill \cup {Nobody}, running : BOOLEAN, box : {"none", "left", "gone"}]]
  /\ marker \in Drill \cup {Nobody}
  /\ tool \in [Drill -> {"none", "export", "later", "dying"}]
  /\ rec \subseteq Drill /\ box \subseteq Drill /\ lost \subseteq Drill

LEMMA TypeParts == Types <=> Who /\ Data
BY DEF Types, TypeOK, Who, Data, Three

\* A place of p's own kind.
Fits(p, w) ==
  /\ w \in AllPlaces
  /\ p \in Drill => w \in DrillPlaces
  /\ p \in Agent => w \in AgentPlaces
  /\ p \in Operator => w \in OperatorPlaces

LEMMA GoesTypes ==
  ASSUME Who, NEW p \in Proc, NEW w, Fits(p, w), Goes(p, w), at[p] # Idle
  PROVE  Who'
BY Kinds DEF Who, Places, Fits, Goes, whose

LEMMA LeavesTypes ==
  ASSUME Who, NEW p \in Proc, NEW w \in {Idle, "dead"}, Fits(p, w), Leaves(p, w), at[p] # Idle
  PROVE  Who'
<1>1. at' \in [Proc -> AllPlaces] /\ early' \subseteq Agent
  BY DEF Who, Places, Leaves, Fits
<1>2. held' \in [Proc -> SUBSET Three] /\ task' \in [Proc -> Tasks]
  BY DEF Who, Places, Leaves, NoTask, Tasks, Cmds
<1>3. cfg' \in [Proc -> Config \cup {Nobody}]
  BY DEF Who, Places, Leaves
<1>4. /\ \A d \in Drill: at'[d] \in DrillPlaces
      /\ \A a \in Agent: at'[a] \in AgentPlaces
      /\ \A o \in Operator: at'[o] \in OperatorPlaces
  BY Kinds DEF Who, Places, Leaves, Fits
<1>5. \A q \in Proc: at'[q] # Idle => cfg'[q] \in Config
  BY DEF Who, Places, Leaves
<1> QED BY <1>1, <1>2, <1>3, <1>4, <1>5 DEF Who, Places

LEMMA BeginsTypes ==
  ASSUME Who, NEW p \in Proc, NEW c \in Config, NEW t \in Tasks, Begins(p, c, t), early' \subseteq Agent
  PROVE  Who'
<1>1. "root" \in AllPlaces /\ "root" \in DrillPlaces /\ "root" \in AgentPlaces /\ "root" \in OperatorPlaces
  BY DEF AllPlaces, DrillPlaces, AgentPlaces, OperatorPlaces, Waits
<1> QED BY <1>1, Kinds DEF Who, Places, Begins, Three

LEMMA LocksTypes ==
  ASSUME Who, NEW p \in Proc, NEW l \in {"root", "producer"}, NEW w, Fits(p, w), Locks(p, l, w),
         at[p] # Idle
  PROVE  Who'
BY Kinds DEF Who, Places, Fits, Locks, Three

LEMMA Fitting ==
  /\ \A d \in Drill, w \in DrillPlaces: Fits(d, w)
  /\ \A a \in Agent, w \in AgentPlaces: Fits(a, w)
  /\ \A o \in Operator, w \in OperatorPlaces: Fits(o, w)
BY Kinds DEF Fits, AllPlaces

LEMMA HomeType ==
  ASSUME Who, NEW p \in Proc, at[p] # Idle PROVE cfg[p] \in Config /\ Home(p) \in Dir
BY Kinds DEF Who, Places, Home

\* Killing, settling and clearing keep the data's types.
LEMMA WorkTypes ==
  ASSUME Data
  PROVE  /\ \A d: Kill(d) => tool' \in [Drill -> {"none", "export", "later", "dying"}] /\ rec' \subseteq Drill
         /\ \A h \in Dir: Settled(h) \/ NotSettled(h) =>
              /\ box' \subseteq Drill
              /\ latest' \in [Dir -> [id : Drill \cup {Nobody}, running : BOOLEAN, box : {"none", "left", "gone"}]]
         /\ \A d, h: ClearMarker(d, h) => marker' \in Drill \cup {Nobody}
         /\ \A h \in Dir: Over(h) =>
              latest' \in [Dir -> [id : Drill \cup {Nobody}, running : BOOLEAN, box : {"none", "left", "gone"}]]
<1>1. \A d: Kill(d) => tool' \in [Drill -> {"none", "export", "later", "dying"}] /\ rec' \subseteq Drill
  BY DEF Data, Kill, Stopped
<1>2. \A h \in Dir: Settled(h) \/ NotSettled(h) => box' \subseteq Drill
  BY DEF Data, Settled, NotSettled
<1>3. ASSUME NEW h \in Dir, Settled(h) \/ NotSettled(h) \/ Over(h)
      PROVE  latest' \in [Dir -> [id : Drill \cup {Nobody}, running : BOOLEAN, box : {"none", "left", "gone"}]]
  <2>1. CASE Settled(h) BY <2>1 DEF Data, Settled
  <2>2. CASE NotSettled(h) BY <2>2 DEF Data, NotSettled
  <2>3. CASE Over(h) BY <2>3 DEF Data, Over
  <2> QED BY <1>3, <2>1, <2>2, <2>3
<1>4. \A d, h: ClearMarker(d, h) => marker' \in Drill \cup {Nobody}
  BY DEF Data, ClearMarker
<1> QED BY <1>1, <1>2, <1>3, <1>4

LEMMA LockTypes ==
  ASSUME Who, Data, NEW p \in Proc, Fits(p, "producer"), Fits(p, "locked"), Fits(p, Idle), LockStep(p)
  PROVE  Who' /\ Data'
<1>1. Data' BY DEF LockStep, Data, work
<1>2. at[p] # Idle BY DEF LockStep, Idle
<1>3. Who' BY <1>2, LocksTypes, LeavesTypes DEF LockStep
<1> QED BY <1>1, <1>3

LEMMA DrillTypes ==
  ASSUME Who, Data, NEW d \in Drill, DStep(d)
  PROVE  Who' /\ Data'
<1> USE Kinds
<1> d \in Proc OBVIOUS
<1>a. \A w \in DrillPlaces: Fits(d, w) /\ (Goes(d, w) /\ at[d] # Idle => Who')
  BY GoesTypes, Fitting
<1>b. \A w \in {Idle, "dead"}: Leaves(d, w) /\ at[d] # Idle => Who'
  BY LeavesTypes, Fitting DEF DrillPlaces, Waits
<1>c. at[d] # Idle => Home(d) \in Dir
  BY HomeType
<1>1. ASSUME DBegin(d) PROVE Who' /\ Data'
  <2>1. NoTask \in Tasks BY DEF NoTask, Tasks, Cmds
  <2>2. early' \subseteq Agent BY <1>1 DEF DBegin, Who
  <2>3. PICK c \in Uses[d]: Begins(d, c, NoTask) BY <1>1 DEF DBegin
  <2>4. c \in Config OBVIOUS
  <2>5. Who' BY <2>1, <2>2, <2>3, <2>4, BeginsTypes
  <2> QED BY <1>1, <2>5 DEF DBegin, Data, work
<1>2. ASSUME LockStep(d) PROVE Who' /\ Data'
  BY <1>2, <1>a, LockTypes DEF DrillPlaces, Waits
<1>3. ASSUME DMark(d) PROVE Who' /\ Data'
  <2>1. Data' BY <1>3 DEF DMark, Data, WriteMarker, work
  <2> QED BY <1>3, <2>1, <1>a, <1>b DEF DMark, Idle, DrillPlaces
<1>4. ASSUME DPublish(d) PROVE Who' /\ Data'
  <2>1. Who' BY <1>4, <1>a DEF DPublish, Idle, DrillPlaces
  <2>2. latest' \in [Dir -> [id : Drill \cup {Nobody}, running : BOOLEAN, box : {"none", "left", "gone"}]]
    <3>1. [id |-> d, running |-> TRUE, box |-> "none"]
            \in [id : Drill \cup {Nobody}, running : BOOLEAN, box : {"none", "left", "gone"}]
      OBVIOUS
    <3>2. latest' = latest \/ latest' = [latest EXCEPT ![Home(d)] = [id |-> d, running |-> TRUE, box |-> "none"]]
      BY <1>4 DEF DPublish
    <3>3. latest \in [Dir -> [id : Drill \cup {Nobody}, running : BOOLEAN, box : {"none", "left", "gone"}]]
      BY DEF Data
    <3>4. ASSUME NEW r \in [id : Drill \cup {Nobody}, running : BOOLEAN, box : {"none", "left", "gone"}],
                 latest' = [latest EXCEPT ![Home(d)] = r]
          PROVE  latest' \in [Dir -> [id : Drill \cup {Nobody}, running : BOOLEAN, box : {"none", "left", "gone"}]]
      BY <3>3, <3>4
    <3> QED BY <3>1, <3>2, <3>3, <3>4
  <2> QED BY <1>4, <2>1, <2>2 DEF DPublish, Data, work
<1>5. ASSUME DName(d) PROVE Who' /\ Data'
  <2>1. Who' BY <1>5, <1>a DEF DName, Idle, DrillPlaces
  <2> QED BY <1>5, <2>1 DEF DName, Data, work
<1>6. ASSUME DSpawn(d) PROVE Who' /\ Data'
  <2>1. Who' BY <1>6, <1>a DEF DSpawn, Idle, DrillPlaces
  <2> QED BY <1>6, <2>1 DEF DSpawn, Data
<1>7. ASSUME DRecord(d) PROVE Who' /\ Data'
  <2>1. Who' BY <1>7, <1>a DEF DRecord, Idle, DrillPlaces
  <2> QED BY <1>7, <2>1 DEF DRecord, Data
<1>8. ASSUME DToolEnds(d) PROVE Who' /\ Data'
  <2>1. Who' BY <1>8, <1>a DEF DToolEnds, Idle, DrillPlaces
  <2> QED BY <1>8, <2>1 DEF DToolEnds, Data, Stopped
<1>9. ASSUME DSettle(d) PROVE Who' /\ Data'
  <2>0. at[d] # Idle BY <1>9 DEF DSettle, Idle
  <2>1. Who' BY <1>9, <1>a, <2>0 DEF DSettle, DrillPlaces
  <2> QED BY <1>9, <2>0, <2>1, <1>c, WorkTypes DEF DSettle, Data
<1>10. ASSUME DFail(d) PROVE Who' /\ Data'
  <2>1. Who' BY <1>10, <1>a DEF DFail, Idle, DrillPlaces
  <2> QED BY <1>10, <2>1 DEF DFail, Data, work
<1>11. ASSUME DDone(d) PROVE Who' /\ Data'
  <2>1. Who' BY <1>11, <1>a DEF DDone, Idle, DrillPlaces
  <2> QED BY <1>11, <2>1, <1>c, WorkTypes DEF DDone, Data, work, Idle
<1>12. ASSUME DFailed(d) PROVE Who' /\ Data'
  <2>1. Who' BY <1>12, <1>a DEF DFailed, Idle, DrillPlaces
  <2> QED BY <1>12, <2>1, <1>c, WorkTypes DEF DFailed, Data, work, Idle
<1>13. ASSUME DClear(d) PROVE Who' /\ Data'
  <2>1. Who' BY <1>13, <1>b DEF DClear, Idle
  <2> QED BY <1>13, <2>1, WorkTypes DEF DClear, Data, work
<1>14. ASSUME DDie(d) PROVE Who' /\ Data'
  <2>1. Who' BY <1>14, <1>b DEF DDie, Alive
  <2> QED BY <1>14, <2>1 DEF DDie, Data, work
<1>15. ASSUME DWork(d) PROVE Who' /\ Data'
  BY <1>15 DEF DWork, Data, Who, Places, whose
<1> QED BY <1>1, <1>2, <1>3, <1>4, <1>5, <1>6, <1>7, <1>8, <1>9, <1>10, <1>11, <1>12, <1>13, <1>14, <1>15 DEF DStep

LEMMA AgentTypes ==
  ASSUME Who, Data, NEW a \in Agent, AStep(a)
  PROVE  Who' /\ Data'
<1> USE Kinds
<1> a \in Proc OBVIOUS
<1>a. \A w \in AgentPlaces: Fits(a, w) /\ (Goes(a, w) /\ at[a] # Idle => Who')
  BY GoesTypes, Fitting
<1>b. Leaves(a, Idle) /\ at[a] # Idle => Who'
  BY LeavesTypes, Fitting DEF AgentPlaces
<1>c. at[a] # Idle => cfg[a] \in Config
  BY HomeType
<1>1. ASSUME ABegin(a) PROVE Who' /\ Data'
  <2>1. NoTask \in Tasks BY DEF NoTask, Tasks, Cmds
  <2>2. early' \subseteq Agent BY <1>1 DEF ABegin, Who
  <2>3. Who' BY <1>1, <2>1, <2>2, BeginsTypes, DrillAssumption DEF ABegin
  <2> QED BY <1>1, <2>3 DEF ABegin, Data, work
<1>2. ASSUME ALock(a) PROVE Who' /\ Data'
  <2>1. PICK l \in {"root", "producer"}:
          LET then == IF l = "root" THEN "producer" ELSE "marker"
          IN  /\ at[a] = l
              /\ \/ Locks(a, l, then) /\ UNCHANGED journal
                 \/ Taken(l, cfg[a]) /\ (Refuses(a) \/ (a \notin early /\ GoesOn(a, then)))
                 \/ l = "producer" /\ GoesOn(a, then)
    BY <1>2 DEF ALock
  <2>2. at[a] # Idle BY <2>1 DEF Idle
  <2>3. Who' BY <2>1, <2>2, <1>a, <1>b, LocksTypes DEF Refuses, GoesOn, AgentPlaces
  <2>4. journal' \in [Config -> {"none", "ARMED", "FROZEN", "ABORTED"}]
    BY <2>1, <2>2, <1>c DEF Data, Refuses, GoesOn
  <2> QED BY <1>2, <2>3, <2>4 DEF ALock, Data, work
<1>3. ASSUME AMarker(a) PROVE Who' /\ Data'
  <2>1. at[a] # Idle BY <1>3 DEF Idle, AMarker
  <2>2. Who' BY <1>3, <2>1, <1>a, <1>b DEF AMarker, Refuses, GoesOn, AgentPlaces
  <2>3. journal' \in [Config -> {"none", "ARMED", "FROZEN", "ABORTED"}]
    BY <1>3, <2>1, <1>c DEF AMarker, Data, Refuses, GoesOn
  <2>4. /\ tool' \in [Drill -> {"none", "export", "later", "dying"}]
        /\ rec' \subseteq Drill /\ box' \subseteq Drill
    BY <1>3, WorkTypes DEF AMarker, Data, work
  <2> QED BY <1>3, <2>2, <2>3, <2>4 DEF AMarker, Data
<1>4. ASSUME AActivity(a) PROVE Who' /\ Data'
  <2>1. at[a] # Idle BY <1>4 DEF Idle, AActivity
  <2>2. Who' BY <1>4, <2>1, <1>a, <1>b DEF AActivity, Refuses, GoesOn, AgentPlaces
  <2>3. journal' \in [Config -> {"none", "ARMED", "FROZEN", "ABORTED"}]
    BY <1>4, <2>1, <1>c DEF AActivity, Data, Refuses, GoesOn
  <2>4. /\ tool' \in [Drill -> {"none", "export", "later", "dying"}]
        /\ rec' \subseteq Drill /\ box' \subseteq Drill
    BY <1>4, WorkTypes DEF AActivity, Data, work
  <2> QED BY <1>4, <2>2, <2>3, <2>4 DEF AActivity, Data
<1>5. ASSUME AWait(a) PROVE Who' /\ Data'
  <2>1. at[a] # Idle BY <1>5 DEF Idle, AWait
  <2>2. "armed" \in AgentPlaces /\ "armed" \in AllPlaces /\ "armed" # Idle
    BY DEF AgentPlaces, AllPlaces, Idle
  <2>3. at' \in [Proc -> AllPlaces] /\ held' \in [Proc -> SUBSET Three] /\ task' = task /\ cfg' = cfg
        /\ early' = early
    BY <1>5, <2>2 DEF AWait, Who, Places, Three
  <2>4. \A q \in Proc: at'[q] = IF q = a THEN "armed" ELSE at[q]
    BY <1>5 DEF AWait, Who, Places
  <2>5. Who' BY <2>1, <2>2, <2>3, <2>4 DEF Who, Places
  <2> QED BY <1>5, <2>5 DEF AWait, Data, work
<1>6. ASSUME AFreeze(a) PROVE Who' /\ Data'
  <2>1. Who' BY <1>6, <1>a DEF AFreeze, AgentPlaces, Idle
  <2> QED BY <1>6, <2>1 DEF AFreeze, Data, work
<1>7. ASSUME AEnd(a) PROVE Who' /\ Data'
  <2>1. Who' BY <1>7, <1>b DEF AEnd
  <2> QED BY <1>7, <2>1 DEF AEnd, Data, work
<1> QED BY <1>1, <1>2, <1>3, <1>4, <1>5, <1>6, <1>7 DEF AStep

LEMMA OperatorTypes ==
  ASSUME Who, Data, NEW o \in Operator, OStep(o)
  PROVE  Who' /\ Data'
<1> USE Kinds
<1> o \in Proc OBVIOUS
<1>a. \A w \in OperatorPlaces: Fits(o, w) /\ (Goes(o, w) /\ at[o] # Idle => Who')
  BY GoesTypes, Fitting
<1>b. Leaves(o, Idle) /\ at[o] # Idle => Who'
  BY LeavesTypes, Fitting DEF OperatorPlaces, Waits
<1>c. at[o] # Idle => Home(o) \in Dir
  BY HomeType
<1>1. ASSUME OCancel(o) PROVE Who' /\ Data'
  <2>1. PICK c \in Uses[o]:
       LET l == latest[DirOf[c]]  t == [cmd |-> "cancel", id |-> l.id]
       IN  IF l.running /\ Alive(l.id)
           THEN /\ at' = [at EXCEPT ![o] = "kill"] /\ cfg' = [cfg EXCEPT ![o] = c]
                /\ task' = [task EXCEPT ![o] = t] /\ UNCHANGED held
           ELSE Begins(o, c, t)
    BY <1>1 DEF OCancel
  <2> DEFINE t == [cmd |-> "cancel", id |-> latest[DirOf[c]].id]
  <2>2. c \in Config /\ DirOf[c] \in Dir BY DrillAssumption
  <2>3. t \in Tasks BY <2>2 DEF Data, Tasks, Cmds
  <2>4. early' \subseteq Agent BY <1>1 DEF OCancel, Who
  <2>5. CASE Begins(o, c, t)
    <3>1. Who' BY <2>2, <2>3, <2>4, <2>5, BeginsTypes
    <3> QED BY <1>1, <3>1 DEF OCancel, Data, work
  <2>6. ASSUME at' = [at EXCEPT ![o] = "kill"], cfg' = [cfg EXCEPT ![o] = c],
               task' = [task EXCEPT ![o] = t], held' = held
        PROVE  Who'
    <3>1. "kill" \in AllPlaces /\ "kill" \in OperatorPlaces BY DEF AllPlaces, OperatorPlaces
    <3>2. at' \in [Proc -> AllPlaces] /\ task' \in [Proc -> Tasks]
          /\ cfg' \in [Proc -> Config \cup {Nobody}] /\ held' \in [Proc -> SUBSET Three]
      BY <2>2, <2>3, <2>6, <3>1 DEF Who, Places
    <3>3. \A q \in Proc: /\ at'[q] = IF q = o THEN "kill" ELSE at[q]
                         /\ cfg'[q] = IF q = o THEN c ELSE cfg[q]
      BY <2>6 DEF Who, Places
    <3> QED BY <2>2, <2>4, <3>1, <3>2, <3>3 DEF Who, Places
  <2>7. Data' BY <1>1 DEF OCancel, Data, work
  <2> QED BY <2>1, <2>5, <2>6, <2>7
<1>2. ASSUME OBegin(o) PROVE Who' /\ Data'
  <2>1. \A t \in {[cmd |-> "clear", id |-> marker], [cmd |-> "loop", id |-> Nobody]}: t \in Tasks
    BY DEF Tasks, Cmds, Data
  <2>2. early' \subseteq Agent BY <1>2 DEF OBegin, Who
  <2>3. Who' BY <1>2, <2>1, <2>2, BeginsTypes, DrillAssumption DEF OBegin
  <2> QED BY <1>2, <2>3 DEF OBegin, Data, work
<1>3. ASSUME LockStep(o) PROVE Who' /\ Data'
  BY <1>3, <1>a, LockTypes DEF OperatorPlaces, Waits
<1>4. ASSUME OUnlocked(o) PROVE Who' /\ Data'
  <2>1. Who' BY <1>4, <1>a DEF OUnlocked, OperatorPlaces, Waits, Idle
  <2> QED BY <1>4, <2>1 DEF OUnlocked, Data, work
<1>5. ASSUME OLocked(o) PROVE Who' /\ Data'
  <2>1. Who' BY <1>5, <1>a, <1>b DEF OLocked, OClear, OLoop, OperatorPlaces, Idle
  <2> QED BY <1>5, <2>1 DEF OLocked, OClear, OLoop, Data, work
<1>6. ASSUME OKill(o) PROVE Who' /\ Data'
  <2>1. Who' BY <1>6, <1>a, <1>b DEF OKill, OperatorPlaces, Idle
  <2> QED BY <1>6, <2>1, WorkTypes DEF OKill, Data, work
<1>7. ASSUME OKilled(o) PROVE Who' /\ Data'
  <2>1. Data' BY <1>7 DEF OKilled, Data, work
  <2>2. at[o] # Idle /\ [task[o] EXCEPT !.cmd = "finish"] \in Tasks /\ early \subseteq Agent
    BY <1>7 DEF OKilled, Who, Places, Tasks, Cmds, Idle
  <2>3. cfg[o] \in Config BY <2>2, HomeType
  <2>4. Begins(o, cfg[o], [task[o] EXCEPT !.cmd = "finish"]) /\ UNCHANGED early => Who'
    BY <2>2, <2>3, BeginsTypes
  <2>5. Who' BY <1>7, <2>2, <2>4, <1>a, <1>b DEF OKilled, OperatorPlaces
  <2> QED BY <2>1, <2>5
<1>8. ASSUME OSettle(o) PROVE Who' /\ Data'
  <2>0. at[o] # Idle BY <1>8 DEF OSettle, Idle
  <2>1. Who' BY <1>8, <2>0, <1>a, <1>b DEF OSettle, OperatorPlaces
  <2> QED BY <1>8, <2>0, <2>1, <1>c, WorkTypes DEF OSettle, Data
<1>9. ASSUME OPublish(o) PROVE Who' /\ Data'
  <2>0. at[o] # Idle BY <1>9 DEF OPublish, Idle
  <2>1. Who' BY <1>9, <2>0, <1>a, <1>b DEF OPublish, OperatorPlaces
  <2> QED BY <1>9, <2>0, <2>1, <1>c, WorkTypes DEF OPublish, Data, work
<1>10. ASSUME OEnd(o) PROVE Who' /\ Data'
  BY <1>10, <1>b DEF OEnd, Data, work
<1> QED BY <1>1, <1>2, <1>3, <1>4, <1>5, <1>6, <1>7, <1>8, <1>9, <1>10 DEF OStep

-----------------------------------------------------------------------------
(* Locks. *)

LEMMA HoldingSolo ==
  ASSUME Types, Holding, NEW p \in Proc, Solo(p),
         p \in Drill => DrillHolds(p)', p \in Agent => AgentHolds(p)', p \in Operator => OperatorHolds(p)'
  PROVE  Holding'
BY Kinds DEF Holding, DrillHolds, AgentHolds, OperatorHolds, Solo

LEMMA GoesApart ==
  ASSUME Types, Exclusive, NEW p \in Proc, NEW w, Goes(p, w) PROVE Exclusive'
BY GoesLemma, ApartShrinks

LEMMA LeavesApart ==
  ASSUME Types, Exclusive, NEW p \in Proc, NEW w, Leaves(p, w) PROVE Exclusive'
BY LeavesLemma, ApartShrinks

LEMMA DrillLocks ==
  ASSUME Types, Exclusive, Holding, NEW d \in Drill, DStep(d)
  PROVE  Exclusive' /\ Holding'
<1> USE Kinds
<1> d \in Proc OBVIOUS
<1>h. DrillHolds(d) BY DEF Holding
<1>0. Solo(d) /\ DrillHolds(d)' => Holding' BY HoldingSolo
<1>a. ASSUME NEW w, Goes(d, w), at[d] \notin {Idle, "dead", "root", "producer"},
             w \notin {Idle, "dead", "root", "producer"}
      PROVE  Exclusive' /\ Holding'
  <2>1. Solo(d) /\ at'[d] = w /\ held' = held BY <1>a, GoesLemma
  <2>2. DrillHolds(d)' BY <2>1, <1>a, <1>h DEF DrillHolds
  <2> QED BY <1>a, <2>1, <2>2, <1>0, GoesApart
<1>b. ASSUME NEW w \in {Idle, "dead"}, Leaves(d, w)
      PROVE  Exclusive' /\ Holding'
  <2>1. Solo(d) /\ at'[d] = w /\ held'[d] = {} BY <1>b, LeavesLemma
  <2>2. DrillHolds(d)' BY <2>1 DEF DrillHolds, Idle
  <2> QED BY <1>b, <2>1, <2>2, <1>0, LeavesApart
<1>1. ASSUME DBegin(d) PROVE Exclusive' /\ Holding'
  <2>1. PICK c \in Uses[d]: Begins(d, c, NoTask) BY <1>1 DEF DBegin
  <2>2. c \in Config OBVIOUS
  <2>3. Solo(d) /\ at'[d] = "root" /\ held'[d] = {"journal"} BY <2>1, <2>2, BeginsLemma
  <2>4. DrillHolds(d)' BY <2>3 DEF DrillHolds, Idle
  <2> QED BY <2>1, <2>2, <2>3, <2>4, <1>0, ApartBegins
<1>2. ASSUME LockStep(d) PROVE Exclusive' /\ Holding'
  <2>1. CASE at[d] = "root" /\ Locks(d, "root", "producer")
    <3>1. Solo(d) /\ at'[d] = "producer" /\ held'[d] = held[d] \cup {"root"} BY <2>1, LocksLemma
    <3>2. DrillHolds(d)' BY <3>1, <2>1, <1>h DEF DrillHolds, Idle
    <3> QED BY <2>1, <3>1, <3>2, <1>0, ApartLocks
  <2>2. CASE at[d] = "producer" /\ Locks(d, "producer", "locked")
    <3>1. Solo(d) /\ at'[d] = "locked" /\ held'[d] = held[d] \cup {"producer"} BY <2>2, LocksLemma
    <3>2. held[d] \subseteq Three BY DEF Types, TypeOK, Three
    <3>3. DrillHolds(d)' BY <3>1, <3>2, <2>2, <1>h DEF DrillHolds, Idle, Three
    <3> QED BY <2>2, <3>1, <3>3, <1>0, ApartLocks
  <2>3. CASE Leaves(d, Idle) BY <2>3, <1>b
  <2> QED BY <1>2, <2>1, <2>2, <2>3 DEF LockStep
<1>3. ASSUME DMark(d) PROVE Exclusive' /\ Holding'
  BY <1>3, <1>a, <1>b DEF DMark, Idle
<1>4. ASSUME DPublish(d) \/ DName(d) \/ DSpawn(d) \/ DRecord(d) \/ DSettle(d) \/ DFail(d) \/ DDone(d) \/ DFailed(d)
      PROVE  Exclusive' /\ Holding'
  BY <1>4, <1>a DEF DPublish, DName, DSpawn, DRecord, DSettle, DFail, DDone, DFailed, Idle
<1>5. ASSUME DToolEnds(d) PROVE Exclusive' /\ Holding'
  BY <1>5, <1>a DEF DToolEnds, Idle
<1>6. ASSUME DClear(d) \/ DDie(d) PROVE Exclusive' /\ Holding'
  BY <1>6, <1>b DEF DClear, DDie
<1>7. ASSUME DWork(d) PROVE Exclusive' /\ Holding'
  BY <1>7 DEF DWork, whose, Exclusive, Apart, Home, Holding, DrillHolds, AgentHolds, OperatorHolds
<1> QED BY <1>1, <1>2, <1>3, <1>4, <1>5, <1>6, <1>7 DEF DStep

LEMMA AgentLocks ==
  ASSUME Types, Exclusive, Holding, NEW a \in Agent, AStep(a)
  PROVE  Exclusive' /\ Holding'
<1> USE Kinds
<1> a \in Proc OBVIOUS
<1>h. AgentHolds(a) BY DEF Holding
<1>0. Solo(a) /\ AgentHolds(a)' => Holding' BY HoldingSolo
<1>a. ASSUME NEW w, Goes(a, w), at[a] # Idle, w # Idle
      PROVE  Exclusive' /\ Holding'
  <2>1. Solo(a) /\ at'[a] = w /\ held' = held BY <1>a, GoesLemma
  <2>2. AgentHolds(a)' BY <2>1, <1>a, <1>h DEF AgentHolds
  <2> QED BY <1>a, <2>1, <2>2, <1>0, GoesApart
<1>b. ASSUME Leaves(a, Idle)
      PROVE  Exclusive' /\ Holding'
  <2>1. Solo(a) /\ at'[a] = Idle /\ held'[a] = {} BY <1>b, LeavesLemma
  <2>2. AgentHolds(a)' BY <2>1 DEF AgentHolds, Idle
  <2> QED BY <1>b, <2>1, <2>2, <1>0, LeavesApart
<1>1. ASSUME ABegin(a) PROVE Exclusive' /\ Holding'
  <2>1. PICK c \in Uses[a]: Begins(a, c, NoTask) BY <1>1 DEF ABegin
  <2>2. c \in Config OBVIOUS
  <2>3. Solo(a) /\ at'[a] = "root" /\ held'[a] = {"journal"} BY <2>1, <2>2, BeginsLemma
  <2>4. AgentHolds(a)' BY <2>3 DEF AgentHolds, Idle
  <2> QED BY <2>1, <2>2, <2>3, <2>4, <1>0, ApartBegins
<1>2. ASSUME ALock(a) PROVE Exclusive' /\ Holding'
  <2>1. PICK l \in {"root", "producer"}:
          LET then == IF l = "root" THEN "producer" ELSE "marker"
          IN  /\ at[a] = l
              /\ \/ Locks(a, l, then) /\ UNCHANGED journal
                 \/ Taken(l, cfg[a]) /\ (Refuses(a) \/ (a \notin early /\ GoesOn(a, then)))
                 \/ l = "producer" /\ GoesOn(a, then)
    BY <1>2 DEF ALock
  <2> DEFINE then == IF l = "root" THEN "producer" ELSE "marker"
  <2>2. at[a] # Idle /\ then # Idle BY <2>1 DEF Idle
  <2>3. CASE Locks(a, l, then)
    <3>1. Solo(a) /\ at'[a] = then /\ held'[a] = held[a] \cup {l} BY <2>3, LocksLemma
    <3>2. AgentHolds(a)' BY <3>1, <2>2, <1>h DEF AgentHolds
    <3> QED BY <2>3, <3>1, <3>2, <1>0, ApartLocks
  <2>4. CASE Refuses(a) BY <2>4, <1>b DEF Refuses
  <2>5. CASE GoesOn(a, then) BY <2>5, <2>2, <1>a DEF GoesOn
  <2> QED BY <2>1, <2>3, <2>4, <2>5
<1>3. ASSUME AMarker(a) \/ AActivity(a) PROVE Exclusive' /\ Holding'
  BY <1>3, <1>a, <1>b DEF AMarker, AActivity, Refuses, GoesOn, Idle
<1>4. ASSUME AWait(a) PROVE Exclusive' /\ Holding'
  <2>1. /\ Solo(a) /\ at'[a] = "armed" /\ cfg' = cfg
        /\ held'[a] = held[a] \cup {l \in {"root", "producer"}: ~Taken(l, cfg[a])}
    BY <1>4 DEF AWait, Solo, Types, Places, TypeOK
  <2>2. AgentHolds(a)' BY <2>1, <1>4, <1>h DEF AgentHolds, AWait, Idle
  <2>3. \A q \in Proc: "root" \in held[q] /\ Home(q) = Home(a) => Taken("root", cfg[a])
    BY DEF Taken, Home
  <2>4. \A q \in Proc: "producer" \in held[q] => Taken("producer", cfg[a])
    BY DEF Taken
  <2>5. Exclusive' BY <2>1, <2>3, <2>4 DEF Exclusive, Apart, Home, Solo
  <2> QED BY <2>1, <2>2, <2>5, <1>0
<1>5. ASSUME AFreeze(a) PROVE Exclusive' /\ Holding'
  BY <1>5, <1>a DEF AFreeze, Idle
<1>6. ASSUME AEnd(a) PROVE Exclusive' /\ Holding'
  BY <1>6, <1>b DEF AEnd
<1> QED BY <1>1, <1>2, <1>3, <1>4, <1>5, <1>6 DEF AStep

LEMMA OperatorLocks ==
  ASSUME Types, Exclusive, Holding, NEW o \in Operator, OStep(o)
  PROVE  Exclusive' /\ Holding'
<1> USE Kinds
<1> o \in Proc OBVIOUS
<1>h. OperatorHolds(o) BY DEF Holding
<1>0. Solo(o) /\ OperatorHolds(o)' => Holding' BY HoldingSolo
<1>a. ASSUME NEW w, Goes(o, w),
             held[o] = Three \/ (held[o] = {} /\ w = "killed")
             \/ (w \in {"locked", "reset"} /\ task[o].cmd = "loop" /\ {"journal", "root"} \subseteq held[o]),
             w \in {"kill", "killed", "settle", "publish", "clear", "locked", "reset"}
      PROVE  Exclusive' /\ Holding'
  <2>1. Solo(o) /\ at'[o] = w /\ held' = held /\ task' = task BY <1>a, GoesLemma
  <2>2. OperatorHolds(o)' BY <2>1, <1>a DEF OperatorHolds, Idle, Three
  <2> QED BY <1>a, <2>1, <2>2, <1>0, GoesApart
<1>b. ASSUME Leaves(o, Idle)
      PROVE  Exclusive' /\ Holding'
  <2>1. Solo(o) /\ at'[o] = Idle /\ held'[o] = {} BY <1>b, LeavesLemma
  <2>2. OperatorHolds(o)' BY <2>1 DEF OperatorHolds, Idle
  <2> QED BY <1>b, <2>1, <2>2, <1>0, LeavesApart
<1>c. ASSUME NEW c \in Config, NEW t, Begins(o, c, t)
      PROVE  Exclusive' /\ Holding'
  <2>1. Solo(o) /\ at'[o] = "root" /\ held'[o] = {"journal"} BY <1>c, BeginsLemma
  <2>2. OperatorHolds(o)' BY <2>1 DEF OperatorHolds, Idle
  <2> QED BY <1>c, <2>1, <2>2, <1>0, ApartBegins
<1>1. ASSUME OCancel(o) PROVE Exclusive' /\ Holding'
  <2>1. PICK c \in Uses[o]:
       LET l == latest[DirOf[c]]  t == [cmd |-> "cancel", id |-> l.id]
       IN  IF l.running /\ Alive(l.id)
           THEN /\ at' = [at EXCEPT ![o] = "kill"] /\ cfg' = [cfg EXCEPT ![o] = c]
                /\ task' = [task EXCEPT ![o] = t] /\ UNCHANGED held
           ELSE Begins(o, c, t)
    BY <1>1 DEF OCancel
  <2> DEFINE t == [cmd |-> "cancel", id |-> latest[DirOf[c]].id]
  <2>2. c \in Config BY DrillAssumption
  <2>3. CASE Begins(o, c, t) BY <2>2, <2>3, <1>c
  <2>4. CASE /\ at' = [at EXCEPT ![o] = "kill"] /\ cfg' = [cfg EXCEPT ![o] = c]
             /\ task' = [task EXCEPT ![o] = t] /\ UNCHANGED held
    <3>1. Solo(o) /\ at'[o] = "kill" /\ held' = held
      BY <2>4 DEF Solo, Types, Places, TypeOK
    <3>2. held[o] = {} BY <1>1, <1>h DEF OCancel, OperatorHolds
    <3>3. OperatorHolds(o)' BY <3>1, <3>2 DEF OperatorHolds, Idle, Three
    <3>4. Exclusive' BY <3>1, <3>2 DEF Exclusive, Apart, Solo, Home
    <3> QED BY <3>1, <3>3, <3>4, <1>0
  <2> QED BY <2>1, <2>3, <2>4
<1>2. ASSUME OBegin(o) PROVE Exclusive' /\ Holding'
  BY <1>2, <1>c, DrillAssumption DEF OBegin
<1>3. ASSUME LockStep(o) PROVE Exclusive' /\ Holding'
  <2>1. CASE at[o] = "root" /\ Locks(o, "root", "producer")
    <3>1. Solo(o) /\ at'[o] = "producer" /\ held'[o] = held[o] \cup {"root"} BY <2>1, LocksLemma
    <3>2. OperatorHolds(o)' BY <3>1, <2>1, <1>h DEF OperatorHolds, Idle
    <3> QED BY <2>1, <3>1, <3>2, <1>0, ApartLocks
  <2>2. CASE at[o] = "producer" /\ Locks(o, "producer", "locked")
    <3>1. Solo(o) /\ at'[o] = "locked" /\ held'[o] = held[o] \cup {"producer"} BY <2>2, LocksLemma
    <3>2. held[o] \subseteq Three BY DEF Types, TypeOK, Three
    <3>3. OperatorHolds(o)' BY <3>1, <3>2, <2>2, <1>h DEF OperatorHolds, Idle, Three
    <3> QED BY <2>2, <3>1, <3>3, <1>0, ApartLocks
  <2>3. CASE Leaves(o, Idle) BY <2>3, <1>b
  <2> QED BY <1>3, <2>1, <2>2, <2>3 DEF LockStep
<1>4. ASSUME OUnlocked(o) PROVE Exclusive' /\ Holding'
  BY <1>4, <1>a, <1>h DEF OUnlocked, OperatorHolds
<1>5. ASSUME OLocked(o) PROVE Exclusive' /\ Holding'
  BY <1>5, <1>a, <1>b, <1>h DEF OLocked, OClear, OLoop, OperatorHolds
<1>6. ASSUME OKill(o) PROVE Exclusive' /\ Holding'
  BY <1>6, <1>a, <1>b, <1>h DEF OKill, OperatorHolds
<1>7. ASSUME OKilled(o) PROVE Exclusive' /\ Holding'
  <2>1. cfg[o] \in Config BY <1>7 DEF OKilled, Types, Places, Idle
  <2> QED BY <2>1, <1>7, <1>a, <1>b, <1>c, <1>h DEF OKilled, OperatorHolds
<1>8. ASSUME OSettle(o) PROVE Exclusive' /\ Holding'
  BY <1>8, <1>a, <1>b, <1>h DEF OSettle, OperatorHolds
<1>9. ASSUME OPublish(o) PROVE Exclusive' /\ Holding'
  BY <1>9, <1>a, <1>b, <1>h DEF OPublish, OperatorHolds
<1>10. ASSUME OEnd(o) PROVE Exclusive' /\ Holding'
  BY <1>10, <1>b DEF OEnd
<1> QED BY <1>1, <1>2, <1>3, <1>4, <1>5, <1>6, <1>7, <1>8, <1>9, <1>10 DEF OStep

LEMMA LockNext ==
  ASSUME TypeOK, LockInv, [Next]_vars
  PROVE  TypeOK' /\ LockInv'
<1>0. Types /\ Who /\ Data /\ Exclusive /\ Holding BY TypeParts DEF Types, LockInv
<1>1. Who' /\ Data' => TypeOK' /\ Places' BY DEF TypeOK, Who, Data, Three
<1>2. ASSUME Next PROVE TypeOK' /\ LockInv'
  <2>1. CASE \E d \in Drill: DStep(d) BY <2>1, <1>0, <1>1, DrillTypes, DrillLocks DEF LockInv
  <2>2. CASE \E a \in Agent: AStep(a) BY <2>2, <1>0, <1>1, AgentTypes, AgentLocks DEF LockInv
  <2>3. CASE \E o \in Operator: OStep(o) BY <2>3, <1>0, <1>1, OperatorTypes, OperatorLocks DEF LockInv
  <2> QED BY <1>2, <2>1, <2>2, <2>3 DEF Next
<1>3. CASE UNCHANGED vars
  BY <1>3 DEF vars, TypeOK, LockInv, Places, Exclusive, Apart, Home, Holding, DrillHolds, AgentHolds, OperatorHolds
<1> QED BY <1>2, <1>3

-----------------------------------------------------------------------------
(* What the locks give: whoever works on the producer works alone. *)

LEMMA Alone ==
  ASSUME LockInv, NEW p \in Proc, NEW q \in Proc, "producer" \in held[p], "producer" \in held[q]
  PROVE  p = q
BY DEF LockInv, Exclusive, Apart

LEMMA WorkHolds ==
  ASSUME LockInv, NEW d \in Drill, Working(d) \/ at[d] = "locked"
  PROVE  held[d] = Three
<1>1. at[d] \notin {Idle, "dead", "root", "producer"}
  BY DEF Working, Waits, Idle
<1> QED BY <1>1 DEF LockInv, Holding, DrillHolds

\* Nobody with the producer's lock is next to a working drill.
LEMMA NoneWorks ==
  ASSUME LockInv, NEW p \in Proc, "producer" \in held[p], NEW d \in Drill, d # p
  PROVE  ~Working(d) /\ at[d] # "started" /\ at[d] # "locked"
<1>1. ~Working(d) /\ at[d] # "locked"
  BY Kinds, Alone, WorkHolds DEF Three
<1> QED BY <1>1 DEF Working, Waits, Idle

\* Each step is one process's.
LEMMA DrillSolo ==
  ASSUME Types, NEW d \in Drill, DStep(d) PROVE Solo(d)
<1> USE Kinds
<1> d \in Proc OBVIOUS
<1>a. \A w: Goes(d, w) => Solo(d) BY GoesLemma
<1>b. \A w: Leaves(d, w) => Solo(d) BY LeavesLemma
<1>1. DBegin(d) => Solo(d) BY BeginsLemma DEF DBegin
<1>2. LockStep(d) => Solo(d) BY <1>b, LocksLemma DEF LockStep
<1>3. DWork(d) => Solo(d) BY DEF DWork, Solo, whose
<1>4. DMark(d) \/ DPublish(d) \/ DName(d) \/ DSpawn(d) \/ DRecord(d) \/ DToolEnds(d) => Solo(d)
  BY <1>a, <1>b DEF DMark, DPublish, DName, DSpawn, DRecord, DToolEnds
<1>5. DSettle(d) \/ DFail(d) \/ DDone(d) \/ DFailed(d) \/ DClear(d) \/ DDie(d) => Solo(d)
  BY <1>a, <1>b DEF DSettle, DFail, DDone, DFailed, DClear, DDie
<1> QED BY <1>1, <1>2, <1>3, <1>4, <1>5 DEF DStep

LEMMA AgentSolo ==
  ASSUME Types, NEW a \in Agent, AStep(a) PROVE Solo(a)
<1> USE Kinds
<1> a \in Proc OBVIOUS
<1>a. \A w: Goes(a, w) => Solo(a) BY GoesLemma
<1>b. Leaves(a, Idle) => Solo(a) BY LeavesLemma
<1>1. ABegin(a) => Solo(a) BY BeginsLemma DEF ABegin
<1>2. ALock(a) => Solo(a) BY <1>a, <1>b, LocksLemma DEF ALock, Refuses, GoesOn
<1>3. AWait(a) => Solo(a) BY DEF AWait, Solo, Types, Places, TypeOK
<1>4. AMarker(a) \/ AActivity(a) \/ AFreeze(a) \/ AEnd(a) => Solo(a)
  BY <1>a, <1>b DEF AMarker, AActivity, AFreeze, AEnd, Refuses, GoesOn
<1> QED BY <1>1, <1>2, <1>3, <1>4 DEF AStep

LEMMA OperatorSolo ==
  ASSUME Types, NEW o \in Operator, OStep(o) PROVE Solo(o)
<1> USE Kinds
<1> o \in Proc OBVIOUS
<1>a. \A w: Goes(o, w) => Solo(o) BY GoesLemma
<1>b. Leaves(o, Idle) => Solo(o) BY LeavesLemma
<1>c. \A t: \A c \in Config: Begins(o, c, t) => Solo(o) BY BeginsLemma
<1>1. OBegin(o) => Solo(o) BY <1>c DEF OBegin
<1>2. LockStep(o) => Solo(o) BY <1>b, LocksLemma DEF LockStep
<1>3. OCancel(o) => Solo(o)
  <2>1. ASSUME NEW c, NEW t, at' = [at EXCEPT ![o] = "kill"], cfg' = [cfg EXCEPT ![o] = c],
               task' = [task EXCEPT ![o] = t], held' = held
        PROVE  Solo(o)
    BY <2>1 DEF Solo, Types, Places, TypeOK
  <2> QED BY <2>1, <1>c DEF OCancel
<1>4. OKilled(o) => Solo(o)
  <2>1. at[o] = "killed" => cfg[o] \in Config BY DEF Types, Places, Idle
  <2> QED BY <2>1, <1>a, <1>b, <1>c DEF OKilled
<1>5. OUnlocked(o) \/ OLocked(o) \/ OKill(o) \/ OSettle(o) \/ OPublish(o) \/ OEnd(o) => Solo(o)
  BY <1>a, <1>b DEF OUnlocked, OLocked, OClear, OLoop, OKill, OSettle, OPublish, OEnd
<1> QED BY <1>1, <1>2, <1>3, <1>4, <1>5 DEF OStep

\* How a drill goes: what is published stays so under its configuration; it works
\* from its marker, is published from "waiting" on, and names its container before
\* the export; nothing comes after its end.
Flows(d) ==
  /\ at[d] \notin Unpublished => at'[d] \notin Unpublished /\ cfg'[d] = cfg[d]
  /\ Working(d)' => cfg'[d] = cfg[d] /\ (Working(d) \/ (at[d] = "locked" /\ at'[d] = "marked"))
  /\ at'[d] \notin Ended
       => \/ at[d] \notin Ended
          \/ at[d] = "marked" /\ at'[d] = "waiting"
  /\ at'[d] = "export" => at[d] \in {"waiting", "export"}
  /\ at[d] \in {"clear", "dead"} => at'[d] \in {"clear", "dead"}

LEMMA DrillFlow ==
  ASSUME Types, NEW d \in Drill, DStep(d) PROVE Flows(d)
<1> USE Kinds DEF Flows, Ended, Unpublished, Waits, Working, Idle
<1> d \in Proc OBVIOUS
<1>1. DBegin(d) => Flows(d) BY BeginsLemma DEF DBegin
<1>2. LockStep(d) => Flows(d)
  BY LocksLemma, LeavesLemma DEF LockStep
<1>3. DWork(d) => Flows(d) BY DEF DWork, whose
<1>a. \A w: Goes(d, w) => at'[d] = w /\ cfg'[d] = cfg[d] BY GoesLemma
<1>b. \A w: Leaves(d, w) => at'[d] = w /\ (w # Idle => cfg'[d] = cfg[d]) BY LeavesLemma
<1>4. DMark(d) => Flows(d) BY <1>a, <1>b DEF DMark
<1>5. DPublish(d) => Flows(d) BY <1>a DEF DPublish
<1>6. DName(d) => Flows(d) BY <1>a DEF DName
<1>7. DSpawn(d) \/ DRecord(d) \/ DToolEnds(d) => Flows(d) BY <1>a DEF DSpawn, DRecord, DToolEnds
<1>8. DSettle(d) \/ DFail(d) \/ DDone(d) \/ DFailed(d) => Flows(d)
  BY <1>a DEF DSettle, DFail, DDone, DFailed
<1>9. DClear(d) => Flows(d) BY <1>b DEF DClear
<1>10. DDie(d) => Flows(d) BY <1>b DEF DDie, Alive, Places, Types, DrillPlaces
<1> QED BY <1>1, <1>2, <1>3, <1>4, <1>5, <1>6, <1>7, <1>8, <1>9, <1>10 DEF DStep

-----------------------------------------------------------------------------
(* The journal next to a drill. *)

\* An agent writes the journal it has locked, or takes one that nobody has.
LEMMA JournalLemma ==
  ASSUME Types, Holding, NEW a \in Agent, AStep(a), NEW c \in Config
  PROVE  \/ journal'[c] = journal[c]
         \/ cfg[a] = c /\ "journal" \in held[a]
         \/ \A q \in Proc: "journal" \in held[q] => cfg[q] # c
<1> USE Kinds
<1>t. journal \in [Config -> {"none", "ARMED", "FROZEN", "ABORTED"}] BY DEF Types, TypeOK
<1>1. CASE ABegin(a)
  <2>1. PICK k \in Uses[a]: /\ Begins(a, k, NoTask)
                            /\ journal' = [journal EXCEPT ![k] = IF @ = "none" THEN "ARMED" ELSE @]
    BY <1>1 DEF ABegin
  <2>2. k \in Config OBVIOUS
  <2>3. \A q \in Proc: "journal" \in held[q] => cfg[q] # k BY <2>1, <2>2, BeginsLemma
  <2> QED BY <2>1, <2>3, <1>t
<1>2. CASE at[a] # Idle
  <2>1. "journal" \in held[a] BY <1>2 DEF Holding, AgentHolds
  <2>2. cfg[a] # c => journal'[c] = journal[c] \/ ABegin(a)
    BY <1>t DEF AStep, ALock, AMarker, AActivity, AWait, AFreeze, AEnd, Refuses, GoesOn
  <2> QED BY <2>1, <2>2, <1>1
<1> QED BY <1>1, <1>2 DEF AStep, ALock, AMarker, AActivity, AWait, AFreeze, AEnd, Idle

LEMMA DrillJournal == \A d \in Drill: DStep(d) => journal' = journal
BY DEF DStep, DBegin, LockStep, DMark, DPublish, DName, DSpawn, DRecord, DToolEnds, DSettle, DFail,
       DDone, DFailed, DClear, DDie, DWork

LEMMA OperatorJournal == \A o \in Operator: OStep(o) => journal' = journal /\ lost' = lost
BY DEF OStep, OCancel, OBegin, LockStep, OUnlocked, OLocked, OKill, OKilled, OSettle, OPublish, OEnd

LEMMA SealNext ==
  ASSUME TypeOK, LockInv, SealInv, [Next]_vars
  PROVE  SealInv'
<1> USE Kinds
<1>0. Types /\ Holding /\ Exclusive BY DEF LockInv, Types
<1>1. ASSUME NEW d \in Drill, DStep(d) PROVE SealInv'
  <2>1. journal' = journal /\ Flows(d) /\ Solo(d) BY <1>0, <1>1, DrillJournal, DrillFlow, DrillSolo
  <2>2. at[d] = "locked" /\ at'[d] = "marked" => ~Conflict(d)
    <3>1. DMark(d) \/ at[d] # "locked" \/ at'[d] # "marked"
      <4>1. \A w: Goes(d, w) => at'[d] = w BY <1>0, GoesLemma
      <4>2. \A w: Leaves(d, w) => at'[d] = w BY <1>0, LeavesLemma
      <4>3. LockStep(d) /\ at[d] = "locked" => FALSE BY DEF LockStep
      <4>4. DDie(d) => at'[d] # "marked" BY <4>2 DEF DDie, Idle
      <4>5. DWork(d) => at'[d] = at[d] BY DEF DWork
      <4> QED BY <1>1, <4>1, <4>2, <4>3, <4>4, <4>5
            DEF DStep, DBegin, DPublish, DName, DSpawn, DRecord, DToolEnds, DSettle, DFail, DDone, DFailed, DClear, Idle
    <3>2. DMark(d) /\ at'[d] = "marked" => ~Conflict(d)
      BY <1>0, LeavesLemma DEF DMark, Idle
    <3> QED BY <3>1, <3>2
  <2>3. \A e \in Drill \ {d}: Working(e)' => Working(e) /\ cfg'[e] = cfg[e]
    BY <2>1 DEF Solo, Working
  <2> QED BY <2>1, <2>2, <2>3 DEF SealInv, Flows, Conflict
<1>2. ASSUME NEW a \in Agent, AStep(a) PROVE SealInv'
  <2>1. Solo(a) BY <1>0, <1>2, AgentSolo
  <2>2. ASSUME NEW d \in Drill, Working(d)' PROVE journal'[cfg'[d]] \in {"none", "ABORTED"}
    <3>1. d # a /\ Working(d) /\ cfg'[d] = cfg[d] BY <2>1, <2>2 DEF Solo, Working
    <3>2. "journal" \in held[d] /\ cfg[d] \in Config
      BY <1>0, <3>1, WorkHolds, HomeType, TypeParts DEF Working, Three, Waits, Idle
    <3>3. journal'[cfg[d]] = journal[cfg[d]]
      BY <1>0, <1>2, <3>1, <3>2, JournalLemma DEF Exclusive, Apart
    <3> QED BY <3>1, <3>3 DEF SealInv
  <2> QED BY <2>2 DEF SealInv
<1>3. ASSUME NEW o \in Operator, OStep(o) PROVE SealInv'
  BY <1>0, <1>3, OperatorSolo, OperatorJournal DEF SealInv, Working, Solo
<1>4. CASE UNCHANGED vars BY <1>4 DEF vars, SealInv, Working
<1> QED BY <1>1, <1>2, <1>3, <1>4 DEF Next

-----------------------------------------------------------------------------
(* The record and the marker of a drill. *)

\* Effects on what drills leave, of those who are no drill.
KillStep == UNCHANGED <<tool, rec>> \/ \E d \in rec: Stopped(d)
SameDrills == \A d \in Drill: at'[d] = at[d] /\ cfg'[d] = cfg[d]
OnlyKills == KillStep /\ UNCHANGED <<latest, marker, box, lost>>

LEMMA KillIs == \A d: Kill(d) => KillStep
BY DEF Kill, KillStep

LEMMA AgentEffects ==
  ASSUME Types, NEW a \in Agent, AStep(a)
  PROVE  SameDrills /\ OnlyKills
<1>1. SameDrills BY Kinds, AgentSolo DEF Solo, SameDrills
<1>2. ABegin(a) \/ ALock(a) \/ AWait(a) \/ AFreeze(a) \/ AEnd(a) => OnlyKills
  BY DEF ABegin, ALock, AWait, AFreeze, AEnd, OnlyKills, KillStep, work
<1>3. AMarker(a) => OnlyKills
  BY KillIs DEF AMarker, OnlyKills, KillStep, work
<1>4. AActivity(a) => OnlyKills
  BY KillIs DEF AActivity, OnlyKills, KillStep, work
<1> QED BY <1>1, <1>2, <1>3, <1>4 DEF AStep

Clears(o) == at[o] = "locked" /\ OClear(o) /\ UNCHANGED <<latest, work, lost>>
LEMMA OperatorEffects ==
  ASSUME Types, NEW o \in Operator, OStep(o)
  PROVE  SameDrills /\ (OnlyKills \/ Clears(o) \/ OSettle(o) \/ OPublish(o))
<1>1. SameDrills BY Kinds, OperatorSolo DEF Solo, SameDrills
<1>2. OCancel(o) \/ OBegin(o) \/ LockStep(o) \/ OUnlocked(o) \/ OKilled(o) \/ OEnd(o) => OnlyKills
  BY DEF OCancel, OBegin, LockStep, OUnlocked, OKilled, OEnd, OnlyKills, KillStep, work
<1>3. OLocked(o) => OnlyKills \/ Clears(o)
  BY DEF OLocked, OLoop, Clears, OnlyKills, KillStep, work
<1>4. OKill(o) => OnlyKills
  BY KillIs DEF OKill, OnlyKills, KillStep, work
<1> QED BY <1>1, <1>2, <1>3, <1>4 DEF OStep

LEMMA OperatorLocked ==
  ASSUME LockInv, NEW o \in Operator, Clears(o) \/ OSettle(o) \/ OPublish(o)
  PROVE  held[o] = Three
BY DEF LockInv, Holding, OperatorHolds, Clears, OClear, OSettle, OPublish

\* Steps that leave the record or the marker keep what they say, wherever a drill
\* goes except past its marker, its publication and the naming of its container.
RecordFlows(d) ==
  /\ Flows(d)
  /\ ~(at[d] = "locked" /\ at'[d] = "marked")
  /\ ~(at[d] = "marked" /\ at'[d] = "waiting")
  /\ ~(at[d] = "waiting" /\ at'[d] = "export")

LEMMA NamedKeeps ==
  ASSUME NamedInv, marker' = marker, \A d \in Drill: Working(d)' => Working(d)
  PROVE  NamedInv'
BY DEF NamedInv

LEMMA RecordKeeps ==
  ASSUME Types, RecordInv, latest' = latest, \A d \in Drill: RecordFlows(d)
  PROVE  RecordInv'
<1>1. \A h \in Dir: latest'[h].id \in Drill =>
        at'[latest'[h].id] \notin Unpublished /\ DirOf[cfg'[latest'[h].id]] = h
  BY DEF RecordInv, RecordFlows, Flows, Home
<1>2. ASSUME NEW d \in Drill, at'[d] \notin Ended
      PROVE  latest'[DirOf[cfg'[d]]].id = d /\ latest'[DirOf[cfg'[d]]].running
  <2>1. at[d] \notin Ended BY <1>2 DEF RecordFlows, Flows
  <2>2. cfg'[d] = cfg[d] BY <2>1 DEF RecordFlows, Flows, Ended
  <2> QED BY <2>1, <2>2 DEF RecordInv, Home
<1>3. ASSUME NEW d \in Drill, at'[d] = "export"
      PROVE  latest'[DirOf[cfg'[d]]].box = "left"
  <2>1. at[d] = "export" BY <1>3 DEF RecordFlows, Flows
  <2>2. cfg'[d] = cfg[d] BY <2>1 DEF RecordFlows, Flows, Unpublished, Waits, Idle
  <2> QED BY <2>1, <2>2 DEF RecordInv, Home
<1> QED BY <1>1, <1>2, <1>3 DEF RecordInv, Home

\* A process with the producer's lock changes no other drill's record: none is left.
LEMMA RecordAlone ==
  ASSUME Types, LockInv, RecordInv, NEW p \in Proc, "producer" \in held[p],
         \A h \in Dir: latest'[h].id = latest[h].id,
         \A e \in Drill \ {p}: at'[e] = at[e] /\ cfg'[e] = cfg[e],
         p \in Drill => /\ Flows(p)
                        /\ at'[p] \notin Ended => latest'[Home(p)'].id = p /\ latest'[Home(p)'].running
                        /\ at'[p] = "export" => latest'[Home(p)'].box = "left"
  PROVE  RecordInv'
<1>1. \A h \in Dir: latest'[h].id \in Drill =>
        at'[latest'[h].id] \notin Unpublished /\ DirOf[cfg'[latest'[h].id]] = h
  BY DEF RecordInv, Flows, Home
<1>2. \A e \in Drill \ {p}: at'[e] \in Ended
  BY NoneWorks DEF Ended, Unpublished, Working
<1>3. "export" \notin Ended BY DEF Ended, Unpublished, Waits, Idle
<1> QED BY <1>1, <1>2, <1>3 DEF RecordInv, Home

LEMMA SameFlows ==
  ASSUME NEW d \in Drill, at'[d] = at[d], cfg'[d] = cfg[d]
  PROVE  RecordFlows(d) /\ (Working(d)' => Working(d))
BY DEF RecordFlows, Flows, Working, Ended, Unpublished, Waits, Idle

LEMMA PlainFlows ==
  ASSUME Types, NEW d \in Drill,
         \/ DBegin(d) \/ LockStep(d) \/ DSpawn(d) \/ DRecord(d) \/ DToolEnds(d)
         \/ DSettle(d) \/ DFail(d) \/ DDone(d) \/ DFailed(d) \/ DClear(d) \/ DDie(d) \/ DWork(d)
  PROVE  RecordFlows(d) /\ (Working(d)' => Working(d))
<1> USE Kinds
<1> d \in Proc OBVIOUS
<1>1. Flows(d) BY DrillFlow DEF DStep
<1>a. \A w: Goes(d, w) => at'[d] = w BY GoesLemma
<1>b. \A w: Leaves(d, w) => at'[d] = w BY LeavesLemma
<1>2. DBegin(d) => at'[d] = "root" BY BeginsLemma DEF DBegin
<1>3. LockStep(d) => at[d] \in {"root", "producer"} BY DEF LockStep
<1>4. DWork(d) => at'[d] = at[d] BY DEF DWork
<1>5. DDie(d) \/ DClear(d) => at'[d] \in {Idle, "dead"} BY <1>b DEF DDie, DClear
<1>6. DSpawn(d) \/ DRecord(d) \/ DToolEnds(d) \/ DSettle(d) \/ DFail(d) \/ DDone(d) \/ DFailed(d)
        => at'[d] \in {"started", "running", "next", "settled", "failed", "stopped", "clear"}
  BY <1>a DEF DSpawn, DRecord, DToolEnds, DSettle, DFail, DDone, DFailed
<1> QED BY <1>1, <1>2, <1>3, <1>4, <1>5, <1>6 DEF RecordFlows, Flows, Idle

LEMMA MarkFlows ==
  ASSUME Types, NEW d \in Drill, DMark(d)
  PROVE  /\ Flows(d) /\ at[d] = "locked" /\ latest' = latest
         /\ \/ at'[d] = "marked" /\ WriteMarker(d)
            \/ at'[d] = Idle /\ marker' = marker
BY Kinds, DrillFlow, GoesLemma, LeavesLemma DEF DMark, DStep

\* What the steps that write the record write.
LEMMA RecordWrites ==
  ASSUME Types, NEW p \in Proc, at[p] # Idle,
         Settled(Home(p)) \/ NotSettled(Home(p)) \/ Over(Home(p)) \/ UNCHANGED latest
  PROVE  \A h \in Dir:
           /\ latest'[h].id = latest[h].id
           /\ h # Home(p) => latest'[h] = latest[h]
           /\ Settled(Home(p)) \/ NotSettled(Home(p)) => latest'[h].running = latest[h].running
<1>1. Home(p) \in Dir /\ latest \in [Dir -> [id : Drill \cup {Nobody}, running : BOOLEAN, box : {"none", "left", "gone"}]]
  BY HomeType, TypeParts DEF Data
<1>2. CASE Settled(Home(p)) BY <1>1, <1>2 DEF Settled, NotSettled
<1>3. CASE NotSettled(Home(p)) \/ UNCHANGED latest BY <1>1, <1>3 DEF NotSettled
<1>4. CASE Over(Home(p)) /\ ~Settled(Home(p)) /\ ~NotSettled(Home(p)) BY <1>1, <1>4 DEF Over
<1> QED BY <1>2, <1>3, <1>4

LEMMA DrillRecord ==
  ASSUME Types, LockInv, NamedInv, RecordInv, NEW d \in Drill, DStep(d)
  PROVE  RecordInv'
<1> USE Kinds
<1> d \in Proc OBVIOUS
<1>s. Solo(d) /\ Flows(d) BY DrillSolo, DrillFlow
<1>o. \A e \in Drill \ {d}: at'[e] = at[e] /\ cfg'[e] = cfg[e] BY <1>s DEF Solo
<1>f. \A e \in Drill \ {d}: RecordFlows(e) BY <1>o, SameFlows
<1>w. at[d] \notin Waits \cup {"dead"} => "producer" \in held[d] /\ at[d] # Idle
  BY WorkHolds DEF Working, Three, Waits, Idle
<1>l. latest \in [Dir -> [id : Drill \cup {Nobody}, running : BOOLEAN, box : {"none", "left", "gone"}]]
  BY TypeParts DEF Data
<1>a. \A w: Goes(d, w) => at'[d] = w /\ cfg' = cfg BY GoesLemma
<1>1. CASE DBegin(d) \/ LockStep(d) \/ DSpawn(d) \/ DRecord(d) \/ DToolEnds(d) \/ DFail(d) \/ DDie(d)
           \/ DClear(d) \/ DWork(d)
  <2>1. latest' = latest
    BY <1>1 DEF DBegin, LockStep, DSpawn, DRecord, DToolEnds, DFail, DDie, DClear, DWork
  <2>2. RecordFlows(d) BY <1>1, PlainFlows
  <2> QED BY <2>1, <2>2, <1>f, RecordKeeps
<1>2. CASE DMark(d)
  <2>1. at[d] = "locked" /\ latest' = latest /\ at'[d] \in {Idle, "marked"} BY <1>2, MarkFlows
  <2>2. \A h \in Dir: latest'[h].id \in Drill =>
          at'[latest'[h].id] \notin Unpublished /\ DirOf[cfg'[latest'[h].id]] = h
    BY <2>1, <1>s, <1>o DEF RecordInv, Flows, Home
  <2>3. at'[d] \in Ended /\ "export" \notin Ended
    BY <2>1 DEF Ended, Unpublished, Waits, Idle
  <2> QED BY <2>1, <2>2, <2>3, <1>o DEF RecordInv, Home
<1>3. CASE DPublish(d)
  <2>0. at[d] = "marked" /\ "producer" \in held[d] /\ at[d] # Idle /\ at[d] \in Unpublished
    BY <1>3, <1>w DEF DPublish, Waits, Idle, Unpublished
  <2>1. CASE at'[d] = "clear" /\ latest' = latest
    <3>1. RecordFlows(d) BY <2>0, <2>1, <1>s DEF RecordFlows
    <3> QED BY <2>1, <3>1, <1>f, RecordKeeps
  <2>2. CASE /\ latest' = [latest EXCEPT ![Home(d)] = [id |-> d, running |-> TRUE, box |-> "none"]]
             /\ at'[d] = "waiting" /\ cfg' = cfg
    <3>1. Home(d) \in Dir BY <2>0, HomeType, TypeParts
    <3>2. /\ latest'[Home(d)].id = d /\ latest'[Home(d)].running
          /\ \A h \in Dir \ {Home(d)}: latest'[h] = latest[h]
      BY <2>2, <3>1, <1>l
    <3>3. \A h \in Dir: latest'[h].id \in Drill =>
            at'[latest'[h].id] \notin Unpublished /\ DirOf[cfg'[latest'[h].id]] = h
      <4>1. "waiting" \notin Unpublished BY DEF Unpublished, Waits, Idle
      <4> QED BY <2>2, <3>2, <4>1, <1>o DEF RecordInv, Home
    <3>4. \A e \in Drill \ {d}: at'[e] \in Ended
      BY <2>0, <1>o, NoneWorks DEF Ended, Unpublished, Working
    <3>5. "export" \notin Ended BY DEF Ended, Unpublished, Waits, Idle
    <3> QED BY <2>2, <3>2, <3>3, <3>4, <3>5 DEF RecordInv, Home
  <2> QED BY <1>3, <1>a, <2>1, <2>2 DEF DPublish
<1>4. CASE DName(d)
  <2>0. at[d] = "waiting" /\ "producer" \in held[d] /\ at[d] # Idle /\ at[d] \notin Ended
    BY <1>4, <1>w DEF DName, Waits, Idle, Unpublished, Ended
  <2>1. Home(d) \in Dir BY <2>0, HomeType, TypeParts
  <2>2. latest' = [latest EXCEPT ![Home(d)].box = "left"] /\ cfg' = cfg BY <1>4, <1>a DEF DName
  <2>3. /\ \A h \in Dir: latest'[h].id = latest[h].id
        /\ latest'[Home(d)].running = latest[Home(d)].running /\ latest'[Home(d)].box = "left"
    BY <2>1, <2>2, <1>l
  <2>4. latest[Home(d)].id = d /\ latest[Home(d)].running BY <2>0 DEF RecordInv
  <2>5. DirOf[cfg'[d]] = Home(d) BY <2>2 DEF Home
  <2>6. /\ latest'[Home(d)'].id = d /\ latest'[Home(d)'].running
        /\ latest'[Home(d)'].box = "left"
    BY <2>1, <2>3, <2>4, <2>5 DEF Home
  <2> QED BY <2>0, <2>3, <2>6, <1>o, <1>s, RecordAlone
<1>5. CASE DSettle(d)
  <2>0. at[d] \in {"next", "failed"} BY <1>5 DEF DSettle
  <2>1. "producer" \in held[d] /\ at[d] # Idle /\ at[d] \notin Ended
    BY <2>0, <1>w DEF Waits, Idle, Unpublished, Ended
  <2>2. at'[d] \in {"settled", "stopped", "failed"} /\ cfg' = cfg
    BY <1>5, <1>a, <2>0 DEF DSettle
  <2>3. /\ \A h \in Dir: latest'[h].id = latest[h].id
        /\ \A h \in Dir: latest'[h].running = latest[h].running
    BY <1>5, <2>1, RecordWrites DEF DSettle
  <2>4. Home(d) \in Dir /\ latest[Home(d)].id = d /\ latest[Home(d)].running
    BY <2>1, HomeType, TypeParts DEF RecordInv
  <2>5. latest'[Home(d)'].id = d /\ latest'[Home(d)'].running /\ at'[d] # "export"
    BY <2>2, <2>3, <2>4 DEF Home
  <2> QED BY <2>1, <2>3, <2>5, <1>o, <1>s, RecordAlone
<1>6. CASE DDone(d) \/ DFailed(d)
  <2>0. at[d] \in {"settled", "stopped"} BY <1>6 DEF DDone, DFailed
  <2>1. "producer" \in held[d] /\ at[d] # Idle
    BY <2>0, <1>w DEF Waits, Idle
  <2>2. at'[d] = "clear" BY <1>6, <1>a DEF DDone, DFailed
  <2>3. \A h \in Dir: latest'[h].id = latest[h].id
    BY <1>6, <2>1, RecordWrites DEF DDone, DFailed
  <2>4. at'[d] \in Ended /\ at'[d] # "export" BY <2>2 DEF Ended
  <2> QED BY <2>1, <2>3, <2>4, <1>o, <1>s, RecordAlone
<1> QED BY <1>1, <1>2, <1>3, <1>4, <1>5, <1>6 DEF DStep

LEMMA RecordNext ==
  ASSUME TypeOK, LockInv, NamedInv, RecordInv, [Next]_vars
  PROVE  RecordInv'
<1> USE Kinds
<1>0. Types BY DEF LockInv, Types
<1>f. SameDrills => \A d \in Drill: RecordFlows(d) BY SameFlows DEF SameDrills
<1>1. ASSUME NEW d \in Drill, DStep(d) PROVE RecordInv' BY <1>0, <1>1, DrillRecord
<1>2. ASSUME NEW a \in Agent, AStep(a) PROVE RecordInv'
  BY <1>0, <1>2, <1>f, AgentEffects, RecordKeeps DEF OnlyKills
<1>3. ASSUME NEW o \in Operator, OStep(o) PROVE RecordInv'
  <2>1. SameDrills /\ (OnlyKills \/ Clears(o) \/ OSettle(o) \/ OPublish(o))
    BY <1>0, <1>3, OperatorEffects
  <2>2. CASE OnlyKills \/ Clears(o)
    BY <1>0, <1>f, <2>1, <2>2, RecordKeeps DEF OnlyKills, Clears
  <2>3. CASE OSettle(o) \/ OPublish(o)
    <3>1. "producer" \in held[o] /\ at[o] # Idle /\ o \notin Drill
      BY <2>3, OperatorLocked DEF Three, OSettle, OPublish, Idle
    <3>2. \A h \in Dir: latest'[h].id = latest[h].id
      BY <1>0, <2>3, <3>1, RecordWrites DEF OSettle, OPublish
    <3> QED BY <1>0, <2>1, <3>1, <3>2, RecordAlone DEF SameDrills
  <2> QED BY <2>1, <2>2, <2>3
<1>4. CASE UNCHANGED vars
  BY <1>0, <1>4, <1>f, RecordKeeps DEF vars, SameDrills
<1> QED BY <1>1, <1>2, <1>3, <1>4 DEF Next

LEMMA NamedNext ==
  ASSUME TypeOK, LockInv, NamedInv, RecordInv, [Next]_vars
  PROVE  NamedInv'
<1> USE Kinds
<1>0. Types BY DEF LockInv, Types
<1>f. SameDrills => \A d \in Drill: Working(d)' => Working(d) BY SameFlows DEF SameDrills
<1>n. ASSUME NEW p \in Proc, "producer" \in held[p],
             \A e \in Drill \ {p}: at'[e] = at[e] /\ cfg'[e] = cfg[e],
             p \in Drill /\ Working(p)' => marker' = p
      PROVE  NamedInv'
  BY <1>n, NoneWorks DEF NamedInv, Working
<1>1. ASSUME NEW d \in Drill, DStep(d) PROVE NamedInv'
  <2>1. Solo(d) BY <1>0, <1>1, DrillSolo
  <2>2. \A e \in Drill \ {d}: at'[e] = at[e] /\ cfg'[e] = cfg[e] BY <2>1 DEF Solo
  <2>3. \A e \in Drill \ {d}: Working(e)' => Working(e) BY <2>2 DEF Working
  <2>4. CASE DMark(d)
    <3>1. "producer" \in held[d] BY <1>0, <2>4, MarkFlows, WorkHolds DEF Three
    <3>2. Working(d)' => marker' = d
      BY <1>0, <2>4, MarkFlows DEF WriteMarker, Working, Waits, Idle
    <3> QED BY <2>2, <3>1, <3>2, <1>n
  <2>5. CASE DClear(d)
    <3>1. "producer" \in held[d]
      BY <2>5, WorkHolds DEF DClear, Working, Waits, Idle, Three
    <3>2. ~Working(d)' BY <1>0, <2>5, LeavesLemma DEF DClear, Working, Waits, Idle
    <3> QED BY <2>2, <3>1, <3>2, <1>n
  <2>6. CASE DPublish(d) \/ DName(d)
    <3>1. Working(d) /\ marker' = marker BY <2>6 DEF DPublish, DName, Working, Waits, Idle
    <3> QED BY <2>3, <3>1, NamedKeeps
  <2>7. CASE ~(DMark(d) \/ DClear(d) \/ DPublish(d) \/ DName(d))
    <3>1. marker' = marker
      BY <1>1, <2>7 DEF DStep, DBegin, LockStep, DSpawn, DRecord, DToolEnds, DSettle, DFail, DDone, DFailed, DDie, DWork
    <3>2. Working(d)' => Working(d) BY <1>0, <1>1, <2>7, PlainFlows DEF DStep
    <3> QED BY <2>3, <3>1, <3>2, NamedKeeps
  <2> QED BY <2>4, <2>5, <2>6, <2>7
<1>2. ASSUME NEW a \in Agent, AStep(a) PROVE NamedInv'
  BY <1>0, <1>2, <1>f, AgentEffects, NamedKeeps DEF OnlyKills
<1>3. ASSUME NEW o \in Operator, OStep(o) PROVE NamedInv'
  <2>1. SameDrills /\ (OnlyKills \/ Clears(o) \/ OSettle(o) \/ OPublish(o))
    BY <1>0, <1>3, OperatorEffects
  <2>2. CASE OnlyKills BY <2>1, <2>2, <1>f, NamedKeeps DEF OnlyKills
  <2>3. CASE Clears(o) \/ OSettle(o) \/ OPublish(o)
    BY <2>1, <2>3, <1>n, OperatorLocked DEF Three, SameDrills
  <2> QED BY <2>1, <2>2, <2>3
<1>4. CASE UNCHANGED vars
  BY <1>4, <1>f, NamedKeeps DEF vars, SameDrills
<1> QED BY <1>1, <1>2, <1>3, <1>4 DEF Next

-----------------------------------------------------------------------------
(* The tools of a drill. *)

LEMMA ToolKeeps ==
  ASSUME NEW d \in Drill, ToolAt(d), at'[d] = at[d], tool'[d] = tool[d], d \in rec' <=> d \in rec,
         d \in box' => d \in box, d \in lost => d \in lost'
  PROVE  ToolAt(d)'
BY DEF ToolAt

LEMMA StoppedIs ==
  ASSUME Data, NEW d \in Drill, Stopped(d)
  PROVE  /\ \A e \in Drill \ {d}: tool'[e] = tool[e] /\ (e \in rec' <=> e \in rec)
         /\ \/ tool'[d] = "none" /\ d \notin rec'
            \/ tool'[d] = "dying" /\ (d \in rec' <=> d \in rec)
BY DEF Data, Stopped

LEMMA ToolKills ==
  ASSUME Data, ToolInv, KillStep, SameDrills, box' = box, lost' = lost
  PROVE  ToolInv'
<1>1. CASE UNCHANGED <<tool, rec>>
  BY <1>1, ToolKeeps DEF SameDrills, ToolInv
<1>2. CASE \E d \in rec: Stopped(d)
  <2>1. PICK d \in rec: Stopped(d) BY <1>2
  <2>2. d \in Drill BY DEF Data
  <2>3. \A e \in Drill \ {d}: ToolAt(e)' BY <2>1, <2>2, StoppedIs, ToolKeeps DEF SameDrills, ToolInv
  <2>4. ToolAt(d)' BY <2>1, <2>2, StoppedIs DEF SameDrills, ToolInv, ToolAt
  <2> QED BY <2>3, <2>4 DEF ToolInv
<1> QED BY <1>1, <1>2 DEF KillStep

LEMMA DrillTool ==
  ASSUME Types, ToolInv, NEW d \in Drill, DStep(d)
  PROVE  ToolInv'
<1> USE Kinds
<1> d \in Proc OBVIOUS
<1>d. Data BY TypeParts
<1>t. tool \in [Drill -> {"none", "export", "later", "dying"}] BY <1>d DEF Data
<1>s. Solo(d) /\ ToolAt(d) BY DrillSolo DEF ToolInv
<1>o. ASSUME \A e \in Drill \ {d}: /\ tool'[e] = tool[e] /\ (e \in rec' <=> e \in rec)
                                  /\ (e \in box' => e \in box) /\ (e \in lost => e \in lost'),
             ToolAt(d)'
      PROVE  ToolInv'
  <2>1. \A e \in Drill \ {d}: ToolAt(e) /\ at'[e] = at[e] BY <1>s DEF ToolInv, Solo
  <2>2. \A e \in Drill \ {d}: ToolAt(e)' BY <1>o, <2>1, ToolKeeps
  <2> QED BY <1>o, <2>2 DEF ToolInv
<1>a. \A w: Goes(d, w) => at'[d] = w BY GoesLemma
<1>b. \A w: Leaves(d, w) => at'[d] = w BY LeavesLemma
<1> USE DEF Unpublished, Waits
<1>1. CASE DBegin(d) \/ LockStep(d) \/ DMark(d) \/ DPublish(d) \/ DName(d)
  <2>1. UNCHANGED <<tool, rec, box, lost>>
    BY <1>1 DEF DBegin, LockStep, DMark, DPublish, DName, work
  <2>2. at[d] \in Unpublished \cup {"waiting"}
    BY <1>1 DEF DBegin, LockStep, DMark, DPublish, DName
  <2>3. at'[d] \in Unpublished \cup {"waiting", "export", "clear"}
    <3>1. DBegin(d) => at'[d] = "root" BY BeginsLemma DEF DBegin
    <3>2. LockStep(d) => at'[d] \in {"producer", "locked", Idle} BY <1>b, LocksLemma DEF LockStep
    <3>3. DMark(d) \/ DPublish(d) \/ DName(d) => at'[d] \in {"marked", "waiting", "clear", "export", Idle}
      BY <1>a, <1>b DEF DMark, DPublish, DName
    <3> QED BY <1>1, <3>1, <3>2, <3>3
  <2>4. ToolAt(d)' BY <2>1, <2>2, <2>3, <1>s DEF ToolAt, Idle
  <2> QED BY <2>1, <2>4, <1>o
<1>2. CASE DSpawn(d)
  <2>1. /\ at[d] \in {"export", "next", "settled"} /\ at'[d] = "started" /\ UNCHANGED <<rec, box, lost>>
        /\ \A e \in Drill \ {d}: tool'[e] = tool[e]
    BY <1>2, <1>a, <1>t DEF DSpawn
  <2>2. d \notin rec BY <2>1, <1>s DEF ToolAt
  <2>3. ToolAt(d)' BY <2>1, <2>2 DEF ToolAt, Idle
  <2> QED BY <2>1, <2>3, <1>o
<1>3. CASE DRecord(d)
  <2>1. at[d] = "started" /\ d \notin rec /\ UNCHANGED <<box, lost>> BY <1>3, <1>s DEF DRecord, ToolAt
  <2>2. CASE /\ rec' = IF tool[d] = "none" THEN rec ELSE rec \cup {d}
             /\ at'[d] = "running" /\ UNCHANGED tool
    <3>1. ToolAt(d)' BY <2>1, <2>2, <1>s DEF ToolAt, Idle
    <3> QED BY <2>1, <2>2, <3>1, <1>o
  <2>3. CASE tool' = [tool EXCEPT ![d] = "none"] /\ at'[d] = "failed" /\ UNCHANGED rec
    <3>1. tool'[d] = "none" /\ \A e \in Drill \ {d}: tool'[e] = tool[e] BY <2>3, <1>t
    <3>2. ToolAt(d)' BY <2>1, <2>3, <3>1 DEF ToolAt, Idle
    <3> QED BY <2>1, <2>3, <3>1, <3>2, <1>o
  <2> QED BY <1>3, <1>a, <2>2, <2>3 DEF DRecord
<1>4. CASE DToolEnds(d)
  <2>1. at[d] = "running" /\ UNCHANGED <<box, lost>> BY <1>4 DEF DToolEnds
  <2>2. CASE tool[d] = "none" /\ UNCHANGED <<tool, rec>> /\ at'[d] \in {"settled", "next", "failed"}
    <3>1. ToolAt(d)' BY <2>1, <2>2, <1>s DEF ToolAt, Idle
    <3> QED BY <2>1, <2>2, <3>1, <1>o
  <2>3. CASE tool[d] # "none" /\ Stopped(d) /\ at'[d] = "failed"
    <3>1. ToolAt(d)' BY <2>1, <2>3, <1>d, <1>s, StoppedIs DEF ToolAt, Idle
    <3> QED BY <2>1, <2>3, <3>1, <1>d, <1>o, StoppedIs
  <2> QED BY <1>4, <1>a, <2>2, <2>3 DEF DToolEnds
<1>5. CASE DSettle(d)
  <2>1. /\ at[d] \in {"next", "failed"} /\ UNCHANGED <<tool, rec, lost>> /\ box' \subseteq box
        /\ at'[d] \in {"settled", "stopped", "failed"} /\ (at'[d] = "settled" => at[d] = "next")
    BY <1>5, <1>a DEF DSettle, Settled, NotSettled
  <2>2. ToolAt(d)' BY <2>1, <1>s DEF ToolAt, Idle
  <2> QED BY <2>1, <2>2, <1>o
<1>6. CASE DFail(d) \/ DDone(d) \/ DFailed(d)
  <2>1. UNCHANGED <<tool, rec, box, lost>> BY <1>6 DEF DFail, DDone, DFailed, work
  <2>2. at[d] \in {"waiting", "export", "next", "settled", "failed", "stopped"} /\ at'[d] \in {"failed", "stopped", "clear"}
    BY <1>6, <1>a DEF DFail, DDone, DFailed
  <2>3. ToolAt(d)' BY <2>1, <2>2, <1>s DEF ToolAt, Idle
  <2> QED BY <2>1, <2>3, <1>o
<1>7. CASE DClear(d)
  <2>1. UNCHANGED <<tool, rec, box, lost>> /\ at[d] = "clear" /\ at'[d] = "dead" BY <1>7, <1>b DEF DClear, work
  <2>2. ToolAt(d)' BY <2>1, <1>s DEF ToolAt, Idle
  <2> QED BY <2>1, <2>2, <1>o
<1>8. CASE DDie(d)
  <2>1. /\ UNCHANGED <<tool, rec, box>> /\ lost \subseteq lost' /\ (at[d] = "started" => d \in lost')
        /\ at'[d] = IF at[d] \in {"root", "producer", "locked"} THEN Idle ELSE "dead"
    BY <1>8, <1>b DEF DDie, work
  <2>2. ToolAt(d)' BY <2>1, <1>s DEF ToolAt, Idle
  <2> QED BY <2>1, <2>2, <1>o
<1>9. CASE DWork(d)
  <2>1. at'[d] = at[d] /\ UNCHANGED lost BY <1>9 DEF DWork
  <2>2. CASE tool' = [tool EXCEPT ![d] = "none"] /\ rec' = rec \ {d} /\ UNCHANGED box
    <3>1. tool'[d] = "none" /\ \A e \in Drill \ {d}: tool'[e] = tool[e] BY <2>2, <1>t
    <3>2. ToolAt(d)' BY <2>1, <2>2, <3>1, <1>s DEF ToolAt, Idle
    <3> QED BY <2>1, <2>2, <3>1, <3>2, <1>o
  <2>3. CASE tool[d] = "export" /\ box' = box \cup {d} /\ UNCHANGED <<tool, rec>>
    <3>1. ToolAt(d)' BY <2>1, <2>3, <1>s DEF ToolAt, Idle
    <3> QED BY <2>1, <2>3, <3>1, <1>o
  <2>4. CASE box' = box \ {d} /\ UNCHANGED <<tool, rec>>
    <3>1. ToolAt(d)' BY <2>1, <2>4, <1>s DEF ToolAt, Idle
    <3> QED BY <2>1, <2>4, <3>1, <1>o
  <2> QED BY <1>9, <2>2, <2>3, <2>4 DEF DWork
<1> QED BY <1>1, <1>2, <1>3, <1>4, <1>5, <1>6, <1>7, <1>8, <1>9 DEF DStep

LEMMA ToolNext ==
  ASSUME TypeOK, LockInv, ToolInv, [Next]_vars
  PROVE  ToolInv'
<1>0. Types /\ Data BY TypeParts DEF LockInv, Types
<1>1. ASSUME NEW d \in Drill, DStep(d) PROVE ToolInv' BY <1>0, <1>1, DrillTool
<1>2. ASSUME NEW a \in Agent, AStep(a) PROVE ToolInv'
  BY <1>0, <1>2, AgentEffects, ToolKills DEF OnlyKills
<1>3. ASSUME NEW o \in Operator, OStep(o) PROVE ToolInv'
  <2>1. SameDrills /\ (OnlyKills \/ Clears(o) \/ OSettle(o) \/ OPublish(o))
    BY <1>0, <1>3, OperatorEffects
  <2>2. CASE OnlyKills BY <1>0, <2>1, <2>2, ToolKills DEF OnlyKills
  <2>3. CASE Clears(o) \/ OSettle(o) \/ OPublish(o)
    <3>1. UNCHANGED <<tool, rec, lost>> /\ box' \subseteq box
      BY <2>3 DEF Clears, OSettle, OPublish, Settled, NotSettled, work
    <3> QED BY <2>1, <3>1, ToolKeeps DEF SameDrills, ToolInv
  <2> QED BY <2>1, <2>2, <2>3
<1>4. CASE UNCHANGED vars
  BY <1>4, ToolKeeps DEF vars, ToolInv
<1> QED BY <1>1, <1>2, <1>3, <1>4 DEF Next

-----------------------------------------------------------------------------
(* What outlives a drill. *)

Core == Types /\ LockInv /\ NamedInv /\ RecordInv /\ ToolInv /\ LeftInv

\* Work that outlives its drill is seen by whoever reads marker and record, except
\* between the start of a tool and its record, when the drill has the locks.
LEMMA LeftSeen ==
  ASSUME Core, NEW d \in Drill \ lost, Outlives(d), at[d] # "started"
  PROVE  /\ marker = d /\ latest[Home(d)].id = d /\ Home(d) \in Dir
         /\ Running(Home(d)) /\ MarkerWork = "live" /\ (GroupLeft(d) \/ d \in box)
<1>1. LeftAt(d) /\ ToolAt(d) BY DEF Core, LeftInv, ToolInv
<1>2. marker = d /\ latest[Home(d)].id = d BY <1>1 DEF LeftAt
<1>3. at[d] # Idle BY <1>1 DEF ToolAt, Outlives, Unpublished, Waits
<1>4. Home(d) \in Dir BY <1>3, Kinds, HomeType, TypeParts DEF Core
<1>5. GroupLeft(d) \/ d \in box BY <1>1 DEF ToolAt, Outlives, GroupLeft
<1>6. Running(Home(d)) BY <1>1, <1>2, <1>5 DEF LeftAt, Running
<1>7. marker # Nobody BY <1>2, Kinds
<1> QED BY <1>2, <1>4, <1>5, <1>6, <1>7 DEF MarkerWork

LEMMA LeftKeeps ==
  ASSUME NEW d \in Drill, LeftAt(d), ToolAt(d), marker' = marker,
         at[d] \notin Unpublished => cfg'[d] = cfg[d],
         latest'[Home(d)].id = latest[Home(d)].id, latest'[Home(d)].box = latest[Home(d)].box,
         Outlives(d)' => Outlives(d), d \in box' \/ tool'[d] = "export" => d \in box \/ tool[d] = "export"
  PROVE  LeftAt(d)'
<1>1. CASE ~Outlives(d)'
  <2>1. tool'[d] = "none" /\ d \notin box' BY <1>1 DEF Outlives
  <2> QED BY <1>1, <2>1 DEF LeftAt
<1>2. CASE Outlives(d)'
  <2>1. Outlives(d) BY <1>2
  <2>2. Home(d)' = Home(d) BY <2>1 DEF ToolAt, Outlives, Home
  <2> QED BY <2>1, <2>2 DEF LeftAt
<1> QED BY <1>1, <1>2

LEMMA NothingLeft ==
  ASSUME NEW d \in Drill, ~Outlives(d), tool'[d] = tool[d], d \in box' => d \in box
  PROVE  LeftAt(d)'
BY DEF Outlives, LeftAt

\* Steps of a process that works, or of an operator with the locks, which leave no
\* other drill's work behind.
LEMMA LeftKills ==
  ASSUME Core, OnlyKills, SameDrills
  PROVE  LeftInv'
<1>1. Data /\ lost' = lost BY TypeParts DEF Core, OnlyKills
<1>2. \A d \in Drill: tool'[d] = tool[d] \/ (tool[d] # "none" /\ tool'[d] \in {"none", "dying"})
  <2>1. CASE UNCHANGED <<tool, rec>> BY <2>1
  <2>2. CASE \E d \in rec: Stopped(d)
    <3>1. PICK d \in rec: Stopped(d) BY <2>2
    <3>2. d \in Drill /\ tool[d] # "none" BY <1>1, <3>1 DEF Data, Core, ToolInv, ToolAt
    <3> QED BY <1>1, <3>1, <3>2, StoppedIs
  <2> QED BY <2>1, <2>2 DEF OnlyKills, KillStep
<1>3. ASSUME NEW d \in Drill \ lost PROVE LeftAt(d)'
  <2>1. Outlives(d)' => Outlives(d) BY <1>2 DEF Outlives, OnlyKills
  <2>2. d \in box' \/ tool'[d] = "export" => d \in box \/ tool[d] = "export" BY <1>2 DEF OnlyKills
  <2>3. LeftAt(d) /\ ToolAt(d) BY DEF Core, LeftInv, ToolInv
  <2> QED BY <2>1, <2>2, <2>3, LeftKeeps DEF OnlyKills, SameDrills
<1> QED BY <1>1, <1>3 DEF LeftInv

LEMMA DrillLeft ==
  ASSUME Core, NEW d \in Drill, DStep(d)
  PROVE  LeftInv'
<1> USE Kinds
<1> d \in Proc OBVIOUS
<1>0. Types /\ Data /\ LockInv BY TypeParts DEF Core
<1>t. tool \in [Drill -> {"none", "export", "later", "dying"}] BY <1>0 DEF Data
<1>l. latest \in [Dir -> [id : Drill \cup {Nobody}, running : BOOLEAN, box : {"none", "left", "gone"}]]
  BY <1>0 DEF Data
<1>s. Solo(d) /\ Flows(d) BY <1>0, DrillSolo, DrillFlow
<1>p. \A e \in Drill: at[e] \notin Unpublished => cfg'[e] = cfg[e] BY <1>s DEF Flows, Solo
<1>e. \A e \in Drill \ lost: LeftAt(e) /\ ToolAt(e) BY DEF Core, LeftInv, ToolInv
<1>w. at[d] \notin Waits \cup {"dead"} =>
        /\ marker = d /\ "producer" \in held[d] /\ at[d] # Idle /\ Home(d) \in Dir
        /\ \A e \in Drill \ lost: e # d => ~Outlives(e)
  <2>1. SUFFICES ASSUME at[d] \notin Waits \cup {"dead"}
                 PROVE  /\ marker = d /\ "producer" \in held[d] /\ at[d] # Idle /\ Home(d) \in Dir
                        /\ \A e \in Drill \ lost: e # d => ~Outlives(e)
    OBVIOUS
  <2>2. marker = d BY <2>1 DEF Core, NamedInv, Working
  <2>3. "producer" \in held[d] BY <1>0, <2>1, WorkHolds DEF Working, Three
  <2>4. at[d] # Idle BY <2>1 DEF Waits
  <2>5. Home(d) \in Dir BY <1>0, <2>4, HomeType, TypeParts
  <2>6. \A e \in Drill \ lost: e # d => ~Outlives(e) BY <2>2, <1>e DEF LeftAt
  <2> QED BY <2>2, <2>3, <2>4, <2>5, <2>6
<1>g. lost \subseteq lost'
  BY DEF DStep, DBegin, LockStep, DMark, DPublish, DName, DSpawn, DRecord, DToolEnds, DSettle, DFail,
         DDone, DFailed, DClear, DDie, DWork
<1>q. (\A e \in Drill \ lost: LeftAt(e)') => LeftInv' BY <1>g DEF LeftInv
<1>1. CASE DBegin(d) \/ LockStep(d) \/ DRecord(d) \/ DToolEnds(d) \/ DFail(d) \/ DDie(d) \/ DWork(d)
  <2>1. latest' = latest /\ marker' = marker
    BY <1>1 DEF DBegin, LockStep, DRecord, DToolEnds, DFail, DDie, DWork
  <2>2. /\ \A e \in Drill: tool'[e] = tool[e] \/ (tool[e] # "none" /\ tool'[e] \in {"none", "dying"})
                         \/ tool'[e] = "none"
        /\ \A e \in box': e \in box \/ tool[e] = "export"
    <3>1. CASE DBegin(d) \/ LockStep(d) \/ DFail(d) \/ DDie(d)
      BY <3>1 DEF DBegin, LockStep, DFail, DDie, work
    <3>2. CASE DRecord(d) BY <3>2, <1>t DEF DRecord
    <3>3. CASE DToolEnds(d)
      <4>1. Stopped(d) => \A e \in Drill: tool'[e] = tool[e] \/ (e = d /\ tool'[e] \in {"none", "dying"})
        BY <1>0, StoppedIs
      <4> QED BY <3>3, <4>1 DEF DToolEnds
    <3>4. CASE DWork(d) BY <3>4, <1>t DEF DWork
    <3> QED BY <1>1, <3>1, <3>2, <3>3, <3>4
  <2>3. ASSUME NEW e \in Drill \ lost PROVE LeftAt(e)'
    <3>1. Outlives(e)' => Outlives(e) BY <2>2 DEF Outlives
    <3>2. e \in box' \/ tool'[e] = "export" => e \in box \/ tool[e] = "export" BY <2>2
    <3> QED BY <2>1, <3>1, <3>2, <1>e, <1>p, LeftKeeps
  <2> QED BY <2>3, <1>q
<1>2. CASE DMark(d)
  <2>1. at[d] = "locked" /\ latest' = latest /\ (marker' = marker \/ WriteMarker(d)) /\ UNCHANGED <<tool, box>>
    BY <1>0, <1>2, MarkFlows DEF DMark, work
  <2>2. "producer" \in held[d] BY <1>0, <2>1, WorkHolds DEF Three
  <2>3. CASE marker' = marker
    <3>1. ASSUME NEW e \in Drill \ lost PROVE LeftAt(e)'
      BY <2>1, <2>3, <1>e, <1>p, LeftKeeps DEF Outlives
    <3> QED BY <3>1, <1>q
  <2>4. CASE WriteMarker(d)
    <3>1. \A e \in Drill: at[e] # "started" BY <1>0, <2>1, <2>2, NoneWorks
    <3>2. \A e \in Drill \ lost: ~Outlives(e) BY <2>4, <3>1, LeftSeen DEF WriteMarker
    <3> QED BY <2>1, <3>2, <1>q, NothingLeft
  <2> QED BY <2>1, <2>3, <2>4
<1>3. CASE DPublish(d)
  <2>1. at[d] = "marked" /\ UNCHANGED <<tool, box>> BY <1>3 DEF DPublish, work
  <2>2. \A e \in Drill \ lost: e # d => ~Outlives(e) BY <2>1, <1>w DEF Waits, Idle
  <2>3. d \notin lost => ~Outlives(d) BY <2>1, <1>e DEF ToolAt, Outlives, Unpublished
  <2> QED BY <2>1, <2>2, <2>3, <1>q, NothingLeft
<1>4. CASE DName(d)
  <2>1. at[d] = "waiting" /\ UNCHANGED <<tool, box>> BY <1>4 DEF DName, work
  <2>2. \A e \in Drill \ lost: e # d => ~Outlives(e) BY <2>1, <1>w DEF Waits, Idle
  <2>3. d \notin lost => ~Outlives(d) BY <2>1, <1>e DEF ToolAt, Outlives
  <2> QED BY <2>1, <2>2, <2>3, <1>q, NothingLeft
<1>5. CASE DSpawn(d)
  <2>1. /\ at[d] \in {"export", "next", "settled"} /\ UNCHANGED <<latest, marker, rec, box>>
        /\ tool'[d] = IF at[d] = "export" THEN "export" ELSE "later"
        /\ \A e \in Drill \ {d}: tool'[e] = tool[e]
    BY <1>5, <1>t DEF DSpawn
  <2>2. \A e \in Drill \ lost: e # d => ~Outlives(e) BY <2>1, <1>w DEF Waits, Idle
  <2>3. at[d] \notin Ended /\ at[d] \notin Unpublished BY <2>1 DEF Ended, Unpublished, Waits, Idle
  <2>4. latest[Home(d)].id = d /\ (at[d] = "export" => latest[Home(d)].box = "left")
    BY <2>3 DEF Core, RecordInv
  <2>5. marker = d /\ Home(d)' = Home(d)
    BY <2>1, <2>3, <1>w, <1>p DEF Waits, Idle, Home
  <2>6. d \notin lost => LeftAt(d)'
    BY <2>1, <2>4, <2>5, <1>e DEF LeftAt
  <2>7. \A e \in Drill \ lost: e # d => LeftAt(e)' BY <2>1, <2>2, NothingLeft
  <2> QED BY <2>6, <2>7, <1>q
<1>6. CASE DSettle(d)
  <2>1. /\ at[d] \in {"next", "failed"} /\ UNCHANGED <<marker, tool, rec>> /\ box' \subseteq box
        /\ Settled(Home(d)) \/ NotSettled(Home(d))
    BY <1>6 DEF DSettle, Settled, NotSettled
  <2>2. \A e \in Drill \ lost: e # d => ~Outlives(e) BY <2>1, <1>w DEF Waits, Idle
  <2>3. at[d] \notin Ended BY <2>1 DEF Ended, Unpublished, Waits, Idle
  <2>4. latest[Home(d)].id = d BY <2>3 DEF Core, RecordInv
  <2>5. ASSUME d \notin lost PROVE LeftAt(d)'
    <3>1. CASE Settled(Home(d))
      <4>1. d \notin box' /\ tool'[d] \in {"none", "dying"}
        BY <2>1, <2>4, <2>5, <3>1, <1>e DEF Settled, ToolAt
      <4>2. \A h \in Dir: latest'[h].id = latest[h].id
        BY <1>0, <1>w, <2>1, <3>1, RecordWrites DEF Waits, Idle
      <4>3. Home(d) \in Dir /\ Home(d)' = Home(d) /\ marker = d
        BY <2>1, <2>3, <1>w, <1>p DEF Waits, Idle, Home, Ended
      <4> QED BY <2>1, <2>4, <4>1, <4>2, <4>3 DEF LeftAt, Outlives
    <3>2. CASE NotSettled(Home(d))
      BY <2>1, <2>5, <3>2, <1>e, <1>p, LeftKeeps DEF NotSettled, Outlives
    <3> QED BY <2>1, <3>1, <3>2
  <2>6. \A e \in Drill \ lost: e # d => LeftAt(e)' BY <2>1, <2>2, NothingLeft
  <2> QED BY <2>5, <2>6, <1>q
<1>7. CASE DDone(d) \/ DFailed(d)
  <2>1. /\ at[d] \in {"settled", "stopped"} /\ UNCHANGED <<marker, tool, box>>
        /\ Over(Home(d)) \/ UNCHANGED latest
    BY <1>7 DEF DDone, DFailed, work
  <2>2. Home(d) \in Dir BY <2>1, <1>w DEF Waits, Idle
  <2>3. \A h \in Dir: latest'[h].id = latest[h].id /\ latest'[h].box = latest[h].box
    BY <2>1, <2>2, <1>l DEF Over
  <2>4. ASSUME NEW e \in Drill \ lost PROVE LeftAt(e)'
    <3>1. CASE ~Outlives(e) BY <2>1, <3>1, NothingLeft
    <3>2. CASE Outlives(e)
      <4>1. at[e] # Idle BY <3>2, <1>e DEF ToolAt, Outlives, Unpublished, Waits
      <4>2. Home(e) \in Dir BY <1>0, <4>1, HomeType, TypeParts
      <4> QED BY <2>1, <2>3, <4>2, <1>e, <1>p, LeftKeeps DEF Outlives
    <3> QED BY <3>1, <3>2
  <2> QED BY <2>4, <1>q
<1>8. CASE DClear(d)
  <2>1. at[d] = "clear" /\ UNCHANGED <<latest, tool, box>> /\ ClearMarker(d, Home(d))
    BY <1>8 DEF DClear, work
  <2>2. \A e \in Drill \ lost: e # d => ~Outlives(e) BY <2>1, <1>w DEF Waits, Idle
  <2>3. d \notin lost /\ Outlives(d) => marker' = marker
    BY <2>1, LeftSeen DEF ClearMarker
  <2>4. d \notin lost /\ Outlives(d) => LeftAt(d)'
    BY <2>1, <2>3, <1>e, <1>p, LeftKeeps DEF Outlives
  <2> QED BY <2>1, <2>2, <2>4, <1>q, NothingLeft
<1> QED BY <1>1, <1>2, <1>3, <1>4, <1>5, <1>6, <1>7, <1>8 DEF DStep

LEMMA LeftNext ==
  ASSUME TypeOK, LockInv, NamedInv, RecordInv, ToolInv, LeftInv, FinishInv, [Next]_vars
  PROVE  LeftInv'
<1> USE Kinds
<1>0. Core /\ Types /\ Data BY TypeParts DEF Core, LockInv, Types
<1>l. latest \in [Dir -> [id : Drill \cup {Nobody}, running : BOOLEAN, box : {"none", "left", "gone"}]]
  BY <1>0 DEF Data
<1>e. \A e \in Drill \ lost: LeftAt(e) /\ ToolAt(e) BY DEF LeftInv, ToolInv
<1>1. ASSUME NEW d \in Drill, DStep(d) PROVE LeftInv' BY <1>0, <1>1, DrillLeft
<1>2. ASSUME NEW a \in Agent, AStep(a) PROVE LeftInv' BY <1>0, <1>2, AgentEffects, LeftKills
<1>3. ASSUME NEW o \in Operator, OStep(o) PROVE LeftInv'
  <2>1. SameDrills /\ (OnlyKills \/ Clears(o) \/ OSettle(o) \/ OPublish(o))
    BY <1>0, <1>3, OperatorEffects
  <2>2. CASE OnlyKills BY <1>0, <2>1, <2>2, LeftKills
  <2>3. CASE Clears(o) \/ OSettle(o) \/ OPublish(o)
    <3>1. /\ "producer" \in held[o] /\ at[o] # Idle /\ o \notin Drill
          /\ \A e \in Drill: at[e] # "started" /\ ~Working(e)
      BY <1>0, <2>3, OperatorLocked, NoneWorks DEF Three, Clears, OSettle, OPublish, Idle
    <3>2. Home(o) \in Dir BY <1>0, <3>1, HomeType, TypeParts
    <3>3. lost' = lost BY <1>3, OperatorJournal
    <3>4. ASSUME NEW e \in Drill \ lost PROVE LeftAt(e)'
      <4>1. tool' = tool /\ box' \subseteq box
        BY <2>3 DEF Clears, OSettle, OPublish, Settled, NotSettled, work
      <4>2. CASE ~Outlives(e) BY <4>1, <4>2, NothingLeft
      <4>3. CASE Outlives(e)
        <5>1. /\ marker = e /\ latest[Home(e)].id = e /\ Home(e) \in Dir
              /\ Running(Home(e)) /\ (GroupLeft(e) \/ e \in box)
          BY <1>0, <3>1, <4>3, LeftSeen
        <5>2. cfg'[e] = cfg[e] BY <2>1 DEF SameDrills
        <5>3. CASE Clears(o) BY <5>1, <5>3 DEF Clears, OClear
        <5>4. CASE OSettle(o)
          <6>1. at[o] = "settle" /\ marker' = marker BY <5>4 DEF OSettle
          <6>2. Quiet(latest[Home(o)].id) BY <6>1 DEF FinishInv, FinishAt, Idle
          <6>3. CASE UNCHANGED <<box, latest>> \/ NotSettled(Home(o))
            BY <4>1, <5>2, <6>1, <6>3, <1>e, LeftKeeps DEF NotSettled, Outlives
          <6>4. CASE Settled(Home(o)) /\ Home(e) = Home(o)
            <7>1. tool[e] # "export" BY <5>1, <6>2, <6>4 DEF Quiet
            <7>2. e \notin box' BY <5>1, <6>4 DEF Settled
            <7>3. latest'[Home(o)].id = e BY <5>1, <6>4, <1>0, <3>1, RecordWrites
            <7> QED BY <4>1, <5>1, <5>2, <6>1, <6>4, <7>1, <7>2, <7>3 DEF LeftAt, Home
          <6>5. CASE Settled(Home(o)) /\ Home(e) # Home(o)
            <7>1. latest'[Home(e)] = latest[Home(e)] BY <5>1, <6>5, <1>0, <3>1, RecordWrites
            <7> QED BY <4>1, <5>2, <6>1, <7>1, <1>e, LeftKeeps DEF Outlives
          <6> QED BY <5>4, <6>3, <6>4, <6>5 DEF OSettle
        <5>5. CASE OPublish(o)
          <6>1. \A h \in Dir: latest'[h].id = latest[h].id /\ latest'[h].box = latest[h].box
            BY <5>5, <3>2, <1>l DEF OPublish, Over
          <6>2. marker' = marker
            <7>1. CASE ClearMarker(latest[Home(o)].id, Home(o))
              <8>1. marker = latest[Home(o)].id => Home(o) = Home(e) BY <5>1, <3>2 DEF RecordInv
              <8> QED BY <5>1, <7>1, <8>1 DEF ClearMarker
            <7> QED BY <5>5, <7>1 DEF OPublish
          <6> QED BY <4>1, <5>1, <5>2, <6>1, <6>2, <1>e, LeftKeeps DEF Outlives
        <5> QED BY <2>3, <5>3, <5>4, <5>5
      <4> QED BY <4>2, <4>3
    <3> QED BY <3>3, <3>4 DEF LeftInv
  <2> QED BY <2>1, <2>2, <2>3
<1>4. CASE UNCHANGED vars
  BY <1>4 DEF vars, LeftInv, LeftAt, Outlives, Home
<1> QED BY <1>1, <1>2, <1>3, <1>4 DEF Next

-----------------------------------------------------------------------------
(* The operator who finishes a dead drill's record. *)

\* What every step keeps.
IdStays(h) == latest'[h].id = latest[h].id
Stays ==
  /\ \A x \in Drill: at[x] \notin Unpublished => at'[x] \notin Unpublished
  /\ \A x: Quiet(x) => Quiet(x)'
  /\ \A h \in Dir: IdStays(h) \/ \E d \in Drill: at[d] = "marked" /\ latest'[h].id = d

LEMMA QuietStays ==
  ASSUME Data, Types, SameDrills, KillStep, lost \subseteq lost'
  PROVE  \A x: Quiet(x) => Quiet(x)'
<1>1. CASE UNCHANGED <<tool, rec>> BY <1>1 DEF Quiet, SameDrills
<1>2. CASE \E d \in rec: Stopped(d)
  <2>1. PICK d \in rec: Stopped(d) BY <1>2
  <2>2. \A x \in Drill: tool'[x] = tool[x] \/ tool'[x] \in {"none", "dying"}
    BY <2>1, StoppedIs DEF Data
  <2> QED BY <2>2 DEF Quiet, SameDrills
<1> QED BY <1>1, <1>2 DEF KillStep

LEMMA DrillStays ==
  ASSUME Core, NEW d \in Drill, DStep(d)
  PROVE  Stays /\ lost \subseteq lost'
<1> USE Kinds
<1> d \in Proc OBVIOUS
<1>0. Types /\ Data BY TypeParts DEF Core
<1>t. tool \in [Drill -> {"none", "export", "later", "dying"}] BY <1>0 DEF Data
<1>s. Solo(d) /\ Flows(d) BY <1>0, DrillSolo, DrillFlow
<1>1. \A x \in Drill: at[x] \notin Unpublished => at'[x] \notin Unpublished
  BY <1>s DEF Flows, Solo
<1>g. lost \subseteq lost'
  BY DEF DStep, DBegin, LockStep, DMark, DPublish, DName, DSpawn, DRecord, DToolEnds, DSettle, DFail,
         DDone, DFailed, DClear, DDie, DWork
<1>2. \A x: Quiet(x) => Quiet(x)'
  <2>1. ASSUME NEW x \in Drill \ lost', at[x] \in {"clear", "dead"}, tool[x] # "export"
        PROVE  at'[x] \in {"clear", "dead"} /\ tool'[x] # "export"
    <3>1. at'[x] \in {"clear", "dead"} BY <2>1, <1>s DEF Flows, Solo
    <3>2. DSpawn(d) => tool'[x] = tool[x] BY <2>1, <1>t DEF DSpawn
    <3>3. DRecord(d) => tool'[x] \in {tool[x], "none"} BY <1>t DEF DRecord
    <3>4. DToolEnds(d) => tool'[x] \in {tool[x], "none", "dying"}
      BY <1>0, StoppedIs DEF DToolEnds
    <3>5. DWork(d) => tool'[x] \in {tool[x], "none"} BY <1>t DEF DWork
    <3>6. DBegin(d) \/ LockStep(d) \/ DMark(d) \/ DPublish(d) \/ DName(d) \/ DSettle(d) \/ DFail(d)
          \/ DDone(d) \/ DFailed(d) \/ DClear(d) \/ DDie(d) => tool' = tool
      BY DEF DBegin, LockStep, DMark, DPublish, DName, DSettle, DFail, DDone, DFailed, DClear, DDie, work
    <3> QED BY <2>1, <3>1, <3>2, <3>3, <3>4, <3>5, <3>6 DEF DStep
  <2> QED BY <2>1, <1>g DEF Quiet
<1>3. \A h \in Dir: IdStays(h) \/ \E e \in Drill: at[e] = "marked" /\ latest'[h].id = e
  <2>l. latest \in [Dir -> [id : Drill \cup {Nobody}, running : BOOLEAN, box : {"none", "left", "gone"}]]
    BY <1>0 DEF Data
  <2>1. CASE DPublish(d)
    BY <2>1, <2>l DEF DPublish, IdStays
  <2>2. CASE DName(d) BY <2>2, <2>l DEF DName, IdStays
  <2>3. CASE DSettle(d) \/ DDone(d) \/ DFailed(d)
    BY <1>0, <2>3, RecordWrites DEF DSettle, DDone, DFailed, IdStays, Idle
  <2>4. CASE ~(DPublish(d) \/ DName(d) \/ DSettle(d) \/ DDone(d) \/ DFailed(d))
    <3>1. latest' = latest
      BY <2>4 DEF DStep, DBegin, LockStep, DMark, DSpawn, DRecord, DToolEnds, DFail, DClear, DDie, DWork
    <3> QED BY <3>1 DEF IdStays
  <2> QED BY <2>1, <2>2, <2>3, <2>4
<1> QED BY <1>1, <1>2, <1>3, <1>g DEF Stays

LEMMA AgentStays ==
  ASSUME Core, NEW a \in Agent, AStep(a)
  PROVE  Stays /\ \A h \in Dir: IdStays(h)
<1>1. Types /\ Data /\ SameDrills /\ OnlyKills BY TypeParts, AgentEffects DEF Core
<1> QED BY <1>1, QuietStays DEF Stays, SameDrills, IdStays, OnlyKills

LEMMA OperatorStays ==
  ASSUME Core, NEW o \in Operator, OStep(o)
  PROVE  Stays /\ \A h \in Dir: IdStays(h)
<1>1. /\ Types /\ Data /\ SameDrills /\ (OnlyKills \/ Clears(o) \/ OSettle(o) \/ OPublish(o))
      /\ lost' = lost
  BY TypeParts, OperatorEffects, OperatorJournal DEF Core
<1>2. KillStep
  BY <1>1 DEF OnlyKills, KillStep, Clears, OSettle, OPublish, work
<1>3. \A h \in Dir: IdStays(h)
  <2>1. CASE OnlyKills \/ Clears(o) BY <2>1 DEF OnlyKills, Clears, IdStays
  <2>2. CASE OSettle(o) \/ OPublish(o)
    BY <1>1, <2>2, Kinds, RecordWrites DEF OSettle, OPublish, IdStays, Idle
  <2> QED BY <1>1, <2>1, <2>2
<1> QED BY <1>1, <1>2, <1>3, QuietStays DEF Stays, SameDrills

\* An operator who goes on with the same task, not to kill or to settle.
LEMMA FinishGoes ==
  ASSUME Types, NEW o \in Operator, FinishAt(o), Stays, task'[o] = task[o], cfg'[o] = cfg[o], at[o] # Idle,
         IdStays(Home(o)) \/ at[o] \notin {"kill", "killed", "settle"} \/ held[o] = {},
         at'[o] \in {"kill", "killed"} =>
           task[o].cmd = "cancel" /\ (held'[o] = {} \/ (Bound(o) /\ IdStays(Home(o)))),
         at'[o] = "settle" => Quiet(latest[Home(o)].id) /\ IdStays(Home(o))
  PROVE  FinishAt(o)'
<1>1. Home(o)' = Home(o) /\ Home(o) \in Dir BY Kinds, HomeType, TypeParts DEF Home
<1>2. task'[o].cmd \in {"cancel", "finish"} /\ task'[o].id \in Drill => at'[task'[o].id] \notin Unpublished
  BY DEF FinishAt, Stays
<1>3. at'[o] \in {"kill", "killed"} /\ held'[o] # {} => Bound(o)'
  BY <1>1 DEF Bound, IdStays
<1>4. task'[o].cmd = "finish" /\ Bound(o)' => Quiet(task[o].id)'
  <2>1. CASE IdStays(Home(o)) BY <1>1, <2>1 DEF FinishAt, Bound, IdStays, Stays
  <2>2. CASE ~IdStays(Home(o))
    <3>1. PICK d \in Drill: at[d] = "marked" /\ latest'[Home(o)].id = d BY <1>1, <2>2 DEF Stays
    <3>2. at[d] \in Unpublished BY <3>1 DEF Unpublished
    <3> QED BY <1>1, <3>1, <3>2 DEF FinishAt, Bound
  <2> QED BY <2>1, <2>2
<1>5. at'[o] = "settle" => Quiet(latest[Home(o)].id)'
  BY <1>1 DEF IdStays, Stays
<1> QED BY <1>2, <1>3, <1>4, <1>5 DEF FinishAt

LEMMA FinishIdle ==
  ASSUME NEW o \in Operator,
         \/ at'[o] = Idle
         \/ task'[o].cmd \notin {"cancel", "finish"} /\ at'[o] \notin {"kill", "killed", "settle"}
  PROVE  FinishAt(o)'
BY DEF FinishAt

LEMMA FinishOthers ==
  ASSUME Core, NEW p \in Proc, Solo(p), Stays, NEW o \in Operator, o # p, FinishAt(o)
  PROVE  FinishAt(o)'
<1>0. Types /\ LockInv BY DEF Core
<1>1. at'[o] = at[o] /\ held'[o] = held[o] /\ cfg'[o] = cfg[o] /\ task'[o] = task[o]
  BY Kinds DEF Solo
<1>2. CASE at[o] = Idle BY <1>1, <1>2 DEF FinishAt
<1>3. CASE at[o] # Idle
  <2>1. Home(o) \in Dir BY <1>0, <1>3, Kinds, HomeType, TypeParts
  <2>2. at[o] \in {"kill", "killed", "settle"} /\ held[o] # {} => IdStays(Home(o))
    <3>1. SUFFICES ASSUME at[o] \in {"kill", "killed", "settle"}, held[o] # {} PROVE IdStays(Home(o))
      OBVIOUS
    <3>2. "producer" \in held[o] BY <1>0, <3>1 DEF LockInv, Holding, OperatorHolds, Three
    <3>3. \A d \in Drill: at[d] # "marked"
      BY <1>0, <3>2, Kinds, NoneWorks DEF Working, Waits, Idle
    <3> QED BY <2>1, <3>3 DEF Stays
  <2>3. at[o] = "settle" => held[o] # {} BY <1>0 DEF LockInv, Holding, OperatorHolds, Three
  <2>4. IdStays(Home(o)) \/ at[o] \notin {"kill", "killed", "settle"} \/ held[o] = {}
    BY <2>2
  <2>5. at'[o] \in {"kill", "killed"} =>
          task[o].cmd = "cancel" /\ (held'[o] = {} \/ (Bound(o) /\ IdStays(Home(o))))
    BY <1>1, <1>3, <2>2 DEF FinishAt
  <2>6. at'[o] = "settle" => Quiet(latest[Home(o)].id) /\ IdStays(Home(o))
    BY <1>1, <1>3, <2>2, <2>3 DEF FinishAt
  <2> QED BY <1>0, <1>1, <1>3, <2>4, <2>5, <2>6, FinishGoes
<1> QED BY <1>2, <1>3

\* A recorded drill whose process and group are gone starts nothing more.
LEMMA QuietThen ==
  ASSUME Core, NEW o \in Operator, at[o] = "killed", ~GroupLeft(latest[Home(o)].id),
         ~(latest[Home(o)].running /\ Alive(latest[Home(o)].id))
  PROVE  Quiet(latest[Home(o)].id)
<1> DEFINE x == latest[Home(o)].id
<1>1. SUFFICES ASSUME x \in Drill \ lost PROVE at[x] \in {"clear", "dead"} /\ tool[x] # "export"
  BY DEF Quiet
<1>2. Home(o) \in Dir BY Kinds, HomeType, TypeParts DEF Core, Idle
<1>3. at[x] \notin Unpublished /\ Home(x) = Home(o) BY <1>1, <1>2 DEF Core, RecordInv
<1>4. at[x] \in {"clear", "dead"}
  <2>1. SUFFICES ASSUME at[x] \notin Ended PROVE FALSE BY <1>3 DEF Ended
  <2>2. latest[Home(o)].running BY <1>1, <1>3, <2>1 DEF Core, RecordInv
  <2>3. Alive(x) BY <1>1, <1>3, <2>1 DEF Alive, Ended, Unpublished, Waits
  <2> QED BY <2>2, <2>3
<1>5. tool[x] # "export"
  BY <1>1, <1>4 DEF Core, ToolInv, ToolAt, GroupLeft
<1> QED BY <1>4, <1>5

LEMMA OperatorFinish ==
  ASSUME Core, NEW o \in Operator, FinishAt(o), OStep(o)
  PROVE  FinishAt(o)'
<1> USE Kinds
<1> o \in Proc OBVIOUS
<1>0. Types /\ LockInv BY DEF Core
<1>s. Stays /\ \A h \in Dir: IdStays(h) BY OperatorStays
<1>i. at[o] # Idle => IdStays(Home(o)) BY <1>0, <1>s, HomeType, TypeParts
<1>a. \A w: Goes(o, w) => at'[o] = w /\ held' = held /\ cfg'[o] = cfg[o] /\ task'[o] = task[o]
  BY <1>0, GoesLemma
<1>b. Leaves(o, Idle) => FinishAt(o)' BY <1>0, LeavesLemma, FinishIdle
<1>g. ASSUME NEW w, Goes(o, w), at[o] # Idle, 
             w \in {"kill", "killed"} => task[o].cmd = "cancel" /\ (held[o] = {} \/ Bound(o)),
             w = "settle" => Quiet(latest[Home(o)].id)
      PROVE  FinishAt(o)'
  BY <1>0, <1>s, <1>i, <1>a, <1>g, FinishGoes
<1>1. CASE OCancel(o)
  <2>1. PICK c \in Uses[o]:
       LET l == latest[DirOf[c]]  t == [cmd |-> "cancel", id |-> l.id]
       IN  IF l.running /\ Alive(l.id)
           THEN /\ at' = [at EXCEPT ![o] = "kill"] /\ cfg' = [cfg EXCEPT ![o] = c]
                /\ task' = [task EXCEPT ![o] = t] /\ UNCHANGED held
           ELSE Begins(o, c, t)
    BY <1>1 DEF OCancel
  <2> DEFINE t == [cmd |-> "cancel", id |-> latest[DirOf[c]].id]
  <2>2. c \in Config /\ DirOf[c] \in Dir BY DrillAssumption
  <2>3. t.id \in Drill => at[t.id] \notin Unpublished BY <2>2 DEF Core, RecordInv
  <2>4. t.id \in Drill => at'[t.id] \notin Unpublished BY <2>3, <1>s DEF Stays
  <2>5. at'[o] \in {"kill", "root"} /\ task'[o] = t /\ (at'[o] = "kill" => held'[o] = {})
    <3>1. CASE Begins(o, c, t) BY <1>0, <2>2, <3>1, BeginsLemma
    <3>2. CASE /\ at' = [at EXCEPT ![o] = "kill"] /\ cfg' = [cfg EXCEPT ![o] = c]
               /\ task' = [task EXCEPT ![o] = t] /\ UNCHANGED held
      <4>1. held[o] = {} BY <1>0, <1>1 DEF OCancel, LockInv, Holding, OperatorHolds
      <4> QED BY <1>0, <3>2, <4>1 DEF Types, Places
    <3> QED BY <2>1, <3>1, <3>2
  <2> QED BY <2>4, <2>5 DEF FinishAt
<1>2. CASE OBegin(o)
  <2>1. \A t: \A c \in Config: Begins(o, c, t) => at'[o] = "root" /\ task'[o] = t BY <1>0, BeginsLemma
  <2>2. at'[o] = "root" /\ task'[o].cmd \in {"clear", "loop"}
    BY <1>2, <2>1, DrillAssumption DEF OBegin
  <2> QED BY <2>2, FinishIdle
<1>3. CASE LockStep(o)
  <2>1. CASE Leaves(o, Idle) BY <2>1, <1>b
  <2>2. ASSUME NEW l \in {"root", "producer"}, NEW w \in {"producer", "locked"}, at[o] = l, Locks(o, l, w)
        PROVE  FinishAt(o)'
    <3>1. at'[o] = w /\ task'[o] = task[o] /\ cfg'[o] = cfg[o] /\ at[o] # Idle
      BY <1>0, <2>2, LocksLemma DEF Idle
    <3> QED BY <1>0, <1>s, <1>i, <3>1, FinishGoes
  <2> QED BY <1>3, <2>1, <2>2 DEF LockStep
<1>4. CASE OUnlocked(o)
  BY <1>4, <1>g DEF OUnlocked, Idle
<1>5. CASE OLocked(o)
  <2>1. at[o] = "locked" /\ at[o] # Idle BY <1>5 DEF OLocked, Idle
  <2>2. CASE task[o].cmd = "cancel" /\ Bound(o) /\ Goes(o, "kill") BY <2>1, <2>2, <1>g
  <2>3. CASE task[o].cmd = "finish" /\ Bound(o) /\ Goes(o, "settle")
    <3>1. Quiet(latest[Home(o)].id) BY <2>1, <2>3 DEF FinishAt, Bound
    <3> QED BY <2>1, <2>3, <3>1, <1>g
  <2>4. CASE OClear(o) BY <2>4, <1>b DEF OClear
  <2>5. CASE OLoop(o) BY <2>1, <2>5, <1>g DEF OLoop
  <2> QED BY <1>5, <2>2, <2>3, <2>4, <2>5 DEF OLocked
<1>6. CASE OKill(o)
  <2>1. at[o] = "kill" /\ (Leaves(o, Idle) \/ Goes(o, "killed")) BY <1>6 DEF OKill
  <2>2. CASE Goes(o, "killed")
    <3>1. task[o].cmd = "cancel" /\ (held[o] = {} \/ Bound(o)) BY <2>1 DEF FinishAt, Idle
    <3> QED BY <2>1, <2>2, <3>1, <1>g DEF Idle
  <2> QED BY <2>1, <2>2, <1>b
<1>7. CASE OKilled(o)
  <2> DEFINE l == latest[Home(o)]
             left == GroupLeft(task[o].id) \/ (l.running /\ Alive(l.id))
  <2>1. at[o] = "killed" /\ at[o] # Idle BY <1>7 DEF OKilled, Idle
  <2>2. ~left /\ l.id = task[o].id => Quiet(l.id) BY <2>1, QuietThen
  <2>3. CASE ~left /\ held[o] # {} /\ Goes(o, "settle")
    <3>1. Bound(o) BY <2>1, <2>3 DEF FinishAt
    <3> QED BY <2>1, <2>2, <2>3, <3>1, <1>g DEF Bound
  <2>4. CASE ~left /\ held[o] = {} /\ Begins(o, cfg[o], [task[o] EXCEPT !.cmd = "finish"])
    <3> DEFINE t == [task[o] EXCEPT !.cmd = "finish"]
    <3>1. cfg[o] \in Config /\ Home(o) \in Dir BY <1>0, <2>1, HomeType, TypeParts
    <3>2. at'[o] = "root" /\ task'[o] = t /\ cfg'[o] = cfg[o] BY <1>0, <2>4, <3>1, BeginsLemma
    <3>3. task[o] \in Tasks BY <1>0 DEF Types, Places
    <3>4. t.id = task[o].id BY <3>3 DEF Tasks
    <3>5. task[o].id \in Drill => at'[task[o].id] \notin Unpublished
      <4>1. SUFFICES ASSUME task[o].id \in Drill PROVE at[task[o].id] \notin Unpublished
        BY <1>s DEF Stays
      <4> QED BY <2>1, <4>1, <1>0 DEF FinishAt, LockInv, Holding, OperatorHolds
    <3>6. Home(o)' = Home(o) BY <3>2 DEF Home
    <3>7. PICK x: x = task[o].id OBVIOUS
    <3>8. task'[o].id = x BY <3>2, <3>4, <3>7
    <3>9. Bound(o)' => Quiet(x)'
      <4>1. SUFFICES ASSUME latest[Home(o)].id = x PROVE Quiet(x)'
        BY <2>1, <3>6, <3>8, <1>i DEF Bound, IdStays
      <4> QED BY <2>2, <2>4, <3>7, <4>1, <1>s DEF Stays
    <3> QED BY <3>2, <3>5, <3>7, <3>8, <3>9 DEF FinishAt
  <2> QED BY <1>7, <2>3, <2>4, <1>b DEF OKilled
<1>8. CASE OSettle(o)
  BY <1>8, <1>b, <1>g DEF OSettle, Idle
<1>9. CASE OPublish(o)
  BY <1>9, <1>b, <1>g DEF OPublish, Idle
<1>10. CASE OEnd(o) BY <1>10, <1>b DEF OEnd
<1> QED BY <1>1, <1>2, <1>3, <1>4, <1>5, <1>6, <1>7, <1>8, <1>9, <1>10 DEF OStep

LEMMA FinishNext ==
  ASSUME TypeOK, LockInv, NamedInv, RecordInv, ToolInv, LeftInv, FinishInv, [Next]_vars
  PROVE  FinishInv'
<1> USE Kinds
<1>0. Core /\ Types BY DEF Core, LockInv, Types
<1>1. ASSUME NEW d \in Drill, DStep(d) PROVE FinishInv'
  <2>1. Solo(d) /\ Stays BY <1>0, <1>1, DrillSolo, DrillStays
  <2>2. \A o \in Operator: o # d OBVIOUS
  <2> QED BY <1>0, <2>1, <2>2, FinishOthers DEF FinishInv
<1>2. ASSUME NEW a \in Agent, AStep(a) PROVE FinishInv'
  <2>1. Solo(a) /\ Stays BY <1>0, <1>2, AgentSolo, AgentStays
  <2>2. \A o \in Operator: o # a OBVIOUS
  <2> QED BY <1>0, <2>1, <2>2, FinishOthers DEF FinishInv
<1>3. ASSUME NEW o \in Operator, OStep(o) PROVE FinishInv'
  <2>1. Solo(o) /\ Stays BY <1>0, <1>3, OperatorSolo, OperatorStays
  <2>2. FinishAt(o)' BY <1>0, <1>3, OperatorFinish DEF FinishInv
  <2>3. \A q \in Operator: q # o => FinishAt(q)' BY <1>0, <2>1, FinishOthers DEF FinishInv
  <2> QED BY <2>2, <2>3 DEF FinishInv
<1>4. CASE UNCHANGED vars
  BY <1>4 DEF vars, FinishInv, FinishAt, Bound, Home, Quiet
<1> QED BY <1>1, <1>2, <1>3, <1>4 DEF Next

-----------------------------------------------------------------------------
(* The ceremony and the reset. *)

\* Next to a process with the producer's lock no work appears, and what is left
\* stays under its directory.
NoMore == \A d \in Drill \ lost': Outlives(d)' => d \notin lost /\ Outlives(d) /\ Home(d)' = Home(d)

LEMMA KeptUnder ==
  ASSUME NoMore
  PROVE  (\A h: NoneUnder(h) => NoneUnder(h)') /\ (NoneLeft => NoneLeft')
BY DEF NoMore, NoneUnder, NoneLeft

LEMMA DrillMore ==
  ASSUME Core, NEW p \in Proc \ Drill, "producer" \in held[p], NEW d \in Drill, DStep(d)
  PROVE  NoMore
<1> USE Kinds
<1>0. Types /\ Data /\ LockInv BY TypeParts DEF Core
<1>t. tool \in [Drill -> {"none", "export", "later", "dying"}] BY <1>0 DEF Data
<1>s. Solo(d) /\ Flows(d) BY <1>0, DrillSolo, DrillFlow
<1>g. lost \subseteq lost' BY DrillStays
<1>1. ~Working(d) BY <1>0, NoneWorks
<1>2. ASSUME NEW e \in Drill, Outlives(e)' PROVE Outlives(e)
  <2>1. \/ DBegin(d) \/ LockStep(d) \/ DMark(d) \/ DDie(d) \/ DWork(d)
    BY <1>1 DEF DStep, DPublish, DName, DSpawn, DRecord, DToolEnds, DSettle, DFail, DDone, DFailed, DClear,
                Working, Waits, Idle
  <2>2. CASE DBegin(d) \/ LockStep(d) \/ DMark(d) \/ DDie(d)
    BY <1>2, <2>2 DEF DBegin, LockStep, DMark, DDie, work, Outlives
  <2>3. CASE DWork(d) BY <1>2, <1>t, <2>3 DEF DWork, Outlives
  <2> QED BY <2>1, <2>2, <2>3
<1>3. ASSUME NEW e \in Drill, Outlives(e) PROVE Home(e)' = Home(e)
  <2>1. at[e] \notin Unpublished BY <1>3 DEF Core, ToolInv, ToolAt, Outlives
  <2> QED BY <2>1, <1>s DEF Flows, Solo, Home
<1> QED BY <1>2, <1>3, <1>g DEF NoMore

LEMMA OtherMore ==
  ASSUME Core, SameDrills, KillStep, box' \subseteq box, lost' = lost
  PROVE  NoMore
<1>1. Data BY TypeParts DEF Core
<1>2. \A e \in Drill: tool'[e] = tool[e] \/ tool[e] # "none"
  <2>1. CASE UNCHANGED <<tool, rec>> BY <2>1
  <2>2. CASE \E d \in rec: Stopped(d)
    <3>1. PICK d \in rec: Stopped(d) BY <2>2
    <3>2. d \in Drill /\ tool[d] # "none" BY <1>1 DEF Data, Core, ToolInv, ToolAt
    <3> QED BY <1>1, <3>1, <3>2, StoppedIs
  <2> QED BY <2>1, <2>2 DEF KillStep
<1> QED BY <1>2 DEF NoMore, Outlives, SameDrills, Home

LEMMA OperatorMore ==
  ASSUME Core, NEW o \in Operator, OStep(o) PROVE NoMore
<1>1. SameDrills /\ (OnlyKills \/ Clears(o) \/ OSettle(o) \/ OPublish(o)) /\ lost' = lost
  BY OperatorEffects, OperatorJournal DEF Core
<1>2. KillStep /\ box' \subseteq box
  BY <1>1 DEF OnlyKills, KillStep, Clears, OSettle, OPublish, Settled, NotSettled, work
<1> QED BY <1>1, <1>2, OtherMore

\* What a step of another process leaves of what p has found.
LEMMA CutOthers ==
  ASSUME Core, NEW q \in Proc, Solo(q), NEW p \in Agent \cup Operator, p # q, CutAt(p),
         "producer" \in held[p] => NoMore, p \in early' => p \in early
  PROVE  CutAt(p)'
<1>1. at'[p] = at[p] /\ held'[p] = held[p] /\ Home(p)' = Home(p) BY Kinds DEF Solo, Home
<1> QED BY <1>1, KeptUnder DEF CutAt

\* A ceremony that began before its freeze may go to cut what it found free.
LEMMA AgentCut ==
  ASSUME Core, CutInv, NEW a \in Agent, AStep(a)
  PROVE  CutAt(a)' /\ (a \in early' => at'[a] # "wait") /\ early' \subseteq early \cup {a}
<1> USE Kinds
<1> a \in Proc OBVIOUS
<1>0. Types /\ LockInv BY DEF Core
<1>c. CutAt(a) /\ (a \in early => at[a] # "wait") BY DEF CutInv
<1>a. \A w: Goes(a, w) => at'[a] = w /\ held' = held /\ cfg'[a] = cfg[a] /\ early' = early
  BY <1>0, GoesLemma
<1>b. ASSUME Leaves(a, Idle)
      PROVE  CutAt(a)' /\ (a \in early' => at'[a] # "wait") /\ early' \subseteq early \cup {a}
  <2>1. held'[a] = {} /\ early' = early \ {a} BY <1>0, <1>b, LeavesLemma
  <2> QED BY <2>1 DEF CutAt
<1>1. CASE ABegin(a)
  <2>1. held'[a] = {"journal"} /\ at'[a] = "root" BY <1>0, <1>1, BeginsLemma, DrillAssumption DEF ABegin
  <2>2. early' \subseteq early \cup {a} BY <1>1 DEF ABegin
  <2> QED BY <2>1, <2>2 DEF CutAt
<1>2. CASE ALock(a)
  <2>1. Leaves(a, Idle) \/ (at'[a] \in {"producer", "marker"} /\ early' = early)
    BY <1>0, <1>2, <1>a, LocksLemma DEF ALock, Refuses, GoesOn
  <2> QED BY <2>1, <1>b DEF CutAt
<1>3. CASE AMarker(a)
  <2>1. CASE Refuses(a) BY <2>1, <1>b DEF Refuses
  <2>2. CASE a \notin early /\ GoesOn(a, "activity")
    BY <2>2, <1>a DEF GoesOn, CutAt
  <2>3. CASE ~ForeignBlocker(a) /\ GoesOn(a, "activity") /\ UNCHANGED work
    <3>1. /\ at'[a] = "activity" /\ held' = held /\ cfg'[a] = cfg[a] /\ early' = early
          /\ SameDrills /\ OnlyKills
      BY <1>0, <2>3, <1>a, AgentEffects DEF GoesOn
    <3>2. ASSUME "producer" \in held[a] PROVE NoneUnder(Home(a))
      <4>1. \A d \in Drill: at[d] # "started" BY <1>0, <3>2, NoneWorks
      <4>2. ASSUME NEW d \in Drill \ lost, Outlives(d) PROVE Home(d) = Home(a)
        BY <4>1, <4>2, <2>3, LeftSeen DEF ForeignBlocker
      <4> QED BY <4>2 DEF NoneUnder
    <3>3. NoneUnder(Home(a)) => NoneUnder(Home(a))'
      <4>1. Home(a)' = Home(a) BY <3>1 DEF Home
      <4>2. NoMore BY <3>1, OtherMore DEF OnlyKills
      <4> QED BY <4>1, <4>2 DEF NoMore, NoneUnder
    <3> QED BY <3>1, <3>2, <3>3 DEF CutAt
  <2> QED BY <1>3, <2>1, <2>2, <2>3 DEF AMarker
<1>4. CASE AActivity(a)
  <2>1. CASE Refuses(a) BY <2>1, <1>b DEF Refuses
  <2>2. CASE a \notin early /\ GoesOn(a, "wait")
    BY <2>2, <1>a DEF GoesOn, CutAt
  <2>3. CASE ~Running(Home(a)) /\ GoesOn(a, "armed") /\ UNCHANGED work
    <3>1. /\ at'[a] = "armed" /\ held' = held /\ cfg'[a] = cfg[a] /\ early' = early
          /\ SameDrills /\ OnlyKills
      BY <1>0, <2>3, <1>a, AgentEffects DEF GoesOn
    <3>2. ASSUME "producer" \in held[a], a \in early PROVE NoneLeft
      <4>1. \A d \in Drill: at[d] # "started" BY <1>0, <3>2, NoneWorks
      <4>2. NoneUnder(Home(a)) BY <1>4, <3>2, <1>c DEF CutAt, AActivity
      <4> QED BY <4>1, <4>2, <2>3, LeftSeen DEF NoneLeft, NoneUnder
    <3>3. NoneLeft => NoneLeft' BY <3>1, OtherMore, KeptUnder DEF OnlyKills
    <3> QED BY <3>1, <3>2, <3>3 DEF CutAt
  <2> QED BY <1>4, <2>1, <2>2, <2>3 DEF AActivity
<1>5. CASE AWait(a)
  <2>1. at'[a] = "armed" /\ early' = early /\ a \notin early
    BY <1>0, <1>5, <1>c DEF AWait, Types, Places
  <2> QED BY <2>1 DEF CutAt
<1>6. CASE AFreeze(a)
  <2>1. /\ at[a] = "armed" /\ at'[a] = "cut" /\ held' = held /\ early' = early /\ SameDrills /\ OnlyKills
    BY <1>0, <1>6, <1>a, AgentEffects DEF AFreeze
  <2>2. NoneLeft => NoneLeft' BY <2>1, OtherMore, KeptUnder DEF OnlyKills
  <2> QED BY <2>1, <2>2, <1>c DEF CutAt
<1>7. CASE AEnd(a) BY <1>7, <1>b DEF AEnd
<1> QED BY <1>1, <1>2, <1>3, <1>4, <1>5, <1>6, <1>7 DEF AStep

LEMMA OperatorCut ==
  ASSUME Core, CutInv, NEW o \in Operator, OStep(o)
  PROVE  CutAt(o)' /\ early' \subseteq early
<1> USE Kinds
<1> o \in Proc /\ o \notin Agent OBVIOUS
<1>0. Types /\ LockInv BY DEF Core
<1>n. early \subseteq Agent BY <1>0 DEF Types, TypeOK
<1>a. \A w: Goes(o, w) => at'[o] = w /\ held' = held /\ early' = early BY <1>0, GoesLemma
<1>b. Leaves(o, Idle) => at'[o] = Idle /\ early' \subseteq early BY <1>0, LeavesLemma
<1>o. ASSUME at'[o] # "reset", early' \subseteq early PROVE CutAt(o)' /\ early' \subseteq early
  BY <1>n, <1>o DEF CutAt
<1>1. CASE OLocked(o)
  <2>1. CASE OLoop(o)
    <3>1. at[o] = "locked" /\ at'[o] = "reset" /\ held' = held /\ early' = early
      BY <1>1, <2>1, <1>a DEF OLoop, OLocked
    <3>2. ASSUME "producer" \in held[o] PROVE NoneLeft
      <4>1. \A d \in Drill: at[d] # "started" BY <1>0, <3>2, NoneWorks
      <4> QED BY <4>1, <2>1, LeftSeen DEF OLoop, ForeignBlocker, NoneLeft
    <3>3. NoneLeft => NoneLeft' BY OperatorMore, KeptUnder
    <3> QED BY <1>n, <3>1, <3>2, <3>3 DEF CutAt
  <2>2. CASE OClear(o) BY <2>2, <1>b, <1>o DEF OClear, Idle
  <2>3. CASE Goes(o, "kill") \/ Goes(o, "settle") BY <2>3, <1>a, <1>o
  <2> QED BY <1>1, <2>1, <2>2, <2>3 DEF OLocked
<1>2. CASE OCancel(o)
  <2>1. at'[o] \in {"kill", "root"} BY <1>0, <1>2 DEF OCancel, Begins, Types, Places
  <2>2. early' = early BY <1>2 DEF OCancel
  <2> QED BY <2>1, <2>2, <1>o
<1>3. CASE OBegin(o)
  <2>1. at'[o] = "root" BY <1>0, <1>3 DEF OBegin, Begins, Types, Places
  <2>2. early' = early BY <1>3 DEF OBegin
  <2> QED BY <2>1, <2>2, <1>o
<1>4. CASE LockStep(o)
  <2>1. at'[o] \in {"producer", "locked", Idle} /\ early' \subseteq early
    BY <1>0, <1>4, <1>b, LocksLemma DEF LockStep
  <2> QED BY <2>1, <1>o DEF Idle
<1>5. CASE OKilled(o)
  <2>1. at'[o] \in {"root", "settle", Idle} /\ early' \subseteq early
    BY <1>0, <1>5, <1>a, <1>b DEF OKilled, Begins, Types, Places
  <2> QED BY <2>1, <1>o DEF Idle
<1>6. CASE OUnlocked(o) \/ OKill(o) \/ OSettle(o) \/ OPublish(o) \/ OEnd(o)
  <2>1. at'[o] \in {"locked", "killed", "publish", "clear", Idle} /\ early' \subseteq early
    BY <1>6, <1>a, <1>b DEF OUnlocked, OKill, OSettle, OPublish, OEnd
  <2> QED BY <2>1, <1>o DEF Idle
<1> QED BY <1>1, <1>2, <1>3, <1>4, <1>5, <1>6 DEF OStep

LEMMA CutNext ==
  ASSUME TypeOK, LockInv, NamedInv, RecordInv, ToolInv, LeftInv, FinishInv, CutInv, [Next]_vars
  PROVE  CutInv'
<1> USE Kinds
<1>0. Core /\ Types BY DEF Core, LockInv, Types
<1>c. \A p \in Agent \cup Operator: CutAt(p) BY DEF CutInv
<1>1. ASSUME NEW d \in Drill, DStep(d) PROVE CutInv'
  <2>1. Solo(d) BY <1>0, <1>1, DrillSolo
  <2>2. early' \subseteq early
    BY <1>1 DEF DStep, DBegin, LockStep, DMark, DPublish, DName, DSpawn, DRecord, DToolEnds, DSettle, DFail,
                DDone, DFailed, DClear, DDie, DWork, Goes, Leaves, Locks, whose
  <2>3. ASSUME NEW p \in Agent \cup Operator PROVE CutAt(p)'
    <3>1. p # d /\ p \in Proc \ Drill OBVIOUS
    <3>2. "producer" \in held[p] => NoMore BY <1>0, <1>1, <3>1, DrillMore
    <3> QED BY <1>0, <1>c, <2>1, <2>2, <3>1, <3>2, CutOthers
  <2>4. \A a \in early': at'[a] # "wait"
    BY <2>1, <2>2, <1>0 DEF CutInv, Solo, Types, TypeOK
  <2> QED BY <2>3, <2>4 DEF CutInv
<1>2. ASSUME NEW a \in Agent, AStep(a) PROVE CutInv'
  <2>1. Solo(a) /\ SameDrills /\ OnlyKills BY <1>0, <1>2, AgentSolo, AgentEffects
  <2>2. CutAt(a)' /\ (a \in early' => at'[a] # "wait") /\ early' \subseteq early \cup {a}
    BY <1>0, <1>2, AgentCut
  <2>3. NoMore BY <1>0, <2>1, OtherMore DEF OnlyKills
  <2>4. \A p \in Agent \cup Operator: p # a => CutAt(p)'
    BY <1>0, <1>c, <2>1, <2>2, <2>3, CutOthers
  <2>5. \A b \in early': at'[b] # "wait"
    BY <2>1, <2>2, <1>0 DEF CutInv, Solo, Types, TypeOK
  <2> QED BY <2>2, <2>4, <2>5 DEF CutInv
<1>3. ASSUME NEW o \in Operator, OStep(o) PROVE CutInv'
  <2>1. Solo(o) /\ NoMore BY <1>0, <1>3, OperatorSolo, OperatorMore
  <2>2. CutAt(o)' /\ early' \subseteq early BY <1>0, <1>3, OperatorCut
  <2>3. \A p \in Agent \cup Operator: p # o => CutAt(p)'
    BY <1>0, <1>c, <2>1, <2>2, CutOthers
  <2>4. \A b \in early': at'[b] # "wait"
    BY <2>1, <2>2, <1>0 DEF CutInv, Solo, Types, TypeOK
  <2> QED BY <2>2, <2>3, <2>4 DEF CutInv
<1>4. CASE UNCHANGED vars
  BY <1>4 DEF vars, CutInv, CutAt, NoneUnder, NoneLeft, Outlives, Home
<1> QED BY <1>1, <1>2, <1>3, <1>4 DEF Next

-----------------------------------------------------------------------------
LEMMA InitInv == Init => IInv
<1> USE Kinds DEF Init
<1> SUFFICES ASSUME Init PROVE IInv OBVIOUS
<1>1. TypeOK BY DEF TypeOK, NoRecord
<1>2. \A p \in Proc: at[p] = Idle /\ held[p] = {} /\ task[p] = NoTask OBVIOUS
<1>3. LockInv
  <2>1. /\ Idle \in AllPlaces /\ Idle \in DrillPlaces /\ Idle \in AgentPlaces /\ Idle \in OperatorPlaces
        /\ NoTask \in Tasks
    BY DEF AllPlaces, DrillPlaces, AgentPlaces, OperatorPlaces, Waits, NoTask, Tasks, Cmds
  <2>2. Places BY <1>2, <2>1 DEF Places
  <2>3. Exclusive BY <1>2 DEF Exclusive, Apart
  <2>4. Holding BY <1>2 DEF Holding, DrillHolds, AgentHolds, OperatorHolds, Idle
  <2> QED BY <2>2, <2>3, <2>4 DEF LockInv
<1>4. SealInv /\ NamedInv BY <1>2 DEF SealInv, NamedInv, Working, Waits
<1>5. RecordInv BY <1>2 DEF RecordInv, NoRecord, Ended, Unpublished, Waits, Idle
<1>6. ToolInv BY <1>2 DEF ToolInv, ToolAt, Idle
<1>7. LeftInv BY DEF LeftInv, LeftAt, Outlives
<1>8. FinishInv BY <1>2 DEF FinishInv, FinishAt
<1>9. CutInv BY <1>2 DEF CutInv, CutAt
<1> QED BY <1>1, <1>3, <1>4, <1>5, <1>6, <1>7, <1>8, <1>9 DEF IInv

LEMMA NextInv == IInv /\ [Next]_vars => IInv'
<1> SUFFICES ASSUME IInv, [Next]_vars PROVE IInv' OBVIOUS
<1> USE DEF IInv
<1>1. TypeOK' /\ LockInv' BY LockNext
<1>2. SealInv' BY SealNext
<1>3. NamedInv' BY NamedNext
<1>4. RecordInv' BY RecordNext
<1>5. ToolInv' BY ToolNext
<1>6. LeftInv' BY LeftNext
<1>7. FinishInv' BY FinishNext
<1>8. CutInv' BY CutNext
<1> QED BY <1>1, <1>2, <1>3, <1>4, <1>5, <1>6, <1>7, <1>8

LEMMA Invariance == Spec => []IInv
BY InitInv, NextInv, PTL DEF Spec

\* A drill at work is the one that the producer's marker names.
LEMMA WorkMarked ==
  ASSUME IInv, NEW d \in Drill \ lost, AtWork(d)
  PROVE  marker = d
<1>1. CASE Outlives(d) BY <1>1 DEF IInv, LeftInv, LeftAt
<1>2. CASE Alive(d) /\ at[d] \notin {"root", "producer", "locked"}
  <2>1. Working(d) BY <1>2 DEF Alive, Working, Waits
  <2> QED BY <2>1 DEF IInv, NamedInv
<1> QED BY <1>1, <1>2 DEF AtWork

(* The state of every process, lock, record and tool keeps its type.         *)
THEOREM DrillStateTypes == Spec => []TypeOK
<1>1. IInv => TypeOK BY DEF IInv
<1> QED BY <1>1, Invariance, PTL

(* Whatever process dies between two steps, a tool or a container that       *)
(* outlives its drill is named by the producer's marker (drill.rs 935-1037). *)
THEOREM WorkStaysNamed == Spec => []WorkIsNamed
<1>1. IInv => WorkIsNamed BY DEF IInv, LeftInv, LeftAt, WorkIsNamed
<1> QED BY <1>1, Invariance, PTL

(* However many drills, directories and configurations share a producer, the *)
(* work of one is on it at a time (drill.rs 1375-1399).                      *)
THEOREM OneDrillWorks == Spec => []OneDrill
<1>1. IInv => OneDrill BY WorkMarked DEF OneDrill
<1> QED BY <1>1, Invariance, PTL

(* With the producer's lock, a ceremony that began before its freeze and a   *)
(* reset never run next to a drill's work (machine.rs 2120-2200).            *)
THEOREM CutsAlone == Spec => []CutAlone
<1>1. ASSUME IInv PROVE CutAlone
  <2>1. SUFFICES ASSUME NEW p \in Agent \cup Operator, "producer" \in held[p],
                        at[p] = "reset" \/ (p \in Agent /\ p \in early /\ at[p] \in {"armed", "cut"}),
                        NEW d \in Drill \ lost, AtWork(d)
                 PROVE  FALSE
    BY DEF CutAlone
  <2>2. ~Outlives(d) BY <1>1, <2>1 DEF IInv, CutInv, CutAt, NoneLeft
  <2>3. Working(d) BY <2>1, <2>2 DEF AtWork, Alive, Working, Waits
  <2>4. p \in Proc /\ d # p BY Kinds
  <2> QED BY <1>1, <2>1, <2>3, <2>4, NoneWorks DEF IInv
<1> QED BY <1>1, Invariance, PTL

(* A drill works only under the journal of no ceremony, or of one that was   *)
(* rolled back: also when that ceremony's process is gone (drill.rs 1165).   *)
THEOREM SealedAlone == Spec => []SealedStaysAlone
<1>1. ASSUME IInv PROVE SealedStaysAlone
  <2>1. SUFFICES ASSUME NEW d \in Drill, AtWork(d), Alive(d)
                 PROVE  journal[cfg[d]] \in {"none", "ABORTED"}
    BY DEF SealedStaysAlone
  <2>2. at[d] \notin Waits \cup {"dead"}
    <3>1. ToolAt(d) BY <1>1 DEF IInv, ToolInv
    <3> QED BY <2>1, <3>1 DEF AtWork, Alive, Outlives, ToolAt, Unpublished, Waits
  <2> QED BY <1>1, <2>2 DEF IInv, SealInv, Working
<1> QED BY <1>1, Invariance, PTL
=============================================================================
