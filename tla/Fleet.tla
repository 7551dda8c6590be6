------------------------------- MODULE Fleet -------------------------------
(***************************************************************************)
(* The members of one coordinated event, who see each other only through   *)
(* the relay's latest reports and marks (src/fleet.rs; fleet_gate, abort,  *)
(* the withdrawal and note_fleet_view of src/machine.rs; nextEventMark of  *)
(* control/lib.mjs).  Abstractions:                                        *)
(*  - a state stands for the ceremony states a peer can tell apart: FROZEN *)
(*    for FROZEN and SNAPSHOTTED, CREATED for everything past creation;    *)
(*  - whether a report is fresh is chosen at each read, among those the    *)
(*    relay got since it last started, however old;                        *)
(*  - waits have no length: the settle before the second guard lets others *)
(*    report, and no step depends on their having done so;                 *)
(*  - evidence always agrees and agents all have one version, the case in  *)
(*    which most members are counted;                                      *)
(*  - rolling back is one step: its own steps are those of Ceremony.       *)
(***************************************************************************)
EXTENDS Naturals, FiniteSets

CONSTANTS
  Member,       \* the event's roster
  Quorum,       \* fleet_quorum
  EarlyAbort,   \* the signed event turns the early abort on
  Hasty,        \* an operator may roll a member back before it is shown STRANDED
  MaxLoss,      \* times the relay loses its state or is restored
  MaxFresh      \* times a member starts over on a fresh journal

ASSUME FleetAssumption ==
  /\ IsFiniteSet(Member) /\ Quorum \in 1..Cardinality(Member)
  /\ EarlyAbort \in BOOLEAN /\ Hasty \in BOOLEAN
  /\ MaxLoss \in Nat /\ MaxFresh \in Nat

VARIABLES
  atH,       \* the source's head has reached H
  signed,    \* the coordinator has signed an abort of the event
  relay,     \* complete: marks_state's flag; id: its state_id; behind: members
             \* that will find it at an earlier generation than they remember;
             \* stale: members whose listed report is from before a restore;
             \* era: its losses so far, which nobody reads
  rep,       \* the latest report the relay lists for a member
  mark,      \* its per-event mark
  saved,     \* the relay's backup: its state, reports and marks at some time
  st, pc,    \* the ceremony's state and where its process is
  ver,       \* the journal has a VERIFIED transition
  going,     \* ... and a pending rollback or abort intent
  mem,       \* the journaled fleet memory and exit marks seen
  tomb,      \* members whose box holds the exit tombstone
  counted,   \* whom the gate a member last passed counted
  back,      \* members that resumed the old chain after they froze
  blind,     \* ... on a restored relay that their memory did not tell
  proved,    \* an early abort was taken
  fresh      \* journals started over

local == <<st, pc, ver, going>>
seenBy == <<mem, tomb, counted>>
ghosts == <<back, blind, proved>>
world == <<atH, signed, relay, rep, mark, saved, fresh>>
vars == <<atH, signed, relay, rep, mark, saved, fresh, st, pc, ver, going, mem, tomb, counted, back, blind, proved>>

States == {"ARMED", "FROZEN", "VERIFIED", "CREATED", "ABORTED", "STRANDED"}
Out == {"ABORTED", "STRANDED"}
Report == [st : States, ver : BOOLEAN, going : BOOLEAN]
None == [st |-> "none", ver |-> FALSE, going |-> FALSE]
Mark == [past : BOOLEAN, seen : BOOLEAN, exited : BOOLEAN, reentered : BOOLEAN]
NoMark == [past |-> FALSE, seen |-> FALSE, exited |-> FALSE, reentered |-> FALSE]
NoId == MaxLoss + 1
NoMemory == [seen |-> {}, exits |-> {}, regressed |-> FALSE, id |-> NoId]

Init ==
  /\ atH = FALSE /\ signed = FALSE
  /\ relay = [complete |-> TRUE, era |-> 0, id |-> 0, stale |-> {}, behind |-> {}]
  /\ rep = [m \in Member |-> None] /\ mark = [m \in Member |-> NoMark]
  /\ saved = [id |-> NoId, rep |-> rep, mark |-> mark]
  /\ st = [m \in Member |-> "ARMED"] /\ pc = [m \in Member |-> "run"]
  /\ ver = [m \in Member |-> FALSE] /\ going = [m \in Member |-> FALSE]
  /\ mem = [m \in Member |-> NoMemory] /\ tomb = {}
  /\ counted = [m \in Member |-> {}]
  /\ back = {} /\ blind = {} /\ proved = FALSE /\ fresh = 0

-----------------------------------------------------------------------------
(* What the relay keeps. *)

\* Any sign that the member verified: verifiedSign, peers_seen_verified.
Verified(r) == r.ver \/ r.st \in {"VERIFIED", "CREATED"}

\* ABORTED or STRANDED without ever verifying, nothing in progress:
\* exitWithoutVerify, and not_out = None.
Exit(r) == r.st \in Out /\ ~Verified(r) /\ ~r.going

\* nextEventMark: past, seen and exited are only ever raised.
NextMark(c, r) ==
  LET seen == c.seen \/ Verified(r)
  IN [past |-> c.past \/ r.st = "CREATED",
      seen |-> seen,
      exited |-> c.exited \/ (EarlyAbort /\ ~seen /\ Exit(r)),
      reentered |-> c.reentered \/ (c.exited /\ r.st \notin Out)]

-----------------------------------------------------------------------------
(* What an agent makes of one read of the relay. *)

PeersSeen(m) == {p \in Member \ {m} : Verified(rep[p]) \/ mark[p].seen}

\* The relay serves another state than the one remembered, or an earlier
\* generation of it.  A restored relay that has caught up shows neither.
Older(m) == mem[m].id # NoId /\ (mem[m].id # relay.id \/ m \in relay.behind)

\* mutant: a restored relay is told by its own flag only
NotedFlag(m) ==
  LET old == mem[m]
  IN [seen |-> old.seen \cup PeersSeen(m),
      exits |-> old.exits \cup {p \in Member : mark[p].exited},
      regressed |-> old.regressed \/ ~relay.complete,
      id |-> IF old.id = NoId THEN relay.id ELSE old.id]

\* merged_fleet_memory and note_fleet_view: one read folded into the memory.
Noted(m) ==
  LET old == mem[m]
  IN [seen |-> old.seen \cup PeersSeen(m),
      exits |-> old.exits \cup {p \in Member : mark[p].exited},
      regressed |-> old.regressed \/ ~relay.complete \/ Older(m),
      id |-> IF old.id = NoId THEN relay.id ELSE old.id]

MayHaveVerified(p, k) == mark[p].seen \/ p \in k.seen

\* Members still in the ceremony as the guard of m counts them.
InCeremony(m, k) ==
  {p \in Member \ {m} : rep[p].st \notin Out \/ MayHaveVerified(p, k)}

\* mutant: a member whose report says ABORTED is out, whatever its mark says
TrustingGuard(m, f, k) ==
  /\ relay.complete /\ ~k.regressed
  /\ m \in f
  /\ \A p \in Member \ {m} : ~mark[p].past /\ rep[p].st # "CREATED" /\ rep[p] # None
  /\ \/ signed
     \/ Member \subseteq f /\ Cardinality({p \in Member \ {m} : rep[p].st \notin Out}) < Quorum

\* resume_guard_with; f is the set of members whose report is fresh.  A signed
\* abort is honoured if it is known: its answer may be missing.
GuardPasses(m, f, k) ==
  /\ relay.complete /\ ~k.regressed
  /\ m \in f
  /\ \A p \in Member \ {m} : ~mark[p].past /\ rep[p].st # "CREATED" /\ rep[p] # None
  /\ \/ signed /\ Cardinality({p \in Member : MayHaveVerified(p, k)}) < Quorum
     \/ Member \subseteq f /\ Cardinality(InCeremony(m, k)) < Quorum

\* mutant: a silent member is taken for one that is out
SilentOut(m, f, k) == {p \in Member \ {m} : p \notin f \/ Exit(rep[p])}

\* The members quorum_unreachable_with proves out of the event.
DurablyOut(m, f, k) ==
  {p \in Member \ {m} : /\ mark[p].exited /\ ~mark[p].reentered /\ ~mark[p].seen
                        /\ p \notin k.seen
                        /\ p \in f /\ Exit(rep[p])}

QuorumUnreachable(m, f, k) ==
  /\ relay.complete /\ ~k.regressed
  /\ m \in f
  /\ \A p \in Member : rep[p] # None
  /\ \A p \in Member \ {m} : ~mark[p].past /\ rep[p].st # "CREATED"
  /\ Cardinality(Member) - Cardinality(DurablyOut(m, f, k)) < Quorum

\* mutant: a member that is withdrawing still counts
AgreeingGoing(m, f, k) ==
  {p \in f : /\ rep[p].st \in {"VERIFIED", "CREATED"}
             /\ ~mark[p].exited /\ p \notin k.exits}

\* The members fleet_gate counts.
Agreeing(m, f, k) ==
  {p \in f : /\ rep[p].st \in {"VERIFIED", "CREATED"} /\ ~rep[p].going
             /\ ~mark[p].exited /\ p \notin k.exits}

\* What may look fresh: some of the reports the relay got since it last started
\* (a restored report is as old as its backup).
Fresh == SUBSET {m \in Member : rep[m] # None /\ m \notin relay.stale}

-----------------------------------------------------------------------------
(* One member's ceremony. *)

\* mutant: the state read is added to the one remembered
RememberSum(m, k) == mem' = [mem EXCEPT ![m] = [k EXCEPT !.id = @ + mem[m].id]]

Move(m, s, p) == st' = [st EXCEPT ![m] = s] /\ pc' = [pc EXCEPT ![m] = p]
Remember(m, k) == mem' = [mem EXCEPT ![m] = k]

Tombstone(m) == tomb' = IF EarlyAbort THEN tomb \cup {m} ELSE tomb
Running(m, s) == st[m] = s /\ pc[m] = "run" /\ ~going[m]

\* FROZEN, `freeze_lead_blocks` before H at the earliest.
Freeze(m) ==
  /\ Running(m, "ARMED") /\ Move(m, "FROZEN", "run")
  /\ UNCHANGED <<world, ver, going, seenBy, ghosts>>

\* VERIFIED, of a snapshot at H.
Verify(m) ==
  /\ atH /\ Running(m, "FROZEN") /\ Move(m, "VERIFIED", "run")
  /\ ver' = [ver EXCEPT ![m] = TRUE]
  /\ UNCHANGED <<world, going, seenBy, ghosts>>

\* One tick of fleet_gate whose quorum is reached, or only noted.
Gate(m) ==
  LET k == Noted(m)
  IN /\ Running(m, "VERIFIED")
     /\ Remember(m, k)
     /\ \/ \E c \in {Agreeing(m, f, k) : f \in Fresh} :
           /\ Cardinality(c) >= Quorum
           /\ Move(m, "VERIFIED", "gated") /\ counted' = [counted EXCEPT ![m] = c]
        \/ UNCHANGED <<st, pc, counted>>
     /\ UNCHANGED <<world, ver, going, tomb, ghosts>>

\* require_no_abort: the relay answered, and carries no abort.
NoAbort(m) ==
  /\ pc[m] = "gated" /\ ~signed /\ Move(m, st[m], "cleared")
  /\ UNCHANGED <<world, ver, going, seenBy, ghosts>>

\* upstream_create_chain: the creation intent.
Create(m) ==
  /\ pc[m] = "cleared" /\ Move(m, "CREATED", "run")
  /\ UNCHANGED <<world, ver, going, seenBy, ghosts>>

\* abort while ARMED: nothing was frozen, so nothing is guarded.
AbortArmed(m) ==
  /\ Running(m, "ARMED") /\ Move(m, "ABORTED", "run") /\ Tombstone(m)
  /\ UNCHANGED <<world, ver, going, mem, counted, ghosts>>

\* abort or operator rollback of a member that froze: the first guard, the
\* journaled intents, then the withdrawal; or STRANDED.
Guarded(m) == st[m] \in {"FROZEN", "VERIFIED"} /\ pc[m] # "withdraw"

FirstGuard(m) ==
  /\ Guarded(m) /\ {f \in Fresh : GuardPasses(m, f, Noted(m))} # {}
  /\ Remember(m, Noted(m))
  /\ IF st[m] = "FROZEN" THEN Tombstone(m) ELSE tomb' = tomb
  /\ going' = [going EXCEPT ![m] = TRUE] /\ Move(m, st[m], "withdraw")
  /\ UNCHANGED <<world, ver, counted, ghosts>>

\* A refused guard (or no answer at all, which notes nothing) strands.
Strand(m) ==
  /\ st[m] \in {"FROZEN", "VERIFIED"}
  /\ \/ Remember(m, Noted(m)) \/ mem' = mem
  /\ IF st[m] = "FROZEN" THEN Tombstone(m) ELSE tomb' = tomb
  /\ going' = [going EXCEPT ![m] = FALSE] /\ Move(m, "STRANDED", "run")
  /\ UNCHANGED <<world, ver, counted, ghosts>>

\* wait_own_report_withdrawn: the relay shows this member's report withdrawn.
\* The settle that follows is one of its own beacon cycles; a peer whose gate counted this
\* member may wait in require_no_abort for longer.
Withdrawn(m) == rep[m] # None /\ (rep[m].st # "VERIFIED" \/ rep[m].going)

Return(m) ==
  /\ back' = back \cup {m}
  /\ blind' = IF m \notin back /\ relay.era > 0 /\ ~Older(m) THEN blind \cup {m} ELSE blind
  /\ proved' = proved

\* The second guard, after the withdrawal showed or the member's own last
\* report is too old (then it is not fresh).
SecondGuard(m) ==
  /\ pc[m] = "withdraw"
  /\ {f \in Fresh : (m \in f => Withdrawn(m)) /\ GuardPasses(m, f, Noted(m))} # {}
  /\ Remember(m, Noted(m))
  /\ Move(m, "ABORTED", "run") /\ going' = [going EXCEPT ![m] = FALSE]
  /\ Return(m)
  /\ UNCHANGED <<world, ver, tomb, counted>>

\* operator_rollback_opts of a STRANDED ceremony: one guard, no withdrawal.
RollbackStranded(m) ==
  /\ st[m] = "STRANDED"
  /\ Hasty \/ rep[m].st = "STRANDED"
  /\ {f \in Fresh : GuardPasses(m, f, Noted(m))} # {}
  /\ Remember(m, Noted(m))
  /\ Move(m, "ABORTED", "run")
  /\ Return(m)
  /\ UNCHANGED <<world, ver, going, tomb, counted>>

\* What a member that froze proves must also clear it to resume.
QuorumVerdict(m, f, k) ==
  QuorumUnreachable(m, f, k) /\ (st[m] = "ARMED" \/ GuardPasses(m, f, k))

\* quorum_unreachable_abort, before VERIFIED only: the tombstone first, then
\* the ordinary abort.  A member that froze also needs the resume guard.
EarlyAborts(m) ==
  LET k == Noted(m)
  IN /\ EarlyAbort /\ st[m] \in {"ARMED", "FROZEN"} /\ pc[m] = "run" /\ ~going[m]
     /\ Remember(m, k)
     /\ \/ /\ {f \in Fresh : QuorumVerdict(m, f, k)} # {}
           /\ Tombstone(m) /\ proved' = TRUE
           /\ IF st[m] = "ARMED" THEN Move(m, "ABORTED", "run") /\ going' = going
              ELSE Move(m, st[m], "withdraw") /\ going' = [going EXCEPT ![m] = TRUE]
        \/ UNCHANGED <<st, pc, going, tomb, proved>>
     /\ UNCHANGED <<world, ver, counted, back, blind>>

-----------------------------------------------------------------------------
(* Deaths, fresh journals, the beacon and the world. *)

Crash(m) ==
  /\ pc[m] # "run" /\ pc' = [pc EXCEPT ![m] = "run"]
  /\ UNCHANGED <<world, st, ver, going, seenBy, ghosts>>

\* A box starts over on a fresh journal under the same event.  It arms only
\* before H and, with the early abort on, when neither its tombstone nor an
\* exit mark nor incomplete marks say otherwise; else it ends ABORTED.
Arms(m) == /\ ~atH
           /\ EarlyAbort => m \notin tomb /\ relay.complete /\ ~mark[m].exited

FreshJournal(m) ==
  /\ fresh < MaxFresh /\ fresh' = fresh + 1
  /\ st[m] # "CREATED" /\ Move(m, IF Arms(m) THEN "ARMED" ELSE "ABORTED", "run")
  /\ ver' = [ver EXCEPT ![m] = FALSE] /\ going' = [going EXCEPT ![m] = FALSE]
  /\ Remember(m, NoMemory) /\ IF Arms(m) THEN tomb' = tomb ELSE Tombstone(m)
  /\ counted' = [counted EXCEPT ![m] = {}] /\ relay' = [relay EXCEPT !.behind = @ \ {m}]
  /\ UNCHANGED <<atH, signed, rep, mark, saved, ghosts>>

\* The beacon reads the journal and the relay accepts its report.
Beacon(m) ==
  LET r == [st |-> st[m], ver |-> ver[m], going |-> going[m]]
  IN /\ rep' = [rep EXCEPT ![m] = r]
     /\ mark' = [mark EXCEPT ![m] = NextMark(@, r)]
     /\ relay' = [relay EXCEPT !.stale = @ \ {m}]
     /\ UNCHANGED <<atH, signed, saved, fresh, local, seenBy, ghosts>>

\* The relay's files are copied; a later copy replaces none here.
Backup ==
  /\ relay.era < MaxLoss /\ saved.id = NoId
  /\ saved' = [id |-> relay.id, rep |-> rep, mark |-> mark]
  /\ UNCHANGED <<atH, signed, relay, rep, mark, fresh, local, seenBy, ghosts>>

\* The relay restarts on its backup, at the generation it had then, or without
\* one on an empty state of its own.  Its anchor tells (complete = FALSE), or
\* was restored with it: then only memories can.  Any member may find it behind
\* or not: its generation grows with every report and may have caught up by the
\* next look, and a process that died falls back on the generation it journaled,
\* every 30 s at most.
RelayLost(complete, behind) ==
  /\ relay.era < MaxLoss
  /\ relay' = [complete |-> relay.complete /\ complete, era |-> relay.era + 1,
               id |-> IF saved.id = NoId THEN relay.era + 1 ELSE saved.id,
               stale |-> Member,
               behind |-> IF ~complete \/ saved.id = NoId THEN {} ELSE behind]
  /\ rep' = saved.rep /\ mark' = saved.mark
  /\ UNCHANGED <<atH, signed, saved, fresh, local, seenBy, ghosts>>

ReachH == /\ ~atH /\ atH' = TRUE
          /\ UNCHANGED <<signed, relay, rep, mark, saved, fresh, local, seenBy, ghosts>>

SignAbort == /\ ~signed /\ signed' = TRUE
             /\ UNCHANGED <<atH, relay, rep, mark, saved, fresh, local, seenBy, ghosts>>

Next ==
  \/ \E m \in Member :
       \/ Freeze(m) \/ Verify(m) \/ Gate(m) \/ NoAbort(m) \/ Create(m)
       \/ AbortArmed(m) \/ FirstGuard(m) \/ Strand(m) \/ SecondGuard(m)
       \/ RollbackStranded(m) \/ EarlyAborts(m)
       \/ Crash(m) \/ FreshJournal(m) \/ Beacon(m)
  \/ \E c \in BOOLEAN, b \in SUBSET {m \in Member : mem[m].id # NoId} : RelayLost(c, b)
  \/ Backup \/ ReachH \/ SignAbort

Spec == Init /\ [][Next]_vars

-----------------------------------------------------------------------------

Ahead == {m \in Member : st[m] = "CREATED"}

TypeOK ==
  /\ atH \in BOOLEAN /\ signed \in BOOLEAN
  /\ relay \in [complete : BOOLEAN, era : 0..MaxLoss, id : 0..MaxLoss,
                stale : SUBSET Member, behind : SUBSET Member]
  /\ rep \in [Member -> Report \cup {None}] /\ mark \in [Member -> Mark]
  /\ saved \in [id : 0..NoId, rep : [Member -> Report \cup {None}], mark : [Member -> Mark]]
  /\ st \in [Member -> States] /\ pc \in [Member -> {"run", "gated", "cleared", "withdraw"}]
  /\ ver \in [Member -> BOOLEAN] /\ going \in [Member -> BOOLEAN]
  /\ mem \in [Member -> [seen : SUBSET Member, exits : SUBSET Member,
                         regressed : BOOLEAN, id : 0..NoId]]
  /\ tomb \subseteq Member /\ counted \in [Member -> SUBSET Member]
  /\ back \subseteq Member /\ blind \subseteq back
  /\ proved \in BOOLEAN /\ fresh \in 0..MaxFresh

\* Whoever creates the target while another that could tell a restored relay
\* has returned to the old chain had counted that member at its gate: the guard
\* leaves no other way to both chains (abort's two guards, fleet_gate).  That way
\* is open: nobody waits for a peer that passed its gate and still looks for an
\* abort, so "Ahead or back is empty" would be too much (DESIGN.md 417-420).
NoUncountedSplit == \A m \in back \ blind, p \in Ahead : m # p /\ m \in counted[p]

\* The same as an implementation of OneChain: a gate that never counts whoever
\* is back, nobody ahead who left the returned out, nobody back while one ahead
\* does not count on it, and neither undone.
Promise == INSTANCE OneChain WITH ahead <- Ahead, back <- back \ blind
OneOutcome == Promise!Spec

\* A gate never counts a member that has returned to the old chain, however
\* old the report it reads (the withdrawal between the two guards).
ReturnedNeverCounts ==
  [][\A m \in Member : counted'[m] \cap (back \ blind) \subseteq counted[m]]_vars

\* After an early abort found the quorum out of reach no member passes the
\* gate, and none had passed it: what the exit marks proved stays true.
NoGateAfterProof ==
  proved => \A m \in Member : pc[m] \notin {"gated", "cleared"} /\ st[m] # "CREATED"
=============================================================================
