---------------------------- MODULE FleetProofs ----------------------------
(***************************************************************************)
(* For any roster and quorum: the exit marks prove what the early abort    *)
(* takes from them, and a member that returned is never counted again.     *)
(*                                                                         *)
(* The first needs that whoever is marked out holds the tombstone, that    *)
(* a tombstone ends the event for its box, and that each gate passed       *)
(* counted members with a verified mark: so the members counted and the    *)
(* members out are disjoint.  The second needs that nothing verifies       *)
(* before H and nothing arms after it.                                     *)
(***************************************************************************)
EXTENDS Fleet, TLAPS, FiniteSetTheorems

\* No journal before VERIFIED has a VERIFIED transition, and there is a
\* snapshot at H only once the head is there.
VerifiedLate ==
  \A m \in Member : /\ st[m] \in {"ARMED", "FROZEN"} => ~ver[m]
                    /\ ver[m] => atH
                    /\ st[m] \in {"VERIFIED", "CREATED"} => ver[m]
                    /\ pc[m] # "run" => st[m] \in {"FROZEN", "VERIFIED"}
                    /\ pc[m] \in {"gated", "cleared"} => st[m] = "VERIFIED"

\* A box that ends the event without verifying holds its exit tombstone.
ExitsHoldTomb ==
  EarlyAbort => \A m \in Member :
    (st[m] \in Out \/ pc[m] = "withdraw") /\ ~ver[m] => m \in tomb

\* A tombstone ends the event for its box.
TombEnds ==
  \A m \in tomb : /\ EarlyAbort /\ ~ver[m]
                  /\ st[m] \in Out \/ (st[m] = "FROZEN" /\ going[m])

\* The relay marks a member exited only when its box holds the tombstone,
\* marks every report that verified, and reports no creation that was not;
\* and so does its backup.
Tells(r, k) ==
  \A m \in Member : /\ k[m].exited => m \in tomb
                    /\ Verified(r[m]) => k[m].seen
                    /\ r[m].st = "CREATED" => st[m] = "CREATED"

MarksTrue == Tells(rep, mark) /\ Tells(saved.rep, saved.mark)

\* Whoever passed a gate counted a quorum of members with a verified mark.
CountedVerified ==
  \A m \in Member :
    pc[m] \in {"gated", "cleared"} \/ st[m] = "CREATED" =>
      /\ Cardinality(counted[m]) >= Quorum
      /\ \A p \in counted[m] : mark[p].seen

Gone == {p \in Member : mark[p].exited /\ ~mark[p].seen}

\* The early abort's premise, read off the marks.
ProofStands == proved => Cardinality(Member) - Cardinality(Gone) < Quorum

\* A member that returned shows no VERIFIED report a gate would count, and can
\* show none again: its box ended the event, or it is too late to arm.
ReturnedShowsOut ==
  \A m \in back : /\ st[m] \in Out
                  /\ m \in tomb \/ atH
                  /\ rep[m].st = "VERIFIED" => rep[m].going \/ m \in relay.stale

-----------------------------------------------------------------------------
(* The type invariant. *)

Relays == [complete : BOOLEAN, era : 0..MaxLoss, id : 0..MaxLoss,
           stale : SUBSET Member, behind : SUBSET Member]
Memories == [seen : SUBSET Member, exits : SUBSET Member, regressed : BOOLEAN, id : 0..NoId]

LEMMA NotedType ==
  ASSUME TypeOK, NEW m \in Member
  PROVE  Noted(m) \in Memories
  BY FleetAssumption DEF TypeOK, Memories, Noted, PeersSeen, NoId

LEMMA RepliesType ==
  ASSUME TypeOK, NEW f \in Fresh, NEW m \in Member, NEW k
  PROVE  f \subseteq Member /\ Agreeing(m, f, k) \subseteq Member
  BY DEF Fresh, Agreeing

LEMMA MoveType ==
  ASSUME TypeOK, NEW m \in Member, NEW s \in States, NEW p \in {"run", "gated", "cleared", "withdraw"},
         Move(m, s, p)
  PROVE  st' \in [Member -> States] /\ pc' \in [Member -> {"run", "gated", "cleared", "withdraw"}]
  BY DEF TypeOK, Move

LEMMA MemType ==
  ASSUME TypeOK, NEW m \in Member, Remember(m, Noted(m)) \/ mem' = mem
  PROVE  mem' \in [Member -> Memories]
  <1>1. mem \in [Member -> Memories]
    BY DEF TypeOK, Memories
  <1>2. Noted(m) \in Memories
    BY NotedType
  <1> QED BY <1>1, <1>2 DEF Remember

LEMMA TombType ==
  ASSUME TypeOK, NEW m \in Member, Tombstone(m) \/ tomb' = tomb
  PROVE  tomb' \subseteq Member
  BY DEF TypeOK, Tombstone

LEMMA TypeStep == TypeOK /\ [Next]_vars => TypeOK'
  <1> SUFFICES ASSUME TypeOK, [Next]_vars PROVE TypeOK'
    OBVIOUS
  <1>s. /\ {"ARMED", "FROZEN", "VERIFIED", "CREATED", "ABORTED", "STRANDED"} \subseteq States
        /\ \A m \in Member : st[m] \in States
    BY DEF States, TypeOK
  <1>a. ASSUME NEW m \in Member, Freeze(m) \/ NoAbort(m) \/ Create(m)
        PROVE  TypeOK'
    <2>1. st' \in [Member -> States] /\ pc' \in [Member -> {"run", "gated", "cleared", "withdraw"}]
      BY <1>a, <1>s, MoveType DEF Freeze, NoAbort, Create
    <2> QED BY <1>a, <2>1 DEF TypeOK, Freeze, NoAbort, Create, world, seenBy, ghosts
  <1>j. ASSUME NEW m \in Member, Verify(m)
        PROVE  TypeOK'
    <2>1. st' \in [Member -> States] /\ pc' \in [Member -> {"run", "gated", "cleared", "withdraw"}]
      BY <1>j, <1>s, MoveType DEF Verify
    <2> QED BY <1>j, <2>1 DEF TypeOK, Verify, world, seenBy, ghosts
  <1>k. ASSUME NEW m \in Member, AbortArmed(m)
        PROVE  TypeOK'
    <2>1. st' \in [Member -> States] /\ pc' \in [Member -> {"run", "gated", "cleared", "withdraw"}]
      BY <1>k, <1>s, MoveType DEF AbortArmed
    <2>2. tomb' \subseteq Member
      BY <1>k, TombType DEF AbortArmed
    <2> QED BY <1>k, <2>1, <2>2 DEF TypeOK, AbortArmed, world, ghosts
  <1>l. ASSUME NEW m \in Member, Crash(m)
        PROVE  TypeOK'
    BY <1>l DEF TypeOK, Crash, world, seenBy, ghosts
  <1>b. ASSUME NEW m \in Member, Gate(m)
        PROVE  TypeOK'
    <2>1. st' \in [Member -> States] /\ pc' \in [Member -> {"run", "gated", "cleared", "withdraw"}]
      BY <1>b, <1>s, MoveType DEF Gate, TypeOK
    <2>2. mem' \in [Member -> Memories]
      BY <1>b, MemType DEF Gate
    <2>3. counted' \in [Member -> SUBSET Member]
      <3>1. \/ \E f \in Fresh : counted' = [counted EXCEPT ![m] = Agreeing(m, f, Noted(m))]
            \/ counted' = counted
        BY <1>b DEF Gate
      <3>2. \A f \in Fresh : Agreeing(m, f, Noted(m)) \subseteq Member
        BY RepliesType
      <3>3. counted \in [Member -> SUBSET Member]
        BY DEF TypeOK
      <3> QED BY <3>1, <3>2, <3>3
    <2> QED BY <1>b, <2>1, <2>2, <2>3 DEF TypeOK, Memories, Gate, world, ghosts
  <1>c. ASSUME NEW m \in Member, FirstGuard(m)
        PROVE  TypeOK'
    <2>1. st' \in [Member -> States] /\ pc' \in [Member -> {"run", "gated", "cleared", "withdraw"}]
      BY <1>c, <1>s, MoveType DEF FirstGuard
    <2>2. mem' \in [Member -> Memories]
      BY <1>c, MemType DEF FirstGuard
    <2>3. tomb' \subseteq Member
      BY <1>c, TombType DEF FirstGuard
    <2> QED BY <1>c, <2>1, <2>2, <2>3 DEF TypeOK, Memories, FirstGuard, world, ghosts
  <1>m. ASSUME NEW m \in Member, Strand(m)
        PROVE  TypeOK'
    <2>1. st' \in [Member -> States] /\ pc' \in [Member -> {"run", "gated", "cleared", "withdraw"}]
      BY <1>m, <1>s, MoveType DEF Strand
    <2>2. mem' \in [Member -> Memories]
      BY <1>m, MemType DEF Strand
    <2>3. tomb' \subseteq Member
      BY <1>m, TombType DEF Strand
    <2> QED BY <1>m, <2>1, <2>2, <2>3 DEF TypeOK, Memories, Strand, world, ghosts
  <1>n. ASSUME NEW m \in Member, EarlyAborts(m)
        PROVE  TypeOK'
    <2>1. st' \in [Member -> States] /\ pc' \in [Member -> {"run", "gated", "cleared", "withdraw"}]
      <3>1. UNCHANGED <<st, pc>> \/ Move(m, "ABORTED", "run") \/ Move(m, st[m], "withdraw")
        BY <1>n DEF EarlyAborts
      <3> QED BY <3>1, <1>s, MoveType DEF TypeOK
    <2>2. mem' \in [Member -> Memories]
      BY <1>n, MemType DEF EarlyAborts
    <2>3. tomb' \subseteq Member
      BY <1>n, TombType DEF EarlyAborts
    <2>4. going' \in [Member -> BOOLEAN] /\ proved' \in BOOLEAN
      BY <1>n DEF EarlyAborts, TypeOK
    <2> QED BY <1>n, <2>1, <2>2, <2>3, <2>4 DEF TypeOK, Memories, EarlyAborts, world
  <1>d. ASSUME NEW m \in Member, SecondGuard(m) \/ RollbackStranded(m)
        PROVE  TypeOK'
    <2>1. st' \in [Member -> States] /\ pc' \in [Member -> {"run", "gated", "cleared", "withdraw"}]
      BY <1>d, <1>s, MoveType DEF SecondGuard, RollbackStranded
    <2>2. mem' \in [Member -> Memories]
      BY <1>d, MemType DEF SecondGuard, RollbackStranded
    <2>3. back' \subseteq Member /\ blind' \subseteq back' /\ proved' = proved
      BY <1>d DEF SecondGuard, RollbackStranded, Return, TypeOK
    <2>4. going' \in [Member -> BOOLEAN]
      BY <1>d DEF SecondGuard, RollbackStranded, TypeOK
    <2> QED BY <1>d, <2>1, <2>2, <2>3, <2>4 DEF TypeOK, Memories, SecondGuard, RollbackStranded, world
  <1>e. ASSUME NEW m \in Member, FreshJournal(m)
        PROVE  TypeOK'
    <2>1. st' \in [Member -> States] /\ pc' \in [Member -> {"run", "gated", "cleared", "withdraw"}]
      BY <1>e, <1>s, MoveType DEF FreshJournal
    <2>2. mem' \in [Member -> Memories]
      BY <1>e, FleetAssumption DEF FreshJournal, Remember, NoMemory, NoId, TypeOK, Memories
    <2>3. tomb' \subseteq Member
      BY <1>e, TombType DEF FreshJournal
    <2>4. fresh' \in 0..MaxFresh
      BY <1>e, FleetAssumption DEF FreshJournal, TypeOK
    <2>5. relay' \in Relays
      BY <1>e DEF FreshJournal, TypeOK, Relays
    <2> QED BY <1>e, <2>1, <2>2, <2>3, <2>4, <2>5 DEF TypeOK, Memories, Relays, FreshJournal, ghosts
  <1>f. ASSUME NEW m \in Member, Beacon(m)
        PROVE  TypeOK'
    <2>4. rep \in [Member -> Report \cup {None}] /\ mark \in [Member -> Mark]
      BY DEF TypeOK
    <2>1. [st |-> st[m], ver |-> ver[m], going |-> going[m]] \in Report
      BY DEF Report, TypeOK
    <2>2. NextMark(mark[m], [st |-> st[m], ver |-> ver[m], going |-> going[m]])
            \in Mark
      BY FleetAssumption DEF NextMark, Verified, Exit, Out, TypeOK, Mark
    <2>3. relay' \in Relays
      BY <1>f DEF Beacon, TypeOK, Relays
    <2>5. rep' \in [Member -> Report \cup {None}] /\ mark' \in [Member -> Mark]
      BY <1>f, <2>1, <2>2, <2>4 DEF Beacon
    <2> QED BY <1>f, <2>3, <2>5 DEF TypeOK, Relays, Beacon, local, seenBy, ghosts
  <1>g. ASSUME NEW c \in BOOLEAN, NEW b \in SUBSET Member, RelayLost(c, b)
        PROVE  TypeOK'
    <2>1. relay' \in Relays
      <3>1. relay.era + 1 \in 0..MaxLoss /\ relay.complete \in BOOLEAN /\ saved.id \in 0..NoId
        BY <1>g, FleetAssumption DEF RelayLost, TypeOK
      <3>2. saved.id # NoId => saved.id \in 0..MaxLoss
        BY <3>1, FleetAssumption DEF NoId
      <3> QED BY <1>g, <3>1, <3>2 DEF RelayLost, Relays
    <2>2. rep' \in [Member -> Report \cup {None}] /\ mark' \in [Member -> Mark]
      BY <1>g DEF RelayLost, TypeOK
    <2>3. UNCHANGED <<atH, signed, saved, fresh, st, pc, ver, going, mem, tomb, counted, back, blind, proved>>
      BY <1>g DEF RelayLost, local, seenBy, ghosts
    <2> QED BY <2>1, <2>2, <2>3 DEF TypeOK, Relays
  <1>h. CASE ReachH \/ SignAbort
    BY <1>h DEF TypeOK, ReachH, SignAbort, local, seenBy, ghosts
  <1>o. CASE Backup
    <2>1. saved' \in [id : 0..NoId, rep : [Member -> Report \cup {None}], mark : [Member -> Mark]]
      BY <1>o, FleetAssumption DEF Backup, TypeOK, NoId
    <2>2. UNCHANGED <<atH, signed, relay, rep, mark, fresh, st, pc, ver, going, mem, tomb, counted, back, blind, proved>>
      BY <1>o DEF Backup, local, seenBy, ghosts
    <2> QED BY <2>1, <2>2 DEF TypeOK
  <1>i. CASE UNCHANGED vars
    BY <1>i DEF TypeOK, vars
  <1> QED
    BY <1>a, <1>b, <1>c, <1>d, <1>e, <1>f, <1>g, <1>h, <1>i, <1>j, <1>k, <1>l, <1>m, <1>n, <1>o DEF Next

LEMMA TypeInit == Init => TypeOK
  <1> SUFFICES ASSUME Init PROVE TypeOK
    OBVIOUS
  <1>1. rep \in [Member -> Report \cup {None}] /\ st \in [Member -> States]
    BY DEF Init, States
  <1>2. NoMemory \in [seen : SUBSET Member, exits : SUBSET Member, regressed : BOOLEAN, id : 0..NoId]
    BY FleetAssumption DEF NoMemory, NoId
  <1>3. NoMark \in Mark
    BY DEF NoMark, Mark
  <1>0. 0 \in 0..MaxLoss /\ 0 \in 0..MaxFresh /\ MaxLoss + 1 \in 0..(MaxLoss + 1)
    BY FleetAssumption
  <1>4. atH \in BOOLEAN /\ signed \in BOOLEAN /\ relay \in Relays
    BY <1>0 DEF Init, Relays
  <1>5. mark \in [Member -> Mark] /\ saved \in [id : 0..NoId, rep : [Member -> Report \cup {None}], mark : [Member -> Mark]]
    BY <1>0, <1>1, <1>3 DEF Init, NoId
  <1>6. mem \in [Member -> [seen : SUBSET Member, exits : SUBSET Member,
                            regressed : BOOLEAN, id : 0..NoId]]
    BY <1>2 DEF Init
  <1>7. /\ pc \in [Member -> {"run", "gated", "cleared", "withdraw"}] /\ ver \in [Member -> BOOLEAN]
        /\ going \in [Member -> BOOLEAN]
    BY DEF Init
  <1>8. tomb \subseteq Member /\ back \subseteq Member /\ blind \subseteq back /\ proved \in BOOLEAN
    BY DEF Init
  <1>9. counted \in [Member -> SUBSET Member] /\ fresh \in 0..MaxFresh
    BY <1>0 DEF Init
  <1> QED BY <1>1, <1>4, <1>5, <1>6, <1>7, <1>8, <1>9 DEF TypeOK, Relays

\* Every variable keeps its type, for any roster, quorum and bounds.
THEOREM FleetTypes == Spec => []TypeOK
  BY TypeInit, TypeStep, PTL DEF Spec

-----------------------------------------------------------------------------
(* Who is out is out: tombstones, marks and the order of VERIFIED.          *)

Locals == /\ st \in [Member -> States] /\ pc \in [Member -> {"run", "gated", "cleared", "withdraw"}]
          /\ ver \in [Member -> BOOLEAN] /\ going \in [Member -> BOOLEAN] /\ tomb \subseteq Member
          /\ atH \in BOOLEAN /\ EarlyAbort \in BOOLEAN

LEMMA LocalsType == TypeOK => Locals
  BY FleetAssumption DEF TypeOK, Locals

Own == VerifiedLate /\ ExitsHoldTomb /\ TombEnds

LEMMA OwnStep ==
  ASSUME Locals, Own, [Next]_vars
  PROVE  Own'
  <1> USE DEF Locals, Own, VerifiedLate, ExitsHoldTomb, TombEnds, Out, States
  <1>a. ASSUME NEW m \in Member, Freeze(m) \/ Verify(m) \/ NoAbort(m) \/ Create(m)
        PROVE  Own'
    BY <1>a DEF Freeze, Verify, NoAbort, Create, Running, Move, world, seenBy, ghosts
  <1>b. ASSUME NEW m \in Member, Gate(m) \/ Crash(m)
        PROVE  Own'
    BY <1>b DEF Gate, Crash, Running, Move, world, seenBy, ghosts
  <1>c. ASSUME NEW m \in Member, AbortArmed(m)
        PROVE  Own'
    BY <1>c DEF AbortArmed, Running, Move, Tombstone, world, ghosts
  <1>d. ASSUME NEW m \in Member, FirstGuard(m)
        PROVE  Own'
    BY <1>d DEF FirstGuard, Guarded, Move, Tombstone, world, ghosts
  <1>e. ASSUME NEW m \in Member, Strand(m)
        PROVE  Own'
    BY <1>e DEF Strand, Move, Tombstone, world, ghosts
  <1>f. ASSUME NEW m \in Member, SecondGuard(m) \/ RollbackStranded(m)
        PROVE  Own'
    BY <1>f DEF SecondGuard, RollbackStranded, Move, world
  <1>g. ASSUME NEW m \in Member, EarlyAborts(m)
        PROVE  Own'
    BY <1>g DEF EarlyAborts, Move, Tombstone, world
  <1>h. ASSUME NEW m \in Member, FreshJournal(m)
        PROVE  Own'
    BY <1>h DEF FreshJournal, Arms, Move, Tombstone, ghosts
  <1>i. ASSUME NEW m \in Member, Beacon(m)
        PROVE  Own'
    BY <1>i DEF Beacon, local, seenBy, ghosts
  <1>j. ASSUME NEW c \in BOOLEAN, NEW b \in SUBSET Member, RelayLost(c, b)
        PROVE  Own'
    BY <1>j DEF RelayLost, local, seenBy, ghosts
  <1>k. CASE Backup \/ ReachH \/ SignAbort \/ UNCHANGED vars
    BY <1>k DEF Backup, ReachH, SignAbort, vars, local, seenBy, ghosts
  <1> QED BY <1>a, <1>b, <1>c, <1>d, <1>e, <1>f, <1>g, <1>h, <1>i, <1>j, <1>k DEF Next

LEMMA OwnInit == Init => Own
  BY DEF Init, Own, VerifiedLate, ExitsHoldTomb, TombEnds, Out

-----------------------------------------------------------------------------
(* What the relay's marks say of it. *)

\* Everything but the relay's losses leaves the marks alone or raises them, and
\* a report raises them only by what its member's journal holds.
Raised(m) == /\ rep' = [rep EXCEPT ![m] = [st |-> st[m], ver |-> ver[m], going |-> going[m]]]
             /\ mark' = [mark EXCEPT ![m] = NextMark(@, [st |-> st[m], ver |-> ver[m], going |-> going[m]])]

Lost == \E c \in BOOLEAN, b \in SUBSET Member : RelayLost(c, b)

LEMMA RelaySteps ==
  ASSUME [Next]_vars
  PROVE  \/ rep' = rep /\ mark' = mark /\ saved' = saved
         \/ Backup
         \/ \E m \in Member : Beacon(m) /\ Raised(m)
         \/ Lost
  <1>a. ASSUME NEW m \in Member,
               \/ Freeze(m) \/ Verify(m) \/ Gate(m) \/ NoAbort(m) \/ Create(m) \/ AbortArmed(m)
               \/ FirstGuard(m) \/ Strand(m) \/ SecondGuard(m) \/ RollbackStranded(m)
               \/ EarlyAborts(m) \/ Crash(m) \/ FreshJournal(m)
        PROVE  rep' = rep /\ mark' = mark /\ saved' = saved
    BY <1>a DEF Freeze, Verify, Gate, NoAbort, Create, AbortArmed, FirstGuard, Strand, SecondGuard,
         RollbackStranded, EarlyAborts, Crash, FreshJournal, world
  <1>b. ASSUME NEW m \in Member, Beacon(m)
        PROVE  Raised(m)
    BY <1>b DEF Beacon, Raised
  <1>c. ReachH \/ SignAbort \/ UNCHANGED vars => rep' = rep /\ mark' = mark /\ saved' = saved
    BY DEF ReachH, SignAbort, vars
  <1> QED BY <1>a, <1>b, <1>c DEF Next, Lost

LEMMA TombGrows ==
  ASSUME [Next]_vars
  PROVE  tomb \subseteq tomb'
  <1>a. ASSUME NEW m \in Member,
               \/ Freeze(m) \/ Verify(m) \/ Gate(m) \/ NoAbort(m) \/ Create(m) \/ AbortArmed(m)
               \/ FirstGuard(m) \/ Strand(m) \/ SecondGuard(m) \/ RollbackStranded(m)
               \/ EarlyAborts(m) \/ Crash(m) \/ FreshJournal(m) \/ Beacon(m)
        PROVE  tomb \subseteq tomb'
    BY <1>a DEF Freeze, Verify, Gate, NoAbort, Create, AbortArmed, FirstGuard, Strand, SecondGuard,
         RollbackStranded, EarlyAborts, Crash, FreshJournal, Beacon, Tombstone, seenBy
  <1>b. Lost \/ Backup \/ ReachH \/ SignAbort \/ UNCHANGED vars => tomb' = tomb
    BY DEF Backup, Lost, RelayLost, ReachH, SignAbort, vars, seenBy
  <1> QED BY <1>a, <1>b DEF Next, Lost

LEMMA CreatedStays ==
  ASSUME Locals, Own, [Next]_vars
  PROVE  \A m \in Member : st[m] = "CREATED" => st'[m] = "CREATED"
  <1> USE DEF Locals, Own, VerifiedLate
  <1>a. ASSUME NEW m \in Member,
               \/ Freeze(m) \/ Verify(m) \/ Gate(m) \/ NoAbort(m) \/ Create(m) \/ AbortArmed(m)
               \/ FirstGuard(m) \/ Strand(m) \/ SecondGuard(m) \/ RollbackStranded(m)
        PROVE  \A p \in Member : st[p] = "CREATED" => st'[p] = "CREATED"
    BY <1>a DEF Freeze, Verify, Gate, NoAbort, Create, AbortArmed, FirstGuard, Strand, SecondGuard,
         RollbackStranded, Running, Guarded, Move
  <1>b. ASSUME NEW m \in Member, EarlyAborts(m) \/ Crash(m) \/ FreshJournal(m) \/ Beacon(m)
        PROVE  \A p \in Member : st[p] = "CREATED" => st'[p] = "CREATED"
    BY <1>b DEF EarlyAborts, Crash, FreshJournal, Beacon, Move, local
  <1>c. Lost \/ Backup \/ ReachH \/ SignAbort \/ UNCHANGED vars => st' = st
    BY DEF Backup, Lost, RelayLost, ReachH, SignAbort, vars, local
  <1> QED BY <1>a, <1>b, <1>c DEF Next, Lost

Marks == mark \in [Member -> Mark]

LEMMA MarkFields ==
  ASSUME NEW c, NEW r
  PROVE  /\ NextMark(c, r).seen <=> (c.seen \/ Verified(r))
         /\ NextMark(c, r).exited <=>
              (c.exited \/ (EarlyAbort /\ ~(c.seen \/ Verified(r)) /\ Exit(r)))
  BY DEF NextMark

LEMMA TellsStill ==
  ASSUME Locals, Own, [Next]_vars, NEW r, NEW k, Tells(r, k)
  PROVE  /\ \A m \in Member : k[m].exited => m \in tomb'
         /\ \A m \in Member : Verified(r[m]) => k[m].seen
         /\ \A m \in Member : r[m].st = "CREATED" => st'[m] = "CREATED"
  BY TombGrows, CreatedStays DEF Tells

LEMMA MarksStep ==
  ASSUME Locals, Own, Marks, rep \in [Member -> Report \cup {None}], MarksTrue, [Next]_vars
  PROVE  MarksTrue'
  <1>1. CASE rep' = rep /\ mark' = mark /\ saved' = saved
    BY <1>1, TellsStill DEF MarksTrue, Tells, Verified
  <1>2. ASSUME NEW m \in Member, Raised(m), saved' = saved
        PROVE  MarksTrue'
    <2> DEFINE r == [st |-> st[m], ver |-> ver[m], going |-> going[m]]
    <2>1. /\ rep'[m] = r /\ mark'[m] = NextMark(mark[m], r)
          /\ \A p \in Member \ {m} : rep'[p] = rep[p] /\ mark'[p] = mark[p]
      BY <1>2 DEF Raised, Marks
    <2>2. Exit(r) /\ EarlyAbort => m \in tomb
      BY DEF Exit, Verified, Own, ExitsHoldTomb
    <2>3. mark'[m].exited => m \in tomb'
      BY <2>1, <2>2, MarkFields, TombGrows DEF MarksTrue, Tells
    <2>4. Verified(rep'[m]) => mark'[m].seen
      BY <2>1, MarkFields
    <2>5. rep'[m].st = "CREATED" => st'[m] = "CREATED"
      BY <2>1, CreatedStays
    <2>6. \A p \in Member \ {m} : /\ mark'[p].exited => p \in tomb'
                                  /\ Verified(rep'[p]) => mark'[p].seen
                                  /\ rep'[p].st = "CREATED" => st'[p] = "CREATED"
      <3>1. Tells(rep, mark)
        BY DEF MarksTrue
      <3>2. \A p \in Member : /\ mark[p].exited => p \in tomb'
                              /\ Verified(rep[p]) => mark[p].seen
                              /\ rep[p].st = "CREATED" => st'[p] = "CREATED"
        BY <3>1, TombGrows, CreatedStays DEF Tells
      <3>3. \A p \in Member \ {m} : rep'[p] = rep[p] /\ mark'[p] = mark[p]
        BY <2>1
      <3> QED BY <3>2, <3>3 DEF Verified
    <2>7. Tells(rep, mark)'
      <3> SUFFICES ASSUME NEW p \in Member
                   PROVE  /\ mark'[p].exited => p \in tomb'
                          /\ Verified(rep'[p]) => mark'[p].seen
                          /\ rep'[p].st = "CREATED" => st'[p] = "CREATED"
        BY DEF Tells, Verified
      <3>1. CASE p = m
        BY <2>3, <2>4, <2>5, <3>1
      <3>2. CASE p # m
        BY <2>6, <3>2
      <3> QED BY <3>1, <3>2
    <2>8. Tells(saved.rep, saved.mark)'
      BY <1>2, TombGrows, CreatedStays DEF MarksTrue, Tells, Verified
    <2> QED
      BY <2>7, <2>8 DEF MarksTrue
  <1>3. ASSUME NEW c \in BOOLEAN, NEW b \in SUBSET Member, RelayLost(c, b)
        PROVE  MarksTrue'
    BY <1>3, TellsStill DEF RelayLost, MarksTrue, Tells, Verified
  <1>4. CASE Backup
    BY <1>4, TellsStill DEF Backup, MarksTrue, Tells, Verified
  <1> QED
    <2>1. \A m \in Member : Beacon(m) => saved' = saved
      BY DEF Beacon
    <2> QED BY <1>1, <1>2, <1>3, <1>4, <2>1, RelaySteps DEF Lost

Typed == Locals /\ Marks /\ rep \in [Member -> Report \cup {None}]

LEMMA TypedHolds == TypeOK => Typed
  BY LocalsType DEF TypeOK, Typed, Marks

\* Tombstones and marks together.
LEMMA AgreementStep ==
  TypeOK /\ Own /\ MarksTrue /\ [Next]_vars => Own' /\ MarksTrue'
  BY TypedHolds, OwnStep, MarksStep DEF Typed

LEMMA MarksInit == Init => MarksTrue
  BY DEF Init, MarksTrue, Tells, NoMark, None, Verified

-----------------------------------------------------------------------------
(* The early abort's proof. *)

\* A relay that has lost nothing yet keeps every verified mark and everybody gone.
LEMMA GoneGrows ==
  ASSUME relay'.era = 0, TypeOK, Own, MarksTrue, [Next]_vars
  PROVE  /\ Gone \subseteq Gone'
         /\ \A p \in Member : mark[p].seen => mark'[p].seen
  <1>1. CASE rep' = rep /\ mark' = mark
    BY <1>1 DEF Gone
  <1>2. ASSUME NEW m \in Member, Raised(m)
        PROVE  /\ Gone \subseteq Gone'
               /\ \A p \in Member : mark[p].seen => mark'[p].seen
    <2> DEFINE r == [st |-> st[m], ver |-> ver[m], going |-> going[m]]
    <2>1. /\ mark'[m] = NextMark(mark[m], r)
          /\ \A p \in Member \ {m} : mark'[p] = mark[p]
      BY <1>2, TypedHolds DEF Raised, Typed, Marks
    <2>2. m \in Gone => ~Verified(r)
      BY DEF Gone, MarksTrue, Tells, Own, TombEnds, Verified, Out
    <2>3. mark[m].seen => mark'[m].seen
      BY <2>1, MarkFields
    <2>4. m \in Gone => mark'[m].exited /\ ~mark'[m].seen
      BY <2>1, <2>2, MarkFields DEF Gone
    <2> QED BY <2>1, <2>3, <2>4 DEF Gone
  <1>3. ASSUME NEW c \in BOOLEAN, NEW b \in SUBSET Member, RelayLost(c, b)
        PROVE  FALSE
    BY <1>3 DEF RelayLost, TypeOK
  <1>4. CASE Backup
    BY <1>4 DEF Backup, Gone
  <1> QED BY <1>1, <1>2, <1>3, <1>4, RelaySteps DEF Lost

\* Whoever a gate counts has a report the relay marked verified.
LEMMA CountedStep ==
  ASSUME relay'.era = 0, TypeOK, Own, MarksTrue, CountedVerified, [Next]_vars
  PROVE  CountedVerified'
  <1>s. \A p \in Member : mark[p].seen => mark'[p].seen
    BY GoneGrows
  <1>t. /\ counted \in [Member -> SUBSET Member] /\ st \in [Member -> States]
        /\ pc \in [Member -> {"run", "gated", "cleared", "withdraw"}]
    BY DEF TypeOK
  <1>a. ASSUME UNCHANGED counted,
               \A m \in Member : pc'[m] \in {"gated", "cleared"} \/ st'[m] = "CREATED" =>
                                 pc[m] \in {"gated", "cleared"} \/ st[m] = "CREATED"
        PROVE  CountedVerified'
    BY <1>a, <1>s, <1>t DEF CountedVerified
  <1>b. ASSUME NEW m \in Member,
               \/ Freeze(m) \/ Verify(m) \/ NoAbort(m) \/ Create(m) \/ AbortArmed(m)
               \/ FirstGuard(m) \/ Strand(m) \/ Crash(m)
        PROVE  CountedVerified'
    <2>1. /\ UNCHANGED counted
          /\ \A p \in Member : pc'[p] \in {"gated", "cleared"} \/ st'[p] = "CREATED" =>
                                 pc[p] \in {"gated", "cleared"} \/ st[p] = "CREATED"
      BY <1>b, <1>t DEF Freeze, Verify, NoAbort, Create, AbortArmed, FirstGuard, Strand, Crash,
           Move, seenBy
    <2> QED BY <2>1, <1>a
  <1>c. ASSUME NEW m \in Member,
               SecondGuard(m) \/ RollbackStranded(m) \/ EarlyAborts(m) \/ Beacon(m)
        PROVE  CountedVerified'
    <2>1. /\ UNCHANGED counted
          /\ \A p \in Member : pc'[p] \in {"gated", "cleared"} \/ st'[p] = "CREATED" =>
                                 pc[p] \in {"gated", "cleared"} \/ st[p] = "CREATED"
      BY <1>c, <1>t DEF SecondGuard, RollbackStranded, EarlyAborts, Beacon, Move, seenBy, local
    <2> QED BY <2>1, <1>a
  <1>d. ASSUME NEW m \in Member, Gate(m)
        PROVE  CountedVerified'
    <2>1. CASE UNCHANGED <<st, pc, counted>>
      BY <1>d, <2>1, <1>t DEF Gate, CountedVerified, world
    <2>2. CASE ~UNCHANGED <<st, pc, counted>>
      <3>1. PICK f \in Fresh :
              /\ Cardinality(Agreeing(m, f, Noted(m))) >= Quorum
              /\ counted' = [counted EXCEPT ![m] = Agreeing(m, f, Noted(m))]
              /\ st' = [st EXCEPT ![m] = "VERIFIED"] /\ pc' = [pc EXCEPT ![m] = "gated"]
        BY <1>d, <2>2 DEF Gate, Move
      <3>2. mark' = mark
        BY <1>d DEF Gate, world
      <3>3. \A p \in Agreeing(m, f, Noted(m)) : mark[p].seen
        BY DEF Agreeing, Fresh, MarksTrue, Tells, Verified
      <3> QED BY <3>1, <3>2, <3>3, <1>t DEF CountedVerified
    <2> QED BY <2>1, <2>2
  <1>e. ASSUME NEW m \in Member, FreshJournal(m)
        PROVE  CountedVerified'
    BY <1>e, <1>s, <1>t DEF FreshJournal, CountedVerified, Move
  <1>f. ASSUME Backup \/ ReachH \/ SignAbort \/ Lost \/ UNCHANGED vars
        PROVE  CountedVerified'
    BY <1>f, <1>a DEF Backup, ReachH, SignAbort, Lost, RelayLost, vars, seenBy, local
  <1> QED BY <1>b, <1>c, <1>d, <1>e, <1>f DEF Next, Lost

\* The members proved out hold an exit mark and no verified mark.
LEMMA ProofStep ==
  ASSUME relay'.era = 0, TypeOK, Own, MarksTrue, ProofStands, [Next]_vars
  PROVE  ProofStands'
  <1>1. /\ IsFiniteSet(Member) /\ Cardinality(Member) \in Nat /\ Quorum \in Nat
        /\ \A S \in SUBSET Member : IsFiniteSet(S) /\ Cardinality(S) \in Nat
    BY FleetAssumption, FS_CardinalityType, FS_Subset
  <1>2. Gone \subseteq Gone' /\ Gone' \subseteq Member
    BY GoneGrows DEF Gone
  <1>3. Cardinality(Gone) <= Cardinality(Gone')
    BY <1>1, <1>2, FS_Subset
  <1>4. CASE proved' = proved
    BY <1>1, <1>2, <1>3, <1>4 DEF ProofStands
  <1>5. ASSUME NEW m \in Member, NEW f \in Fresh, QuorumUnreachable(m, f, Noted(m)), mark' = mark
        PROVE  ProofStands'
    <2>1. DurablyOut(m, f, Noted(m)) \subseteq Gone
      BY DEF DurablyOut, Gone
    <2>2. Gone' = Gone /\ Gone \subseteq Member
      BY <1>5 DEF Gone
    <2>3. Cardinality(DurablyOut(m, f, Noted(m))) <= Cardinality(Gone')
      BY <1>1, <2>1, <2>2, FS_Subset
    <2>4. Cardinality(Member) - Cardinality(DurablyOut(m, f, Noted(m))) < Quorum
      BY <1>5 DEF QuorumUnreachable
    <2>5. Cardinality(DurablyOut(m, f, Noted(m))) \in Nat /\ Cardinality(Gone') \in Nat
      BY <1>1, <2>1, <2>2
    <2> QED BY <1>1, <2>3, <2>4, <2>5 DEF ProofStands
  <1>6. ASSUME NEW m \in Member, EarlyAborts(m)
        PROVE  ProofStands'
    <2>1. proved' = proved \/ \E f \in Fresh : QuorumUnreachable(m, f, Noted(m))
      BY <1>6 DEF EarlyAborts, QuorumVerdict
    <2>2. mark' = mark
      BY <1>6 DEF EarlyAborts, world
    <2> QED BY <2>1, <2>2, <1>4, <1>5
  <1>7. ASSUME NEW m \in Member,
               \/ Freeze(m) \/ Verify(m) \/ Gate(m) \/ NoAbort(m) \/ Create(m) \/ AbortArmed(m)
               \/ FirstGuard(m) \/ Strand(m) \/ SecondGuard(m) \/ RollbackStranded(m)
               \/ Crash(m) \/ FreshJournal(m) \/ Beacon(m)
        PROVE  proved' = proved
    BY <1>7 DEF Freeze, Verify, Gate, NoAbort, Create, AbortArmed, FirstGuard, Strand, SecondGuard,
         RollbackStranded, Crash, FreshJournal, Beacon, Return, ghosts
  <1>8. Backup \/ ReachH \/ SignAbort \/ Lost \/ UNCHANGED vars => proved' = proved
    BY DEF Backup, ReachH, SignAbort, Lost, RelayLost, vars, ghosts
  <1> QED BY <1>4, <1>6, <1>7, <1>8 DEF Next, Lost

\* The members a gate counted and the members proved out are disjoint.
LEMMA ProofForbidsGates ==
  ASSUME TypeOK, CountedVerified, ProofStands
  PROVE  NoGateAfterProof
  <1> SUFFICES ASSUME proved, NEW m \in Member, pc[m] \in {"gated", "cleared"} \/ st[m] = "CREATED"
               PROVE  FALSE
    BY DEF NoGateAfterProof
  <1>1. /\ Cardinality(counted[m]) >= Quorum /\ \A p \in counted[m] : mark[p].seen
        /\ Cardinality(Member) - Cardinality(Gone) < Quorum
    BY DEF CountedVerified, ProofStands
  <1>2. IsFiniteSet(Member) /\ counted[m] \subseteq Member /\ Gone \subseteq Member
    BY FleetAssumption DEF TypeOK, Gone
  <1>3. /\ Cardinality(Member) \in Nat /\ Cardinality(counted[m]) \in Nat
        /\ Cardinality(Gone) \in Nat /\ Quorum \in Nat
    BY <1>2, FleetAssumption, FS_CardinalityType, FS_Subset
  <1>4. Cardinality(counted[m]) + Cardinality(Gone) > Cardinality(Member)
    BY <1>1, <1>3
  <1>5. counted[m] \cap Gone # {}
    BY <1>2, <1>4, FS_MajoritiesIntersect
  <1> QED BY <1>1, <1>5 DEF Gone

\* For any roster and quorum, as long as the relay keeps its marks: once a member took
\* the early abort, nobody has passed the fleet gate and nobody will.
THEOREM ProofIsFinal == MaxLoss = 0 => (Spec => []NoGateAfterProof)
  <1> SUFFICES ASSUME MaxLoss = 0 PROVE Spec => []NoGateAfterProof
    OBVIOUS
  <1> DEFINE IInv == TypeOK /\ Own /\ MarksTrue /\ CountedVerified /\ ProofStands
  <1>1. Init => IInv
    <2>1. Init => CountedVerified /\ ProofStands
      BY DEF Init, CountedVerified, ProofStands
    <2> QED BY <2>1, TypeInit, OwnInit, MarksInit
  <1>2. IInv /\ [Next]_vars => IInv'
    <2> SUFFICES ASSUME IInv, [Next]_vars PROVE IInv'
      OBVIOUS
    <2>1. TypeOK'
      BY TypeStep
    <2>2. relay'.era = 0
      BY <2>1 DEF TypeOK
    <2> QED BY <2>1, <2>2, AgreementStep, CountedStep, ProofStep
  <1>3. IInv => NoGateAfterProof
    BY ProofForbidsGates
  <1> QED BY <1>1, <1>2, <1>3, PTL DEF Spec

-----------------------------------------------------------------------------
(* A member that returned stays out.                                        *)

\* The pieces of a step that ReturnedShowsOut depends on.
LEMMA ReturnedStep ==
  ASSUME EarlyAbort, ~Hasty, TypeOK, Own, MarksTrue, ReturnedShowsOut, [Next]_vars
  PROVE  ReturnedShowsOut'
  <1>t. /\ Typed /\ back \subseteq Member /\ tomb \subseteq tomb'
    BY TypedHolds, TombGrows DEF TypeOK
  <1> USE <1>t DEF Typed, Locals, Out, States
  <1>a. ASSUME NEW m \in Member,
               \/ Freeze(m) \/ Verify(m) \/ Gate(m) \/ NoAbort(m) \/ Create(m) \/ AbortArmed(m)
        PROVE  ReturnedShowsOut'
    BY <1>a DEF ReturnedShowsOut, Own, VerifiedLate, Freeze, Verify, Gate, NoAbort, Create, AbortArmed,
         Running, Move, world, ghosts
  <1>b. ASSUME NEW m \in Member, FirstGuard(m) \/ Strand(m) \/ Crash(m)
        PROVE  ReturnedShowsOut'
    BY <1>b DEF ReturnedShowsOut, FirstGuard, Strand, Crash, Guarded, Move, world, ghosts
  <1>c. ASSUME NEW m \in Member, SecondGuard(m)
        PROVE  ReturnedShowsOut'
    <2>1. /\ rep[m].st # "VERIFIED" \/ rep[m].going
          /\ back' = back \cup {m} /\ st' = [st EXCEPT ![m] = "ABORTED"]
          /\ UNCHANGED <<rep, relay, tomb, atH, ver>>
      BY <1>c DEF SecondGuard, GuardPasses, Withdrawn, Return, Move, world
    <2>2. m \in tomb \/ atH
      BY <1>c DEF SecondGuard, Own, ExitsHoldTomb, VerifiedLate
    <2> QED BY <2>1, <2>2 DEF ReturnedShowsOut
  <1>d. ASSUME NEW m \in Member, RollbackStranded(m)
        PROVE  ReturnedShowsOut'
    <2>1. /\ rep[m].st = "STRANDED" /\ st[m] = "STRANDED"
          /\ back' = back \cup {m} /\ st' = [st EXCEPT ![m] = "ABORTED"]
          /\ UNCHANGED <<rep, relay, tomb, atH, ver>>
      BY <1>d DEF RollbackStranded, Return, Move, world
    <2>2. m \in tomb \/ atH
      BY <2>1 DEF Own, ExitsHoldTomb, VerifiedLate
    <2> QED BY <2>1, <2>2 DEF ReturnedShowsOut
  <1>e. ASSUME NEW m \in Member, EarlyAborts(m)
        PROVE  ReturnedShowsOut'
    BY <1>e DEF ReturnedShowsOut, EarlyAborts, Move, world
  <1>f. ASSUME NEW m \in Member, FreshJournal(m)
        PROVE  ReturnedShowsOut'
    <2>1. relay'.stale = relay.stale
      BY <1>f DEF FreshJournal, TypeOK
    <2> QED BY <1>f, <2>1 DEF ReturnedShowsOut, FreshJournal, Arms, Move, ghosts
  <1>g. ASSUME NEW m \in Member, Beacon(m)
        PROVE  ReturnedShowsOut'
    BY <1>g DEF ReturnedShowsOut, Beacon, TypeOK, local, seenBy, ghosts
  <1>h. ASSUME NEW c \in BOOLEAN, NEW b \in SUBSET Member, RelayLost(c, b)
        PROVE  ReturnedShowsOut'
    BY <1>h DEF ReturnedShowsOut, RelayLost, local, seenBy, ghosts
  <1>i. CASE Backup \/ ReachH \/ SignAbort \/ UNCHANGED vars
    BY <1>i DEF ReturnedShowsOut, Backup, ReachH, SignAbort, vars, local, seenBy, ghosts
  <1> QED BY <1>a, <1>b, <1>c, <1>d, <1>e, <1>f, <1>g, <1>h, <1>i DEF Next

\* A gate counts nobody who shows out.
LEMMA AgreeingStays ==
  ASSUME TypeOK, MarksTrue, ReturnedShowsOut, NEW p \in Member, NEW f \in Fresh, NEW k
  PROVE  Agreeing(p, f, k) \cap back = {}
  <1>1. \A q \in Agreeing(p, f, k) : /\ q \in Member /\ ~rep[q].going
                                     /\ q \notin relay.stale
                                     /\ rep[q].st \in {"VERIFIED", "CREATED"}
    BY DEF Agreeing, Fresh
  <1>2. \A q \in back : /\ q \in Member /\ rep[q].st # "CREATED"
                        /\ rep[q].st = "VERIFIED" => rep[q].going \/ q \in relay.stale
    BY DEF ReturnedShowsOut, MarksTrue, Tells, Out, TypeOK
  <1> QED BY <1>1, <1>2

LEMMA CountsNoReturned ==
  ASSUME TypeOK, MarksTrue, ReturnedShowsOut, [Next]_vars, NEW m \in Member
  PROVE  counted'[m] \cap (back \ blind) \subseteq counted[m]
  <1>t. counted \in [Member -> SUBSET Member]
    BY DEF TypeOK
  <1>1. ASSUME NEW p \in Member, Gate(p)
        PROVE  counted'[m] \cap (back \ blind) \subseteq counted[m]
    <2>1. \/ \E f \in Fresh : counted' = [counted EXCEPT ![p] = Agreeing(p, f, Noted(p))]
          \/ UNCHANGED counted
      BY <1>1 DEF Gate
    <2>2. \A f \in Fresh : Agreeing(p, f, Noted(p)) \cap back = {}
      BY AgreeingStays
    <2> QED BY <2>1, <2>2, <1>t
  <1>2. ASSUME NEW p \in Member, FreshJournal(p)
        PROVE  counted'[m] \cap (back \ blind) \subseteq counted[m]
    BY <1>2, <1>t DEF FreshJournal
  <1>3. ASSUME NEW p \in Member,
               \/ Freeze(p) \/ Verify(p) \/ NoAbort(p) \/ Create(p) \/ AbortArmed(p)
               \/ FirstGuard(p) \/ Strand(p) \/ SecondGuard(p) \/ RollbackStranded(p)
               \/ EarlyAborts(p) \/ Crash(p) \/ Beacon(p)
        PROVE  counted' = counted
    BY <1>3 DEF Freeze, Verify, NoAbort, Create, AbortArmed, FirstGuard, Strand, SecondGuard,
         RollbackStranded, EarlyAborts, Crash, Beacon, seenBy
  <1>4. Backup \/ ReachH \/ SignAbort \/ Lost \/ UNCHANGED vars => counted' = counted
    BY DEF Backup, ReachH, SignAbort, Lost, RelayLost, vars, seenBy
  <1> QED BY <1>1, <1>2, <1>3, <1>4 DEF Next, Lost

\* For any roster, quorum and number of relay losses: with the early abort on and operators
\* that wait until the relay shows a member STRANDED, no gate counts a returned member.
THEOREM NeverCountedAgain == EarlyAbort /\ ~Hasty => (Spec => ReturnedNeverCounts)
  <1> SUFFICES ASSUME EarlyAbort, ~Hasty PROVE Spec => ReturnedNeverCounts
    OBVIOUS
  <1> DEFINE IInv == TypeOK /\ Own /\ MarksTrue /\ ReturnedShowsOut
  <1>1. Init => IInv
    <2>1. Init => ReturnedShowsOut
      BY DEF Init, ReturnedShowsOut
    <2> QED BY <2>1, TypeInit, OwnInit, MarksInit
  <1>2. IInv /\ [Next]_vars => IInv'
    BY TypeStep, AgreementStep, ReturnedStep
  <1>3. IInv /\ [Next]_vars =>
          [\A m \in Member : counted'[m] \cap (back \ blind) \subseteq counted[m]]_vars
    BY CountsNoReturned
  <1> QED BY <1>1, <1>2, <1>3, PTL DEF Spec, ReturnedNeverCounts
-----------------------------------------------------------------------------
(***************************************************************************)
(* For any roster, quorum and number of relay losses, with the early abort *)
(* on and operators that wait: nobody goes ahead while another is back     *)
(* except on the word that other gave before it returned, and the fleet    *)
(* implements OneChain.                                                    *)
(*                                                                         *)
(* Only a member that reads a relay in its first era returns unnoticed by  *)
(* blind, and in that era a gate that was passed counted a quorum of       *)
(* verified marks.  So when the guard lets m go without a signed abort,    *)
(* whoever is past a gate counted m (the others in the ceremony are no     *)
(* quorum), and fewer than a quorum can ever show VERIFIED again; with one *)
(* nobody is past a gate, and whoever passes one later stops before the    *)
(* creation.  Both stay so, whatever the relay loses.                      *)
(***************************************************************************)

\* In the first era, a gate that was passed counted a quorum of verified marks.
FirstEraCounts == relay.era = 0 => CountedVerified

\* Whom the reports r show out without a verification holds its tombstone.
ShowsTombs(r) ==
  \A p \in Member : r[p].st \in Out /\ ~Verified(r[p]) => p \in tomb

ExitsShown == ShowsTombs(rep) /\ ShowsTombs(saved.rep)

\* Members no gate can count any more: they returned, or their box ended the
\* event and the relay has no fresh report that it verified.
Shut == {p \in Member : \/ p \in back
                        \/ p \in tomb /\ (Verified(rep[p]) => p \in relay.stale)}

Returned == back \ blind

\* Whoever is about to create or has created counted m, and so did whoever may
\* still be about to.
Ways(m) ==
  /\ \A p \in Member : pc[p] = "cleared" \/ st[p] = "CREATED" => m \in counted[p]
  /\ signed \/ \A p \in Member : pc[p] = "gated" => m \in counted[p]

\* A signed abort, or the lack of a quorum that could still show VERIFIED,
\* keeps it so once m has returned.
Kept(m) == Ways(m) /\ (signed \/ Cardinality(Member \ Shut) < Quorum)

Closed == \A m \in Returned : Kept(m)

Agreed == TypeOK /\ Own /\ MarksTrue /\ ReturnedShowsOut

-----------------------------------------------------------------------------
(* What holds of the relay in every step. *)

LEMMA EraStep ==
  ASSUME TypeOK, [Next]_vars
  PROVE  relay'.era = 0 => relay.era = 0
  <1>a. ASSUME NEW m \in Member,
               \/ Freeze(m) \/ Verify(m) \/ Gate(m) \/ NoAbort(m) \/ Create(m) \/ AbortArmed(m)
               \/ FirstGuard(m) \/ Strand(m) \/ SecondGuard(m) \/ RollbackStranded(m)
               \/ EarlyAborts(m) \/ Crash(m)
        PROVE  relay' = relay
    BY <1>a DEF Freeze, Verify, Gate, NoAbort, Create, AbortArmed, FirstGuard, Strand, SecondGuard,
         RollbackStranded, EarlyAborts, Crash, world
  <1>b. ASSUME NEW m \in Member, Beacon(m) \/ FreshJournal(m)
        PROVE  relay'.era = relay.era
    BY <1>b DEF Beacon, FreshJournal, TypeOK
  <1>c. ASSUME NEW c \in BOOLEAN, NEW b \in SUBSET Member, RelayLost(c, b)
        PROVE  relay'.era # 0
    BY <1>c DEF RelayLost, TypeOK
  <1>d. Backup \/ ReachH \/ SignAbort \/ UNCHANGED vars => relay' = relay
    BY DEF Backup, ReachH, SignAbort, vars
  <1> QED BY <1>a, <1>b, <1>c, <1>d DEF Next

LEMMA FirstEraStep ==
  ASSUME TypeOK, Own, MarksTrue, FirstEraCounts, [Next]_vars
  PROVE  FirstEraCounts'
  BY EraStep, CountedStep DEF FirstEraCounts

LEMMA ExitsShownStep ==
  ASSUME EarlyAbort, TypeOK, Own, ExitsShown, [Next]_vars
  PROVE  ExitsShown'
  <1>0. tomb \subseteq tomb'
    BY TombGrows
  <1>1. CASE rep' = rep /\ mark' = mark /\ saved' = saved
    BY <1>0, <1>1 DEF ExitsShown, ShowsTombs, Verified
  <1>2. ASSUME NEW m \in Member, Beacon(m), Raised(m)
        PROVE  ExitsShown'
    <2>1. /\ rep' = [rep EXCEPT ![m] = [st |-> st[m], ver |-> ver[m], going |-> going[m]]]
          /\ saved' = saved
      BY <1>2 DEF Raised, Beacon
    <2>2. st[m] \in Out /\ ~ver[m] => m \in tomb
      BY DEF Own, ExitsHoldTomb
    <2>3. rep \in [Member -> Report \cup {None}]
      BY DEF TypeOK
    <2> QED BY <1>0, <2>1, <2>2, <2>3 DEF ExitsShown, ShowsTombs, Verified
  <1>3. ASSUME NEW c \in BOOLEAN, NEW b \in SUBSET Member, RelayLost(c, b)
        PROVE  ExitsShown'
    BY <1>0, <1>3 DEF RelayLost, ExitsShown, ShowsTombs, Verified
  <1>4. CASE Backup
    BY <1>0, <1>4 DEF Backup, ExitsShown, ShowsTombs, Verified
  <1> QED BY <1>1, <1>2, <1>3, <1>4, RelaySteps DEF Lost

LEMMA BackGrows ==
  ASSUME [Next]_vars
  PROVE  /\ back \subseteq back'
         /\ \/ back' = back /\ blind' = blind
            \/ \E m \in Member : (SecondGuard(m) \/ RollbackStranded(m)) /\ Return(m)
  <1>a. ASSUME NEW m \in Member,
               \/ Freeze(m) \/ Verify(m) \/ Gate(m) \/ NoAbort(m) \/ Create(m) \/ AbortArmed(m)
               \/ FirstGuard(m) \/ Strand(m)
               \/ EarlyAborts(m) \/ Crash(m) \/ FreshJournal(m) \/ Beacon(m)
        PROVE  back' = back /\ blind' = blind
    BY <1>a DEF Freeze, Verify, Gate, NoAbort, Create, AbortArmed, FirstGuard, Strand,
         EarlyAborts, Crash, FreshJournal, Beacon, ghosts
  <1>b. ASSUME NEW m \in Member, SecondGuard(m) \/ RollbackStranded(m)
        PROVE  Return(m) /\ back \subseteq back'
    BY <1>b DEF SecondGuard, RollbackStranded, Return
  <1>c. Lost \/ Backup \/ ReachH \/ SignAbort \/ UNCHANGED vars
          => back' = back /\ blind' = blind
    BY DEF Backup, Lost, RelayLost, ReachH, SignAbort, vars, ghosts
  <1> QED BY <1>a, <1>b, <1>c DEF Next, Lost

\* A member no gate can count stays one.
LEMMA ShutGrows ==
  ASSUME TypeOK, Own, [Next]_vars
  PROVE  Shut \subseteq Shut'
  <1>0. tomb \subseteq tomb' /\ back \subseteq back'
    BY TombGrows, BackGrows
  <1>1. ASSUME rep' = rep, relay'.stale = relay.stale
        PROVE  Shut \subseteq Shut'
    BY <1>0, <1>1 DEF Shut, Verified
  <1>2. ASSUME NEW m \in Member, Beacon(m)
        PROVE  Shut \subseteq Shut'
    <2>1. /\ rep' = [rep EXCEPT ![m] = [st |-> st[m], ver |-> ver[m], going |-> going[m]]]
          /\ relay'.stale = relay.stale \ {m}
          /\ rep \in [Member -> Report \cup {None}]
      BY <1>2 DEF Beacon, TypeOK
    <2>2. m \in tomb => ~ver[m] /\ st[m] \notin {"VERIFIED", "CREATED"}
      BY DEF Own, TombEnds, Out
    <2>3. m \in tomb => ~Verified(rep'[m])
      BY <2>1, <2>2 DEF Verified
    <2> QED BY <1>0, <2>1, <2>3 DEF Shut, Verified
  <1>3. ASSUME NEW c \in BOOLEAN, NEW b \in SUBSET Member, RelayLost(c, b)
        PROVE  Shut \subseteq Shut'
    BY <1>0, <1>3 DEF RelayLost, Shut
  <1>4. ASSUME NEW m \in Member,
               \/ Freeze(m) \/ Verify(m) \/ Gate(m) \/ NoAbort(m) \/ Create(m) \/ AbortArmed(m)
               \/ FirstGuard(m) \/ Strand(m) \/ SecondGuard(m) \/ RollbackStranded(m)
               \/ EarlyAborts(m) \/ Crash(m)
        PROVE  rep' = rep /\ relay' = relay
    BY <1>4 DEF Freeze, Verify, Gate, NoAbort, Create, AbortArmed, FirstGuard, Strand, SecondGuard,
         RollbackStranded, EarlyAborts, Crash, world
  <1>6. ASSUME NEW m \in Member, FreshJournal(m)
        PROVE  rep' = rep /\ relay'.stale = relay.stale
    BY <1>6 DEF FreshJournal, TypeOK
  <1>5. Backup \/ ReachH \/ SignAbort \/ UNCHANGED vars => rep' = rep /\ relay' = relay
    BY DEF Backup, ReachH, SignAbort, vars
  <1> QED BY <1>1, <1>2, <1>3, <1>4, <1>5, <1>6 DEF Next

-----------------------------------------------------------------------------
(* The guard lets a member return only from a closed event. *)

LEMMA Sizes ==
  /\ Quorum \in Nat
  /\ \A S \in SUBSET Member : IsFiniteSet(S) /\ Cardinality(S) \in Nat
  /\ \A S \in SUBSET Member : \A T \in SUBSET S : Cardinality(T) <= Cardinality(S)
  BY FleetAssumption, FS_CardinalityType, FS_Subset

\* A member that could tell a restored relay passes no guard on one.
LEMMA SeenInFirstEra ==
  ASSUME TypeOK, NEW m \in Member, NEW f, GuardPasses(m, f, Noted(m)),
         Return(m), m \notin back, m \notin blind'
  PROVE  relay.era = 0
  <1>1. ~Noted(m).regressed
    BY DEF GuardPasses
  <1>2. ~Older(m)
    BY <1>1 DEF Noted
  <1>3. ~(relay.era > 0)
    BY <1>2 DEF Return
  <1>4. relay.era \in Nat
    BY FleetAssumption DEF TypeOK
  <1> QED BY <1>3, <1>4

\* Fewer than a quorum verified: nobody passed a gate.
LEMMA SignedGuard ==
  ASSUME TypeOK, CountedVerified, NEW k,
         Cardinality({p \in Member : MayHaveVerified(p, k)}) < Quorum
  PROVE  \A p \in Member : pc[p] \notin {"gated", "cleared"} /\ st[p] # "CREATED"
  <1> SUFFICES ASSUME NEW p \in Member, pc[p] \in {"gated", "cleared"} \/ st[p] = "CREATED"
               PROVE  FALSE
    OBVIOUS
  <1> DEFINE V == {q \in Member : MayHaveVerified(q, k)}
  <1>1. Cardinality(counted[p]) >= Quorum /\ counted[p] \subseteq V
    BY DEF CountedVerified, MayHaveVerified, TypeOK
  <1>2. Cardinality(counted[p]) <= Cardinality(V)
    BY <1>1, Sizes
  <1>3. V \in SUBSET Member /\ counted[p] \in SUBSET Member
    BY DEF TypeOK
  <1>4. Cardinality(V) \in Nat /\ Cardinality(counted[p]) \in Nat /\ Cardinality(V) < Quorum
    BY <1>3, Sizes
  <1> QED BY <1>1, <1>2, <1>4, Sizes

\* Too few others are in the ceremony to make a quorum: whoever passed a gate
\* counted m too.
LEMMA UnsignedGuard ==
  ASSUME TypeOK, Own, CountedVerified, NEW m \in Member, NEW k,
         pc[m] = "withdraw" \/ st[m] = "STRANDED",
         Cardinality(InCeremony(m, k)) < Quorum
  PROVE  \A p \in Member : pc[p] \in {"gated", "cleared"} \/ st[p] = "CREATED" => m \in counted[p]
  <1> SUFFICES ASSUME NEW p \in Member, pc[p] \in {"gated", "cleared"} \/ st[p] = "CREATED",
                      m \notin counted[p]
               PROVE  FALSE
    OBVIOUS
  <1>3. /\ Cardinality(counted[p]) >= Quorum
        /\ counted[p] \subseteq InCeremony(m, k)
    BY DEF CountedVerified, InCeremony, MayHaveVerified, TypeOK
  <1>4. InCeremony(m, k) \in SUBSET Member /\ counted[p] \in SUBSET Member
    BY DEF InCeremony, TypeOK
  <1>5. Cardinality(counted[p]) <= Cardinality(InCeremony(m, k))
    BY <1>3, <1>4, Sizes
  <1> QED BY <1>3, <1>4, <1>5, Sizes

\* What a member leaves behind when it returns.
LEMMA ReturnCloses ==
  ASSUME Agreed, FirstEraCounts, ExitsShown, NEW m \in Member,
         SecondGuard(m) \/ RollbackStranded(m), m \notin back, m \notin blind'
  PROVE  /\ \A p \in Member : pc[p] \in {"gated", "cleared"} \/ st[p] = "CREATED" => m \in counted[p]
         /\ signed \/ Cardinality(Member \ Shut') < Quorum
  <1>1. PICK f \in Fresh : GuardPasses(m, f, Noted(m))
    BY DEF SecondGuard, RollbackStranded
  <1>2. Return(m)
    BY DEF SecondGuard, RollbackStranded
  <1>3. CountedVerified
    BY <1>1, <1>2, SeenInFirstEra DEF Agreed, FirstEraCounts
  <1>4. pc[m] = "withdraw" \/ st[m] = "STRANDED"
    BY DEF SecondGuard, RollbackStranded
  <1>5. CASE signed /\ Cardinality({p \in Member : MayHaveVerified(p, Noted(m))}) < Quorum
    BY <1>3, <1>5, SignedGuard DEF Agreed
  <1>6. CASE Member \subseteq f /\ Cardinality(InCeremony(m, Noted(m))) < Quorum
    <2>2. \A p \in Member : pc[p] \in {"gated", "cleared"} \/ st[p] = "CREATED" => m \in counted[p]
      BY <1>3, <1>4, <1>6, UnsignedGuard DEF Agreed
    <2>3. UNCHANGED <<rep, relay, tomb>> /\ m \in back'
      BY <1>2 DEF SecondGuard, RollbackStranded, Return, world
    <2>4. Member \ Shut' \subseteq InCeremony(m, Noted(m))
      <3> SUFFICES ASSUME NEW p \in Member, p \notin InCeremony(m, Noted(m))
                   PROVE  p \in Shut'
        OBVIOUS
      <3>1. CASE p = m
        BY <2>3, <3>1 DEF Shut
      <3>2. CASE p # m
        <4>1. rep[p].st \in Out /\ ~mark[p].seen
          BY <3>2 DEF InCeremony, MayHaveVerified
        <4>2. ~Verified(rep[p])
          BY <4>1 DEF Agreed, MarksTrue, Tells
        <4>3. p \in tomb
          BY <4>1, <4>2 DEF ExitsShown, ShowsTombs
        <4> QED BY <2>3, <4>2, <4>3 DEF Shut, Verified
      <3> QED BY <3>1, <3>2
    <2>5. InCeremony(m, Noted(m)) \in SUBSET Member /\ Member \ Shut' \in SUBSET Member
      BY DEF InCeremony
    <2>6. /\ Cardinality(Member \ Shut') <= Cardinality(InCeremony(m, Noted(m)))
          /\ Cardinality(Member \ Shut') \in Nat /\ Cardinality(InCeremony(m, Noted(m))) \in Nat
      BY <2>4, <2>5, Sizes
    <2> QED BY <1>6, <2>2, <2>6, Sizes
  <1> QED BY <1>1, <1>5, <1>6 DEF GuardPasses

-----------------------------------------------------------------------------
(* The event stays closed. *)

\* No gate counts a member that is shut.
LEMMA CountsNoShut ==
  ASSUME Agreed, NEW p \in Member, NEW f \in Fresh, NEW k
  PROVE  Agreeing(p, f, k) \subseteq Member \ Shut
  <1> SUFFICES ASSUME NEW q \in Agreeing(p, f, k), q \in Shut PROVE FALSE
    BY RepliesType DEF Agreed
  <1>1. /\ q \in Member /\ q \notin relay.stale /\ ~rep[q].going
        /\ rep[q].st \in {"VERIFIED", "CREATED"}
    BY DEF Agreeing, Fresh
  <1>2. q \in back
    BY <1>1 DEF Shut, Verified
  <1>3. rep[q].st # "VERIFIED" /\ st[q] \in Out
    BY <1>1, <1>2 DEF Agreed, ReturnedShowsOut
  <1>4. st[q] = "CREATED"
    BY <1>1, <1>3 DEF Agreed, MarksTrue, Tells
  <1> QED BY <1>3, <1>4 DEF Out

\* Without a quorum that can still verify, no member passes the gate.
LEMMA GateShut ==
  ASSUME Agreed, Cardinality(Member \ Shut) < Quorum, NEW m \in Member, Gate(m)
  PROVE  UNCHANGED <<st, pc, counted>>
  <1>1. ASSUME NEW f \in Fresh, Cardinality(Agreeing(m, f, Noted(m))) >= Quorum
        PROVE  FALSE
    <2>1. Agreeing(m, f, Noted(m)) \in SUBSET (Member \ Shut)
      BY CountsNoShut
    <2>2. Member \ Shut \in SUBSET Member /\ Agreeing(m, f, Noted(m)) \in SUBSET Member
      BY <2>1
    <2>3. /\ Cardinality(Agreeing(m, f, Noted(m))) <= Cardinality(Member \ Shut)
          /\ Cardinality(Agreeing(m, f, Noted(m))) \in Nat /\ Cardinality(Member \ Shut) \in Nat
      BY <2>1, <2>2, Sizes
    <2> QED BY <1>1, <2>3, Sizes
  <1> QED BY <1>1 DEF Gate

\* Nobody gets past a gate, or ahead, by another way than m's word.
LEMMA WaysStep ==
  ASSUME Agreed, NEW m \in Member, Kept(m), [Next]_vars
  PROVE  Ways(m)'
  <1>t. /\ st \in [Member -> States] /\ pc \in [Member -> {"run", "gated", "cleared", "withdraw"}]
        /\ counted \in [Member -> SUBSET Member]
    BY DEF Agreed, TypeOK
  <1> USE DEF Kept, Ways
  <1>a. ASSUME NEW p \in Member, Gate(p)
        PROVE  Ways(m)'
    <2>1. signed' = signed
      BY <1>a DEF Gate, world
    <2>2. CASE signed
      <3>1. \/ UNCHANGED <<st, pc, counted>>
            \/ \E c \in {Agreeing(p, f, Noted(p)) : f \in Fresh} :
                 Move(p, "VERIFIED", "gated") /\ counted' = [counted EXCEPT ![p] = c]
        BY <1>a DEF Gate
      <3> QED BY <1>t, <2>1, <2>2, <3>1 DEF Move
    <2>3. CASE ~signed
      <3>1. UNCHANGED <<st, pc, counted>>
        BY <1>a, <2>3, GateShut
      <3> QED BY <2>1, <3>1
    <2> QED BY <2>2, <2>3
  <1>b. ASSUME NEW p \in Member, NoAbort(p) \/ Create(p)
        PROVE  Ways(m)'
    BY <1>b, <1>t DEF NoAbort, Create, Move, world, seenBy
  <1>c. ASSUME NEW p \in Member,
               \/ Freeze(p) \/ Verify(p) \/ AbortArmed(p) \/ FirstGuard(p) \/ Strand(p)
               \/ SecondGuard(p) \/ RollbackStranded(p) \/ EarlyAborts(p)
        PROVE  Ways(m)'
    BY <1>c, <1>t DEF Freeze, Verify, AbortArmed, FirstGuard, Strand, SecondGuard,
         RollbackStranded, EarlyAborts, Running, Guarded, Move, world, seenBy
  <1>d. ASSUME NEW p \in Member, Crash(p) \/ Beacon(p)
        PROVE  Ways(m)'
    BY <1>d, <1>t DEF Crash, Beacon, world, local, seenBy
  <1>g. ASSUME NEW p \in Member, FreshJournal(p)
        PROVE  Ways(m)'
    BY <1>g, <1>t DEF FreshJournal, Move
  <1>e. ASSUME NEW c \in BOOLEAN, NEW b \in SUBSET Member, RelayLost(c, b)
        PROVE  Ways(m)'
    BY <1>e DEF RelayLost, local, seenBy
  <1>f. CASE Backup \/ ReachH \/ SignAbort \/ UNCHANGED vars
    BY <1>f DEF Backup, ReachH, SignAbort, vars, local, seenBy
  <1> QED BY <1>a, <1>b, <1>c, <1>d, <1>e, <1>f, <1>g DEF Next

LEMMA SignedStays ==
  ASSUME [Next]_vars
  PROVE  signed => signed'
  <1>a. ASSUME NEW m \in Member,
               \/ Freeze(m) \/ Verify(m) \/ Gate(m) \/ NoAbort(m) \/ Create(m) \/ AbortArmed(m)
               \/ FirstGuard(m) \/ Strand(m) \/ SecondGuard(m) \/ RollbackStranded(m)
               \/ EarlyAborts(m) \/ Crash(m) \/ FreshJournal(m) \/ Beacon(m)
        PROVE  signed' = signed
    BY <1>a DEF Freeze, Verify, Gate, NoAbort, Create, AbortArmed, FirstGuard, Strand, SecondGuard,
         RollbackStranded, EarlyAborts, Crash, FreshJournal, Beacon, world
  <1>b. Lost \/ Backup \/ ReachH \/ UNCHANGED vars => signed' = signed
    BY DEF Lost, RelayLost, Backup, ReachH, vars
  <1>c. SignAbort => signed'
    BY DEF SignAbort
  <1> QED BY <1>a, <1>b, <1>c DEF Next, Lost

\* A step changes who has returned only when a member returns that could tell a
\* restored relay.
LEMMA ReturnedSteps ==
  ASSUME TypeOK, [Next]_vars
  PROVE  \/ Returned' = Returned
         \/ \E m \in Member : /\ SecondGuard(m) \/ RollbackStranded(m)
                              /\ m \notin back /\ m \notin blind'
                              /\ Returned' = Returned \cup {m}
  <1>1. CASE back' = back /\ blind' = blind
    BY <1>1 DEF Returned
  <1>2. ASSUME NEW m \in Member, SecondGuard(m) \/ RollbackStranded(m), Return(m)
        PROVE  \/ Returned' = Returned
               \/ /\ m \notin back /\ m \notin blind'
                  /\ Returned' = Returned \cup {m}
    <2>1. back' = back \cup {m} /\ blind \subseteq back
      BY <1>2 DEF Return, TypeOK
    <2>2. CASE m \in back
      BY <1>2, <2>1, <2>2 DEF Return, Returned
    <2>3. CASE m \notin back /\ m \in blind'
      <3>1. blind' = blind \cup {m}
        BY <1>2, <2>1, <2>3 DEF Return
      <3> QED BY <2>1, <2>3, <3>1 DEF Returned
    <2>4. CASE m \notin back /\ m \notin blind'
      <3>1. blind' = blind
        BY <1>2, <2>4 DEF Return
      <3> QED BY <2>1, <2>4, <3>1 DEF Returned
    <2> QED BY <2>2, <2>3, <2>4
  <1> QED BY <1>1, <1>2, BackGrows

LEMMA ClosedStep ==
  ASSUME Agreed, FirstEraCounts, ExitsShown, Closed, [Next]_vars
  PROVE  Closed'
  <1>0. Returned \subseteq Member
    BY DEF Returned, Agreed, TypeOK
  <1>1. ASSUME NEW r \in Returned
        PROVE  Kept(r)'
    <2>1. Kept(r)
      BY DEF Closed
    <2>2. Ways(r)'
      BY <1>0, <2>1, WaysStep
    <2>3. Shut \subseteq Shut' /\ (signed => signed')
      BY ShutGrows, SignedStays DEF Agreed
    <2>4. Cardinality(Member \ Shut) < Quorum => Cardinality(Member \ Shut') < Quorum
      <3>1. Member \ Shut' \in SUBSET (Member \ Shut) /\ Member \ Shut \in SUBSET Member
        BY <2>3
      <3>2. /\ Cardinality(Member \ Shut') <= Cardinality(Member \ Shut)
            /\ Cardinality(Member \ Shut') \in Nat /\ Cardinality(Member \ Shut) \in Nat
        BY <3>1, Sizes
      <3> QED BY <3>2, Sizes
    <2> QED BY <2>1, <2>2, <2>3, <2>4 DEF Kept
  <1>2. ASSUME NEW m \in Member, SecondGuard(m) \/ RollbackStranded(m), m \notin back, m \notin blind'
        PROVE  Kept(m)'
    <2>1. /\ \A p \in Member : pc[p] \in {"gated", "cleared"} \/ st[p] = "CREATED" => m \in counted[p]
          /\ signed \/ Cardinality(Member \ Shut') < Quorum
      BY <1>2, ReturnCloses
    <2>2. Move(m, "ABORTED", "run") /\ signed' = signed /\ counted' = counted
      BY <1>2 DEF SecondGuard, RollbackStranded, world
    <2>3. \A p \in Member : pc'[p] \in {"gated", "cleared"} \/ st'[p] = "CREATED" => m \in counted'[p]
      BY <2>1, <2>2 DEF Move, Agreed, TypeOK
    <2> QED BY <2>1, <2>2, <2>3 DEF Kept, Ways
  <1>3. \/ Returned' = Returned
        \/ \E m \in Member : /\ SecondGuard(m) \/ RollbackStranded(m)
                             /\ m \notin back /\ m \notin blind'
                             /\ Returned' = Returned \cup {m}
    BY ReturnedSteps DEF Agreed
  <1>4. \A m \in Returned' : Kept(m)'
    BY <1>1, <1>2, <1>3
  <1> QED BY <1>4 DEF Closed

-----------------------------------------------------------------------------
(* One chain. *)

Together == Agreed /\ FirstEraCounts /\ ExitsShown /\ Closed

LEMMA TogetherInit == Init => Together
  <1> SUFFICES ASSUME Init PROVE Together
    OBVIOUS
  <1>1. TypeOK /\ Own /\ MarksTrue
    BY TypeInit, OwnInit, MarksInit
  <1>2. ReturnedShowsOut /\ FirstEraCounts /\ Closed
    BY DEF Init, ReturnedShowsOut, FirstEraCounts, CountedVerified, Closed, Returned
  <1>3. ExitsShown
    BY DEF Init, ExitsShown, ShowsTombs, None, Out
  <1> QED BY <1>1, <1>2, <1>3 DEF Together, Agreed

LEMMA TogetherStep ==
  ASSUME EarlyAbort, ~Hasty, Together, [Next]_vars
  PROVE  Together'
  <1>1. Agreed'
    BY TypeStep, AgreementStep, ReturnedStep DEF Together, Agreed
  <1>2. FirstEraCounts' /\ ExitsShown'
    BY FirstEraStep, ExitsShownStep DEF Together, Agreed
  <1>3. Closed'
    BY ClosedStep DEF Together
  <1> QED BY <1>1, <1>2, <1>3 DEF Together

\* A member that returned is out for good; one that is returning is not ahead.
LEMMA NotBoth ==
  ASSUME Agreed, NEW m \in Member
  PROVE  /\ m \in Returned => m \notin Ahead /\ pc[m] # "cleared"
         /\ SecondGuard(m) \/ RollbackStranded(m) => m \notin Ahead
  <1>1. m \in Returned => st[m] \in Out
    BY DEF Returned, Agreed, ReturnedShowsOut
  <1>2. pc[m] \in {"cleared", "withdraw"} => st[m] \in {"FROZEN", "VERIFIED"}
    BY DEF Agreed, Own, VerifiedLate
  <1> QED BY <1>1, <1>2 DEF Ahead, Out, SecondGuard, RollbackStranded

\* For any roster, quorum and number of relay losses, with the early abort on and operators
\* that wait until the relay shows a member STRANDED: a member creates the target while
\* another that could tell a restored relay has returned only if its gate had counted it.
THEOREM OnlyCountedSplit == EarlyAbort /\ ~Hasty => (Spec => []NoUncountedSplit)
  <1> SUFFICES ASSUME EarlyAbort, ~Hasty PROVE Spec => []NoUncountedSplit
    OBVIOUS
  <1>1. ASSUME Together PROVE NoUncountedSplit
    <2>1. \A m \in Returned, p \in Ahead : m \in counted[p]
      BY <1>1 DEF Together, Closed, Kept, Ways, Ahead
    <2>2. \A m \in Returned : m \in Member /\ m \notin Ahead
      BY <1>1, NotBoth DEF Together, Agreed, TypeOK, Returned
    <2> QED BY <2>1, <2>2 DEF NoUncountedSplit, Returned
  <1> QED BY <1>1, TogetherInit, TogetherStep, PTL DEF Spec

\* A step that lets nobody return lets at most one member go ahead.
LEMMA AheadSteps ==
  ASSUME TypeOK, Own, [Next]_vars
  PROVE  \/ Ahead' = Ahead
         \/ \E m \in Member : Create(m) /\ m \notin Ahead /\ Ahead' = Ahead \cup {m}
  <1>t. st \in [Member -> States]
    BY DEF TypeOK
  <1>a. ASSUME NEW m \in Member, Create(m)
        PROVE  m \notin Ahead /\ Ahead' = Ahead \cup {m}
    BY <1>a, <1>t DEF Create, Move, Ahead, Own, VerifiedLate
  <1>b. ASSUME NEW m \in Member,
               \/ Freeze(m) \/ Verify(m) \/ Gate(m) \/ NoAbort(m) \/ AbortArmed(m)
               \/ FirstGuard(m) \/ Strand(m) \/ SecondGuard(m) \/ RollbackStranded(m)
               \/ EarlyAborts(m) \/ Crash(m) \/ FreshJournal(m) \/ Beacon(m)
        PROVE  Ahead' \subseteq Ahead
    <2>1. \/ st' = st
          \/ \E s \in States \ {"CREATED"} : st' = [st EXCEPT ![m] = s]
      <3>1. CASE Freeze(m) \/ Verify(m) \/ AbortArmed(m) \/ Strand(m) \/ SecondGuard(m)
                 \/ RollbackStranded(m) \/ FreshJournal(m)
        BY <3>1 DEF Freeze, Verify, AbortArmed, Strand, SecondGuard, RollbackStranded,
             FreshJournal, Move, States
      <3>2. CASE Gate(m) \/ Crash(m) \/ Beacon(m)
        BY <3>2 DEF Gate, Crash, Beacon, Move, States, local
      <3>3. CASE NoAbort(m) \/ FirstGuard(m) \/ EarlyAborts(m)
        <4>1. st' = st \/ Move(m, st[m], "cleared") \/ Move(m, st[m], "withdraw") \/ Move(m, "ABORTED", "run")
          BY <3>3 DEF NoAbort, FirstGuard, EarlyAborts
        <4>2. [st EXCEPT ![m] = st[m]] = st
          BY <1>t
        <4> QED BY <4>1, <4>2 DEF Move, States
      <3> QED BY <1>b, <3>1, <3>2, <3>3
    <2> QED BY <2>1, <1>t DEF Ahead
  <1>c. Lost \/ Backup \/ ReachH \/ SignAbort \/ UNCHANGED vars => Ahead' = Ahead
    BY DEF Backup, Lost, RelayLost, ReachH, SignAbort, vars, local, Ahead
  <1>d. Ahead \subseteq Ahead'
    <2>1. \A m \in Member : st[m] = "CREATED" => st'[m] = "CREATED"
      BY LocalsType, CreatedStays
    <2> QED BY <2>1 DEF Ahead
  <1> QED BY <1>a, <1>b, <1>c, <1>d DEF Next, Lost

\* Whom a member counts changes only at its gate, and when it starts over.
LEMMA CountedSteps ==
  ASSUME Agreed, [Next]_vars
  PROVE  \/ counted' = counted
         \/ \E m \in Member, c \in SUBSET Member : Promise!Gate(m, c)
  <1>t. counted \in [Member -> SUBSET Member] /\ st \in [Member -> States]
    BY DEF Agreed, TypeOK
  <1>1. ASSUME NEW m \in Member, Gate(m), counted' # counted
        PROVE  \E c \in SUBSET Member : Promise!Gate(m, c)
    <2>1. PICK f \in Fresh :
            /\ counted' = [counted EXCEPT ![m] = Agreeing(m, f, Noted(m))]
            /\ Move(m, "VERIFIED", "gated")
      BY <1>1 DEF Gate
    <2>2. st[m] = "VERIFIED" /\ st' = st /\ Returned' = Returned
      BY <1>1, <1>t, <2>1 DEF Gate, Running, Move, ghosts, Returned
    <2>3. Agreeing(m, f, Noted(m)) \cap Returned = {} /\ Agreeing(m, f, Noted(m)) \in SUBSET Member
      BY AgreeingStays, RepliesType DEF Agreed, Returned
    <2>4. m \notin Ahead /\ Ahead' = Ahead
      BY <2>2 DEF Ahead
    <2> QED BY <2>1, <2>2, <2>3, <2>4 DEF Promise!Gate, Returned
  <1>2. ASSUME NEW m \in Member, FreshJournal(m)
        PROVE  Promise!Gate(m, {})
    <2>1. /\ counted' = [counted EXCEPT ![m] = {}] /\ Returned' = Returned /\ st[m] # "CREATED"
          /\ st' = [st EXCEPT ![m] = IF Arms(m) THEN "ARMED" ELSE "ABORTED"]
      BY <1>2 DEF FreshJournal, Move, ghosts, Returned
    <2>2. m \notin Ahead /\ Ahead' = Ahead
      BY <1>t, <2>1 DEF Ahead
    <2> QED BY <2>1, <2>2 DEF Promise!Gate, Returned
  <1>3. ASSUME NEW p \in Member,
               \/ Freeze(p) \/ Verify(p) \/ NoAbort(p) \/ Create(p) \/ AbortArmed(p)
               \/ FirstGuard(p) \/ Strand(p) \/ SecondGuard(p) \/ RollbackStranded(p)
               \/ EarlyAborts(p) \/ Crash(p) \/ Beacon(p)
        PROVE  counted' = counted
    BY <1>3 DEF Freeze, Verify, NoAbort, Create, AbortArmed, FirstGuard, Strand, SecondGuard,
         RollbackStranded, EarlyAborts, Crash, Beacon, seenBy
  <1>4. Backup \/ ReachH \/ SignAbort \/ Lost
          \/ UNCHANGED vars => counted' = counted
    BY DEF Backup, ReachH, SignAbort, Lost, RelayLost, vars, seenBy
  <1> QED BY <1>1, <1>2, <1>3, <1>4 DEF Next, Lost

\* Every step of the fleet is a step of OneChain or changes nothing it promises about.
LEMMA ChainStep ==
  ASSUME EarlyAbort, ~Hasty, Together, [Next]_vars
  PROVE  [Promise!Next]_<<Ahead, Returned, counted>>
  <1>0. Agreed /\ TypeOK /\ Own
    BY DEF Together, Agreed
  <1>1. CASE counted' # counted
    BY <1>0, <1>1, CountedSteps DEF Promise!Next
  <1>2. CASE counted' = counted /\ Returned' = Returned
    <2>1. ASSUME NEW m \in Member, Create(m), m \notin Ahead, Ahead' = Ahead \cup {m}
          PROVE  Promise!GoAhead(m)
      <3>1. m \notin Returned
        BY <1>0, <2>1, NotBoth DEF Create
      <3>2. Returned \subseteq counted[m]
        BY <2>1 DEF Together, Closed, Kept, Ways, Create
      <3> QED BY <1>2, <2>1, <3>1, <3>2 DEF Promise!GoAhead, Returned
    <2> QED BY <1>0, <1>2, <2>1, AheadSteps DEF Promise!Next
  <1>3. ASSUME NEW m \in Member, SecondGuard(m) \/ RollbackStranded(m),
               m \notin back, m \notin blind', Returned' = Returned \cup {m}, counted' = counted
        PROVE  Promise!GoBack(m)
    <2>1. m \notin Ahead /\ m \notin Returned
      BY <1>0, <1>3, NotBoth DEF Returned
    <2>2. \A p \in Ahead : m \in counted[p]
      BY <1>3, ReturnCloses DEF Together, Ahead
    <2>3. Ahead' = Ahead
      <3>1. Move(m, "ABORTED", "run") /\ st \in [Member -> States]
        BY <1>0, <1>3 DEF SecondGuard, RollbackStranded, TypeOK
      <3> QED BY <2>1, <3>1 DEF Move, Ahead
    <2> QED BY <1>3, <2>1, <2>2, <2>3 DEF Promise!GoBack, Returned
  <1> QED BY <1>0, <1>1, <1>2, <1>3, ReturnedSteps DEF Promise!Next

\* Under the same assumptions the fleet implements OneChain: no gate counts who is back,
\* nobody goes ahead without the word of those that are, and nobody returns while one is
\* ahead without its word; "back" are the members that could tell a restored relay.
THEOREM FleetKeepsOneChain == EarlyAbort /\ ~Hasty => (Spec => OneOutcome)
  <1> SUFFICES ASSUME EarlyAbort, ~Hasty PROVE Spec => OneOutcome
    OBVIOUS
  <1>1. Init => Promise!Init
    BY DEF Init, Ahead, Promise!Init
  <1>2. Together /\ [Next]_vars => [Promise!Next]_<<Ahead, Returned, counted>>
    BY ChainStep
  <1>3. Together /\ [Next]_vars => Together'
    BY TogetherStep
  <1> QED BY <1>1, <1>2, <1>3, TogetherInit, PTL DEF Spec, OneOutcome, Promise!Spec, Returned
=============================================================================
