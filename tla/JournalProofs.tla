---------------------------- MODULE JournalProofs ----------------------------
(***************************************************************************)
(* For any number of records, deaths, power losses and failed writes: the  *)
(* episode fold is the stack, a replay drops nothing the machine acted on, *)
(* a crash leaves a journal that opens, and a restart hands out no pause.  *)
(*                                                                         *)
(* What a replay makes of the file is recursive, over the lines and over   *)
(* the events, so what it computes is shown by induction: on the set of    *)
(* the numbers a fact holds of, from the least one outside it.             *)
(*                                                                         *)
(* Ownership needs most.  The rows of the file are its first k lines, and  *)
(* After(k) what a replay of just them makes of the pause: any k may be    *)
(* where the file is cut next.  As long as every record that makes a pause *)
(* ours is acknowledged, ours is only ever the top of that stack, so that  *)
(* no later record uncovers it again.                                      *)
(***************************************************************************)
EXTENDS Journal, Integers, SequenceTheorems, WellFoundedInduction, TLAPS

(* A set of naturals with a member has a least one.  *)
LEMMA LeastNumber ==
  ASSUME NEW T \in SUBSET Nat, T # {}
  PROVE  \E x \in T : \A y \in T : x <= y
<1> DEFINE R == OpToRel(<, Nat)
<1>1. IsWellFoundedOn(R, Nat)
  BY NatLessThanWellFounded
<1>2. \A x, y \in Nat : y < x => <<y, x>> \in R
  BY DEF OpToRel
<1> HIDE DEF R
<1>3. PICK x \in T : \A y \in T : <<y, x>> \notin R
  BY <1>1, WFMin
<1>4. ASSUME NEW y \in T PROVE x <= y
  <2>1. x \in Nat /\ y \in Nat
    OBVIOUS
  <2>2. ~(y < x)
    BY <1>2, <1>3, <2>1
  <2> QED BY <2>1, <2>2
<1> QED BY <1>4

(* What holds at 0 and passes from each number to the next holds up to N:  *)
(* induction, on the set of the numbers it holds of.                       *)
LEMMA UpTo ==
  ASSUME NEW N \in Nat, NEW T, 0 \in T, \A n \in 1..N : n - 1 \in T => n \in T
  PROVE  \A n \in 0..N : n \in T
<1> DEFINE Bad == {n \in 0..N : n \notin T}
<1> SUFFICES ASSUME Bad # {} PROVE FALSE
  OBVIOUS
<1>1. Bad \in SUBSET Nat
  OBVIOUS
<1>2. PICK n \in Bad : \A m \in Bad : n <= m
  BY <1>1, LeastNumber
<1>3. n \in 1..N
  BY <1>2
<1>4. n - 1 \notin Bad
  BY <1>1, <1>2, <1>3
<1> QED BY <1>2, <1>3, <1>4

(* A non-empty set of naturals below a bound has a greatest member.         *)
LEMMA GreatestNumber ==
  ASSUME NEW N \in Nat, NEW T \in SUBSET (0..N), T # {}
  PROVE  \E x \in T : \A y \in T : y <= x
<1> DEFINE Mirror == {n \in 0..N : N - n \in T}
<1>1. Mirror \in SUBSET Nat /\ \A x \in T : N - x \in Mirror
  OBVIOUS
<1>2. Mirror # {}
  BY <1>1
<1>3. PICK m \in Mirror : \A n \in Mirror : m <= n
  BY <1>1, <1>2, LeastNumber
<1>4. N - m \in T /\ m \in 0..N
  OBVIOUS
<1>5. ASSUME NEW y \in T PROVE y <= N - m
  <2>1. m <= N - y /\ y \in 0..N
    BY <1>1, <1>3
  <2> QED BY <1>4, <2>1
<1> QED BY <1>4, <1>5

(* A function may be defined by what it makes of its value one step before. *)
StaysIn(F, S, N) == \A n \in 1..N : \A v \in S : F[n][v] \in S
Iterates(g, F, a, N) == g[0] = a /\ \A n \in 1..N : g[n] = F[n][g[n - 1]]

LEMMA Recursion ==
  ASSUME NEW S, NEW a \in S, NEW N \in Nat, NEW F, StaysIn(F, S, N)
  PROVE  \E g \in [0..N -> S] : Iterates(g, F, a, N)
<1> USE DEF StaysIn, Iterates
<1> DEFINE Upto(n) == {g \in [0..n -> S] :
                         g[0] = a /\ \A k \in 1..n : g[k] = F[k][g[k - 1]]}
           T == {n \in 0..N : Upto(n) # {}}
<1>1. 0 \in T
  <2>1. [k \in 0..0 |-> a] \in Upto(0)
    OBVIOUS
  <2> QED BY <2>1
<1>2. ASSUME NEW n \in 1..N, n - 1 \in T PROVE n \in T
  <2>1. PICK g \in Upto(n - 1) : TRUE
    BY <1>2
  <2> DEFINE h == [k \in 0..n |-> IF k = n THEN F[n][g[n - 1]] ELSE g[k]]
  <2>2. g \in [0..(n - 1) -> S] /\ g[n - 1] \in S
    BY <2>1
  <2>3. F[n][g[n - 1]] \in S
    BY <2>2
  <2>4. h \in [0..n -> S]
    BY <2>2, <2>3
  <2>5. h[0] = a
    BY <2>1
  <2>6. ASSUME NEW k \in 1..n PROVE h[k] = F[k][h[k - 1]]
    <3>1. CASE k = n
      BY <3>1
    <3>2. CASE k # n
      <4>1. k \in 1..(n - 1) /\ k - 1 \in 0..n /\ k - 1 # n /\ k \in 0..n
        BY <3>2
      <4>2. g[k] = F[k][g[k - 1]]
        BY <2>1, <4>1
      <4> QED BY <3>2, <4>1, <4>2
    <3> QED BY <3>1, <3>2
  <2>7. h \in Upto(n)
    BY <2>4, <2>5, <2>6
  <2> QED BY <2>7
<1> HIDE DEF T
<1>3. N \in T
  BY <1>1, <1>2, UpTo
<1> QED BY <1>3 DEF T
-----------------------------------------------------------------------------
(* The vector of episodes.                                                 *)
Entries == [owner : Stack!Owners, open : BOOLEAN]
Vectors == Seq(Entries)
Events == Written \cup {"stale"}

LEMMA LatestOpenIs ==
  ASSUME NEW v \in Vectors
  PROVE  /\ LatestOpen(v) \in 0..Len(v)
         /\ LatestOpen(v) = 0 <=> OpenEntries(v) = {}
         /\ LatestOpen(v) # 0 => LatestOpen(v) \in OpenEntries(v)
         /\ \A i \in OpenEntries(v) : i <= LatestOpen(v)
<1>1. OpenEntries(v) \in SUBSET (1..Len(v)) /\ Len(v) \in Nat
  BY DEF OpenEntries, Vectors
<1>2. CASE OpenEntries(v) = {}
  BY <1>1, <1>2 DEF LatestOpen
<1>3. CASE OpenEntries(v) # {}
  <2>0. OpenEntries(v) \in SUBSET (0..Len(v))
    BY <1>1
  <2>1. \E i \in OpenEntries(v) : \A j \in OpenEntries(v) : j <= i
    BY <1>1, <1>3, <2>0, GreatestNumber
  <2>2. /\ LatestOpen(v) \in OpenEntries(v)
        /\ \A j \in OpenEntries(v) : j <= LatestOpen(v)
    BY <1>3, <2>1 DEF LatestOpen
  <2> QED BY <1>1, <1>3, <2>2
<1> QED BY <1>2, <1>3

LEMMA LatestEntry ==
  ASSUME NEW v \in Vectors, LatestOpen(v) # 0
  PROVE  /\ LatestOpen(v) \in 1..Len(v)
         /\ v[LatestOpen(v)] \in Entries
         /\ v[LatestOpen(v)].open
<1>1. LatestOpen(v) \in OpenEntries(v)
  BY LatestOpenIs
<1>2. LatestOpen(v) \in 1..Len(v) /\ v[LatestOpen(v)].open
  BY <1>1 DEF OpenEntries, Vectors
<1> QED BY <1>2, ElementOfSeq DEF Vectors

(* The entry that a search found is replaced, and nothing else.            *)
Changed(v, l, x) == [v EXCEPT ![l] = x]

LEMMA EntryChanged ==
  ASSUME NEW v \in Vectors, NEW l \in 1..Len(v), NEW x \in Entries
  PROVE  /\ Changed(v, l, x) \in Vectors
         /\ Len(Changed(v, l, x)) = Len(v)
         /\ \A i \in 1..Len(v) : i # l => Changed(v, l, x)[i] = v[i]
         /\ Changed(v, l, x)[l] = x
  BY ExceptSeq DEF Vectors, Changed

LEMMA ApplyTyped ==
  ASSUME NEW v \in Vectors, NEW e \in Events, NEW acks0 \in BOOLEAN
  PROVE  Apply(v, e, acks0) \in Vectors
<1>1. {"ours", "external", "unknown", "closing"} = Stack!Owners
  BY DEF Stack!Owners
<1>2. ASSUME NEW o \in Stack!Owners PROVE Append(v, Entry(o)) \in Vectors
  <2>1. Entry(o) \in Entries
    BY DEF Entry, Entries
  <2> QED BY <2>1 DEF Vectors
<1>3. ASSUME NEW o \in Stack!Owners, LatestOpen(v) # 0 PROVE SetOwner(v, o) \in Vectors
  <2>1. [v[LatestOpen(v)] EXCEPT !.owner = o] \in Entries
    BY <1>3, LatestEntry DEF Entries
  <2>2. SetOwner(v, o) = Changed(v, LatestOpen(v), [v[LatestOpen(v)] EXCEPT !.owner = o])
    BY DEF SetOwner, Changed
  <2> QED BY <1>3, <2>1, <2>2, LatestEntry, EntryChanged
<1>4. CloseLatest(v) \in Vectors
  <2>1. CASE LatestOpen(v) = 0
    BY <2>1 DEF CloseLatest
  <2>2. CASE LatestOpen(v) # 0
    <3>1. [v[LatestOpen(v)] EXCEPT !.open = FALSE] \in Entries
      BY <2>2, LatestEntry DEF Entries
    <3>2. CloseLatest(v) =
            Changed(v, LatestOpen(v), [v[LatestOpen(v)] EXCEPT !.open = FALSE])
      BY <2>2 DEF CloseLatest, Changed
    <3> QED BY <2>2, <3>1, <3>2, LatestEntry, EntryChanged
  <2> QED BY <2>1, <2>2
<1>5. ASSUME NEW o \in {"ours", "unknown"} PROVE Release(v, o) \in Vectors
  BY <1>1, <1>2, <1>3 DEF Release
<1>6. Pause(v, acks0) \in Vectors /\ Adopt(v) \in Vectors
  BY <1>1, <1>2 DEF Pause, Adopt
<1>7. LatestOwner(v) # "none" => LatestOpen(v) # 0
  BY DEF LatestOwner
<1>8. Ack(v) \in Vectors /\ ResumeIntent(v) \in Vectors
  BY <1>1, <1>3, <1>7 DEF Ack, ResumeIntent
<1> QED BY <1>4, <1>5, <1>6, <1>8 DEF Apply, Events, Written

(* The fold runs through a vector after each event.                        *)
IsRun(vec, events, old, acks0) ==
  /\ vec \in [0..Len(events) -> Vectors]
  /\ vec[0] = IF old THEN <<Entry("ours")>> ELSE <<>>
  /\ \A n \in 1..Len(events) : vec[n] = Apply(vec[n - 1], events[n], acks0)
  /\ Fold(events, old, acks0) = vec[Len(events)]

LEMMA FoldRuns ==
  ASSUME NEW events \in Seq(Events), NEW old \in BOOLEAN, NEW acks0 \in BOOLEAN
  PROVE  \E vec : IsRun(vec, events, old, acks0)
<1> DEFINE N == Len(events)
           a == IF old THEN <<Entry("ours")>> ELSE <<>>
           F == [n \in 1..N |-> [v \in Vectors |-> Apply(v, events[n], acks0)]]
           Is(g) == g = [n \in 0..N |-> IF n = 0 THEN a ELSE Apply(g[n - 1], events[n], acks0)]
<1>1. N \in Nat /\ a \in Vectors /\ \A n \in 1..N : events[n] \in Events
  <2>1. Entry("ours") \in Entries
    BY DEF Entry, Entries, Stack!Owners
  <2>2. <<>> \in Vectors /\ <<Entry("ours")>> \in Vectors
    BY <2>1 DEF Vectors
  <2> QED BY <2>2
<1>2. \A n \in 1..N : \A v \in Vectors :
        F[n][v] = Apply(v, events[n], acks0) /\ F[n][v] \in Vectors
  BY <1>1, ApplyTyped
<1> HIDE DEF F, a, N
<1>3. PICK g \in [0..N -> Vectors] : Iterates(g, F, a, N)
  <2>1. StaysIn(F, Vectors, N)
    BY <1>2 DEF StaysIn
  <2>2. N \in Nat /\ a \in Vectors
    BY <1>1
  <2> QED BY <2>1, <2>2, Recursion
<1>4. ASSUME NEW n \in 1..N PROVE g[n] = Apply(g[n - 1], events[n], acks0)
  <2>1. n - 1 \in 0..N
    BY <1>1
  <2> QED BY <1>2, <1>3, <2>1 DEF Iterates
<1>5. Is(g)
  <2>1. \A n \in 0..N : g[n] = IF n = 0 THEN a ELSE Apply(g[n - 1], events[n], acks0)
    BY <1>1, <1>3, <1>4 DEF Iterates
  <2> QED BY <1>3, <2>1
<1> DEFINE vec == CHOOSE h : Is(h)
<1>6. Is(vec)
  BY <1>5
<1>7. Fold(events, old, acks0) = vec[N]
  BY DEF Fold, N, a
<1> HIDE DEF vec
<1>8. \A n \in 1..N : n # 0 /\ n \in 0..N
  BY <1>1
<1>9. vec[0] = a /\ \A n \in 1..N : vec[n] = Apply(vec[n - 1], events[n], acks0)
  BY <1>1, <1>6, <1>8
<1> DEFINE T == {n \in 0..N : vec[n] \in Vectors}
<1>10. ASSUME NEW n \in 1..N, n - 1 \in T PROVE n \in T
  BY <1>1, <1>8, <1>9, <1>10, ApplyTyped
<1>11. 0 \in T
  BY <1>1, <1>9
<1>12. \A n \in 0..N : n \in T
  <2> HIDE DEF T
  <2> QED BY <1>1, <1>10, <1>11, UpTo
<1>13. vec \in [0..N -> Vectors]
  BY <1>6, <1>12
<1> QED BY <1>7, <1>9, <1>13 DEF IsRun, N, a

LEMMA FoldTyped ==
  ASSUME NEW events \in Seq(Events), NEW old \in BOOLEAN, NEW acks0 \in BOOLEAN
  PROVE  Fold(events, old, acks0) \in Vectors
<1>1. PICK vec : IsRun(vec, events, old, acks0)
  BY FoldRuns
<1>2. Len(events) \in 0..Len(events)
  OBVIOUS
<1> QED BY <1>1, <1>2 DEF IsRun
(* One event more is one step more.                                        *)
LEMMA FoldStep ==
  ASSUME NEW old \in BOOLEAN, NEW acks0 \in BOOLEAN,
         NEW s \in Seq(Events), NEW t \in Seq(Events), Len(t) = Len(s) + 1,
         \A i \in 1..Len(s) : t[i] = s[i]
  PROVE  Fold(t, old, acks0) = Apply(Fold(s, old, acks0), t[Len(t)], acks0)
<1>0. Len(s) \in Nat /\ Len(t) \in 1..Len(t) /\ Len(t) - 1 = Len(s)
  OBVIOUS
<1>1. PICK f : IsRun(f, s, old, acks0)
  BY FoldRuns
<1>2. PICK g : IsRun(g, t, old, acks0)
  BY FoldRuns
<1> DEFINE T == {n \in 0..Len(s) : f[n] = g[n]}
<1>3. 0 \in T
  BY <1>0, <1>1, <1>2 DEF IsRun
<1>4. ASSUME NEW n \in 1..Len(s), n - 1 \in T PROVE n \in T
  <2>1. n \in 1..Len(t) /\ t[n] = s[n]
    BY <1>0
  <2> QED BY <1>1, <1>2, <1>4, <2>1 DEF IsRun
<1>5. \A n \in 0..Len(s) : n \in T
  <2> HIDE DEF T
  <2> QED BY <1>0, <1>3, <1>4, UpTo
<1>6. f[Len(s)] = g[Len(s)]
  BY <1>0, <1>5
<1> QED BY <1>0, <1>1, <1>2, <1>6 DEF IsRun
-----------------------------------------------------------------------------
(* The owners of the open episodes.                                        *)
Stacks == Seq(Stack!Owners)

IsOwners(own, v) ==
  /\ own \in [0..Len(v) -> Stacks]
  /\ own[0] = <<>>
  /\ \A n \in 1..Len(v) :
       own[n] = AddOpen(own[n - 1], v[n])
  /\ OpenOwners(v) = own[Len(v)]

LEMMA OwnersRun ==
  ASSUME NEW v \in Vectors
  PROVE  \E own : IsOwners(own, v)
<1> DEFINE N == Len(v)
           F == [n \in 1..N |-> [s \in Stacks |-> AddOpen(s, v[n])]]
           Is(g) == g = [n \in 0..N |-> IF n = 0 THEN <<>> ELSE AddOpen(g[n - 1], v[n])]
<1>1. N \in Nat /\ <<>> \in Stacks
  BY DEF Vectors, Stacks
<1>2. ASSUME NEW n \in 1..N PROVE v[n].owner \in Stack!Owners
  <2>1. v[n] \in Entries
    BY ElementOfSeq DEF Vectors
  <2> QED BY <2>1 DEF Entries
<1>3. ASSUME NEW n \in 1..N, NEW s \in Stacks
      PROVE  /\ F[n][s] = AddOpen(s, v[n])
             /\ AddOpen(s, v[n]) \in Stacks
  BY <1>2 DEF Stacks, AddOpen
<1> HIDE DEF F, N
<1>4. StaysIn(F, Stacks, N)
  BY <1>3 DEF StaysIn
<1>5. PICK g \in [0..N -> Stacks] : Iterates(g, F, <<>>, N)
  BY <1>1, <1>4, Recursion
<1>6. \A n \in 1..N : n # 0 /\ n \in 0..N /\ n - 1 \in 0..N
  BY <1>1
<1>7. \A n \in 1..N :
        g[n] = AddOpen(g[n - 1], v[n])
  BY <1>3, <1>5, <1>6 DEF Iterates
<1>8. Is(g)
  <2>1. \A n \in 0..N : g[n] = IF n = 0 THEN <<>> ELSE AddOpen(g[n - 1], v[n])
    BY <1>1, <1>5, <1>7 DEF Iterates
  <2> QED BY <1>5, <2>1
<1> DEFINE own == CHOOSE h : Is(h)
<1>9. Is(own)
  BY <1>8
<1>10. OpenOwners(v) = own[N]
  BY DEF OpenOwners, N
<1> HIDE DEF own
<1>11. /\ own[0] = <<>>
       /\ \A n \in 1..N :
            own[n] = AddOpen(own[n - 1], v[n])
  BY <1>1, <1>6, <1>9
<1> DEFINE T == {n \in 0..N : own[n] \in Stacks}
<1>12. ASSUME NEW n \in 1..N, n - 1 \in T PROVE n \in T
  BY <1>3, <1>6, <1>11, <1>12
<1>13. 0 \in T
  BY <1>1, <1>11
<1>14. \A n \in 0..N : n \in T
  <2> HIDE DEF T
  <2> QED BY <1>1, <1>12, <1>13, UpTo
<1>15. own \in [0..N -> Stacks]
  BY <1>9, <1>14
<1> QED BY <1>10, <1>11, <1>15 DEF IsOwners, N

(* Vectors that agree up to an entry have the same owners up to there.     *)
LEMMA OwnersAgree ==
  ASSUME NEW v \in Vectors, NEW w \in Vectors, NEW f, NEW g, IsOwners(f, v), IsOwners(g, w),
         NEW m \in Nat, m <= Len(v), m <= Len(w), \A i \in 1..m : v[i] = w[i]
  PROVE  f[m] = g[m]
<1> DEFINE T == {n \in 0..m : f[n] = g[n]}
<1>1. 0 \in T
  BY DEF IsOwners
<1>2. ASSUME NEW n \in 1..m, n - 1 \in T PROVE n \in T
  <2>1. n \in 1..Len(v) /\ n \in 1..Len(w) /\ v[n] = w[n]
    BY DEF Vectors
  <2> QED BY <1>2, <2>1 DEF IsOwners
<1>3. \A n \in 0..m : n \in T
  <2> HIDE DEF T
  <2> QED BY <1>1, <1>2, UpTo
<1> QED BY <1>3

(* Closed episodes after the last open one add nothing.                    *)
LEMMA OwnersFlat ==
  ASSUME NEW v \in Vectors, NEW own, IsOwners(own, v), NEW l \in 0..Len(v),
         \A i \in (l + 1)..Len(v) : ~v[i].open
  PROVE  OpenOwners(v) = own[l]
<1> DEFINE T == {n \in 0..Len(v) : n >= l => own[n] = own[l]}
<1>0. Len(v) \in Nat
  BY DEF Vectors
<1>1. 0 \in T
  BY <1>0
<1>2. ASSUME NEW n \in 1..Len(v), n - 1 \in T PROVE n \in T
  <2>1. CASE n <= l
    BY <1>0, <2>1
  <2>2. CASE n > l
    <3>1. n \in (l + 1)..Len(v) /\ n - 1 >= l
      BY <1>0, <2>2
    <3>2. own[n] = own[n - 1]
      BY <3>1 DEF IsOwners, AddOpen
    <3> QED BY <1>2, <3>1, <3>2
  <2> QED BY <1>0, <2>1, <2>2
<1>3. \A n \in 0..Len(v) : n \in T
  <2> HIDE DEF T
  <2> QED BY <1>0, <1>1, <1>2, UpTo
<1>4. Len(v) \in 0..Len(v) /\ Len(v) >= l
  BY <1>0
<1> QED BY <1>3, <1>4 DEF IsOwners

(* What a change of the latest open entry does to the stack's top.          *)
LEMMA OwnersChange ==
  ASSUME NEW v \in Vectors, NEW w \in Vectors, LatestOpen(v) # 0, Len(w) = Len(v),
         \A i \in 1..Len(v) : i # LatestOpen(v) => w[i] = v[i]
  PROVE  \E s \in Stacks :
           /\ OpenOwners(v) = Append(s, v[LatestOpen(v)].owner)
           /\ OpenOwners(w) = IF w[LatestOpen(v)].open
                              THEN Append(s, w[LatestOpen(v)].owner) ELSE s
<1> DEFINE l == LatestOpen(v)
<1>0. Len(v) \in Nat
  BY DEF Vectors
<1>1. l \in 1..Len(v) /\ v[l].open
  <2>1. l \in OpenEntries(v)
    BY LatestOpenIs
  <2> QED BY <2>1 DEF OpenEntries, Vectors
<1>2. \A i \in (l + 1)..Len(v) : ~v[i].open
  <2>1. \A i \in OpenEntries(v) : i <= l
    BY LatestOpenIs
  <2> QED BY <1>0, <1>1, <2>1 DEF OpenEntries, Vectors
<1> HIDE DEF l
<1>3. PICK f : IsOwners(f, v)
  BY OwnersRun
<1>4. PICK g : IsOwners(g, w)
  BY OwnersRun
<1>5. f[l - 1] = g[l - 1]
  <2>1. l - 1 \in Nat /\ l - 1 <= Len(v) /\ l - 1 <= Len(w)
    BY <1>0, <1>1
  <2>2. \A i \in 1..(l - 1) : v[i] = w[i]
    BY <1>0, <1>1 DEF l
  <2> QED BY <1>3, <1>4, <2>1, <2>2, OwnersAgree
<1>6. \A i \in (l + 1)..Len(w) : ~w[i].open
  BY <1>0, <1>1, <1>2 DEF l
<1>7. l \in 0..Len(v) /\ l \in 0..Len(w) /\ l - 1 \in 0..Len(v)
  BY <1>0, <1>1
<1>8. OpenOwners(v) = f[l]
  BY <1>2, <1>3, <1>7, OwnersFlat
<1>9. OpenOwners(w) = g[l]
  BY <1>4, <1>6, <1>7, OwnersFlat
<1>10. f[l] = Append(f[l - 1], v[l].owner) /\ f[l - 1] \in Stacks
  BY <1>1, <1>3, <1>7 DEF IsOwners, AddOpen
<1>11. g[l] = IF w[l].open THEN Append(g[l - 1], w[l].owner) ELSE g[l - 1]
  BY <1>1, <1>4 DEF IsOwners, AddOpen
<1> QED BY <1>5, <1>8, <1>9, <1>10, <1>11 DEF l

LEMMA OwnersNone ==
  ASSUME NEW v \in Vectors, LatestOpen(v) = 0
  PROVE  OpenOwners(v) = <<>>
<1>1. PICK own : IsOwners(own, v)
  BY OwnersRun
<1>2. 0 \in 0..Len(v) /\ \A i \in (0 + 1)..Len(v) : ~v[i].open
  <2>1. OpenEntries(v) = {}
    BY LatestOpenIs
  <2> QED BY <2>1 DEF OpenEntries, Vectors
<1> QED BY <1>1, <1>2, OwnersFlat DEF IsOwners

LEMMA OwnersPush ==
  ASSUME NEW v \in Vectors, NEW o \in Stack!Owners
  PROVE  OpenOwners(Append(v, Entry(o))) = Append(OpenOwners(v), o)
<1> DEFINE w == Append(v, Entry(o))
<1>1. Entry(o) \in Entries
  BY DEF Entry, Entries
<1>2. /\ w \in Vectors /\ Len(v) \in Nat /\ Len(w) = Len(v) + 1
      /\ \A i \in 1..Len(v) : v[i] = w[i]
      /\ w[Len(w)] = Entry(o)
  BY <1>1, AppendProperties DEF Vectors
<1> HIDE DEF w
<1>3. PICK f : IsOwners(f, v)
  BY OwnersRun
<1>4. PICK g : IsOwners(g, w)
  BY <1>2, OwnersRun
<1>5. f[Len(v)] = g[Len(v)]
  <2>1. Len(v) <= Len(v) /\ Len(v) <= Len(w)
    BY <1>2
  <2> QED BY <1>2, <1>3, <1>4, <2>1, OwnersAgree
<1>6. Len(w) \in 1..Len(w) /\ Len(w) - 1 = Len(v)
  BY <1>2
<1>7. w[Len(w)].open /\ w[Len(w)].owner = o
  BY <1>2 DEF Entry
<1>8. OpenOwners(w) = Append(g[Len(v)], o)
  BY <1>4, <1>6, <1>7 DEF IsOwners, AddOpen
<1> QED BY <1>3, <1>5, <1>8 DEF IsOwners, w

(* The stack's operations on a stack with a top.                           *)
LEMMA StackTop ==
  ASSUME NEW s \in Stacks, NEW o \in Stack!Owners
  PROVE  /\ Append(s, o) # <<>>
         /\ Stack!Top(Append(s, o)) = o
         /\ Stack!Close(Append(s, o)) = s
<1> DEFINE t == Append(s, o)
<1>1. /\ t \in Stacks /\ Len(s) \in Nat /\ Len(t) = Len(s) + 1 /\ t[Len(t)] = o
      /\ \A i \in 1..Len(s) : t[i] = s[i]
  BY AppendProperties DEF Stacks
<1>2. t # <<>>
  BY <1>1 DEF Stacks
<1> HIDE DEF t
<1>3. Stack!Top(t) = o
  BY <1>1, <1>2 DEF Stack!Top
<1>4. Stack!Close(t) = s
  <2>1. Stack!Close(t) = SubSeq(t, 1, Len(s))
    BY <1>1, <1>2 DEF Stack!Close
  <2>2. /\ SubSeq(t, 1, Len(s)) \in Stacks
        /\ Len(SubSeq(t, 1, Len(s))) = Len(s)
        /\ \A i \in 1..Len(s) : SubSeq(t, 1, Len(s))[i] = s[i]
    BY <1>1 DEF Stacks
  <2> QED BY <2>1, <2>2, SeqEqual DEF Stacks
<1> QED BY <1>2, <1>3, <1>4 DEF t

(* The latest open episode is the top of the stack.                        *)
LEMMA LatestIsTop ==
  ASSUME NEW v \in Vectors
  PROVE  /\ OpenOwners(v) \in Stacks
         /\ LatestOpen(v) = 0 <=> OpenOwners(v) = <<>>
         /\ LatestOwner(v) = Stack!Top(OpenOwners(v))
<1>1. OpenOwners(v) \in Stacks
  <2>1. PICK own : IsOwners(own, v)
    BY OwnersRun
  <2>2. Len(v) \in 0..Len(v)
    BY DEF Vectors
  <2> QED BY <2>1, <2>2 DEF IsOwners
<1>2. CASE LatestOpen(v) = 0
  BY <1>1, <1>2, OwnersNone DEF LatestOwner, Stack!Top
<1>3. CASE LatestOpen(v) # 0
  <2>1. PICK s \in Stacks : OpenOwners(v) = Append(s, v[LatestOpen(v)].owner)
    BY <1>3, OwnersChange
  <2>2. v[LatestOpen(v)].owner \in Stack!Owners
    BY <1>3, LatestEntry DEF Entries
  <2> QED BY <1>1, <1>3, <2>1, <2>2, StackTop DEF LatestOwner
<1> QED BY <1>2, <1>3

LEMMA SetOwnerIsTop ==
  ASSUME NEW v \in Vectors, LatestOpen(v) # 0, NEW o \in Stack!Owners
  PROVE  OpenOwners(SetOwner(v, o)) = Stack!Push(Stack!Close(OpenOwners(v)), o)
<1> DEFINE l == LatestOpen(v)
           x == [v[l] EXCEPT !.owner = o]
           w == SetOwner(v, o)
<1>1. l \in 1..Len(v) /\ v[l].open /\ v[l] \in Entries
  BY LatestEntry
<1>2. w = Changed(v, l, x)
  BY DEF SetOwner, Changed
<1>3. x \in Entries /\ x.open /\ x.owner = o /\ v[l].owner \in Stack!Owners
  BY <1>1 DEF Entries
<1> HIDE DEF l, w, x
<1>4. /\ w \in Vectors /\ Len(w) = Len(v) /\ w[l] = x
      /\ \A i \in 1..Len(v) : i # l => w[i] = v[i]
  BY <1>1, <1>2, <1>3, EntryChanged
<1>5. PICK s \in Stacks : /\ OpenOwners(v) = Append(s, v[l].owner)
                         /\ OpenOwners(w) = IF w[l].open THEN Append(s, w[l].owner) ELSE s
  BY <1>4, OwnersChange DEF l
<1>6. Stack!Close(OpenOwners(v)) = s
  BY <1>3, <1>5, StackTop
<1> QED BY <1>3, <1>4, <1>5, <1>6 DEF Stack!Push, w

LEMMA CloseIsPop ==
  ASSUME NEW v \in Vectors
  PROVE  OpenOwners(CloseLatest(v)) = Stack!Close(OpenOwners(v))
<1>1. CASE LatestOpen(v) = 0
  BY <1>1, OwnersNone DEF CloseLatest, Stack!Close
<1>2. CASE LatestOpen(v) # 0
  <2> DEFINE l == LatestOpen(v)
             x == [v[l] EXCEPT !.open = FALSE]
             w == CloseLatest(v)
  <2>1. l \in 1..Len(v) /\ v[l] \in Entries
    BY <1>2, LatestEntry
  <2>2. w = Changed(v, l, x)
    BY <1>2 DEF CloseLatest, Changed
  <2>3. x \in Entries /\ ~x.open /\ v[l].owner \in Stack!Owners
    BY <2>1 DEF Entries
  <2> HIDE DEF l, w, x
  <2>4. /\ w \in Vectors /\ Len(w) = Len(v) /\ w[l] = x
        /\ \A i \in 1..Len(v) : i # l => w[i] = v[i]
    BY <2>1, <2>2, <2>3, EntryChanged
  <2>5. PICK s \in Stacks : /\ OpenOwners(v) = Append(s, v[l].owner)
                           /\ OpenOwners(w) = IF w[l].open THEN Append(s, w[l].owner) ELSE s
    BY <1>2, <2>4, OwnersChange DEF l
  <2>6. Stack!Close(OpenOwners(v)) = s
    BY <2>3, <2>5, StackTop
  <2> QED BY <2>3, <2>4, <2>5, <2>6 DEF w
<1> QED BY <1>1, <1>2

(* Every event moves the open owners as the stack says, whatever the vector: *)
(* the search from the newest entry never reaches past the latest open one. *)
THEOREM EpisodesAreAStack ==
  ASSUME NEW v \in Vectors, NEW e \in Events, NEW acks0 \in BOOLEAN
  PROVE  OpenOwners(Apply(v, e, acks0)) = StackStep(OpenOwners(v), e, acks0)
<1> DEFINE s == OpenOwners(v)
<1>0. {"ours", "external", "unknown", "closing"} = Stack!Owners
  BY DEF Stack!Owners
<1>1. s \in Stacks /\ (LatestOpen(v) = 0 <=> s = <<>>) /\ LatestOwner(v) = Stack!Top(s)
  BY LatestIsTop
<1>2. LatestOwner(v) # "none" => LatestOpen(v) # 0
  BY DEF LatestOwner
<1>3. ASSUME NEW o \in {"ours", "unknown"}
      PROVE  OpenOwners(Release(v, o)) = Stack!Push(Stack!Close(s), o)
  <2>1. CASE LatestOpen(v) = 0
    <3>1. Stack!Close(s) = s
      BY <1>1, <2>1 DEF Stack!Close
    <3>2. Release(v, o) = Append(v, Entry(o))
      BY <2>1 DEF Release
    <3> QED BY <1>0, <3>1, <3>2, OwnersPush DEF Stack!Push
  <2>2. CASE LatestOpen(v) # 0
    BY <1>0, <2>2, SetOwnerIsTop DEF Release
  <2> QED BY <2>1, <2>2
<1>4. CASE e = "pause"
  <2>1. OpenOwners(Pause(v, acks0)) = Append(s, IF acks0 THEN "unknown" ELSE "ours")
    BY <1>0, OwnersPush DEF Pause
  <2> QED BY <1>4, <2>1 DEF Apply, StackStep, Stack!Intend, Stack!Push
<1>5. CASE e = "adopt"
  <2>1. OpenOwners(Adopt(v)) = Append(s, "external")
    BY <1>0, OwnersPush DEF Adopt
  <2> QED BY <1>5, <2>1 DEF Apply, StackStep, Stack!Adopt, Stack!Push
<1>6. CASE e = "ack"
  <2>1. OpenOwners(Ack(v)) = Stack!Settle(s, "unknown", "ours")
    BY <1>0, <1>1, <1>2, SetOwnerIsTop DEF Ack, Stack!Settle
  <2> QED BY <1>6, <2>1 DEF Apply, StackStep, Stack!Acknowledge
<1>7. CASE e = "resume"
  BY <1>7, CloseIsPop DEF Apply, StackStep
<1>8. CASE e = "closing"
  <2>1. OpenOwners(ResumeIntent(v)) = Stack!Settle(s, "ours", "closing")
    BY <1>0, <1>1, <1>2, SetOwnerIsTop DEF ResumeIntent, Stack!Settle
  <2> QED BY <1>8, <2>1 DEF Apply, StackStep, Stack!BeginResume
<1>9. CASE e = "release"
  BY <1>3, <1>9 DEF Apply, StackStep, Stack!Release
<1>10. CASE e = "stale"
  BY <1>3, <1>10 DEF Apply, StackStep, Stack!Release
<1> QED BY <1>4, <1>5, <1>6, <1>7, <1>8, <1>9, <1>10 DEF Events, Written
-----------------------------------------------------------------------------
(* The file: line feeds, and halves of records that were written.          *)
Halves == {Half(r, h) : r \in DOMAIN event, h \in {1, 2}}
Pieces == {LF} \cup Halves

Places == {"down", "tail", "cut", "flush", "replay", "refused",
           "up", "dirty", "line", "sync"}

Typed ==
  /\ file \in Seq(Pieces) /\ synced \in 0..Len(file) /\ pc \in Places
  /\ event \in Seq(Written) /\ Len(event) <= MaxRecords /\ acked \subseteq DOMAIN event
  /\ eps \in Vectors /\ legacy \in BOOLEAN /\ acks \in BOOLEAN

LEMMA PieceIs ==
  ASSUME Typed, NEW x \in Pieces
  PROVE  /\ x.half \in 0..2 /\ x.rec \in 0..Len(event)
         /\ x = LF <=> x.half = 0
         /\ x.half # 0 => x = Half(x.rec, x.half) /\ x.rec \in DOMAIN event
  BY DEF Typed, Pieces, Halves, Half, LF

LEMMA FileAt ==
  ASSUME Typed
  PROVE  /\ Len(file) \in Nat /\ DOMAIN file = 1..Len(file)
         /\ \A i \in 1..Len(file) : file[i] \in Pieces
  BY DEF Typed

LEMMA PrefixIs ==
  ASSUME Typed, NEW n \in 0..Len(file)
  PROVE  /\ Prefix(n) \in Seq(Pieces) /\ Len(Prefix(n)) = n
         /\ \A i \in 1..n : Prefix(n)[i] = file[i]
  BY FileAt, SubSeqProperties DEF Prefix, Typed

LEMMA TailStartIs ==
  ASSUME Typed
  PROVE  /\ TailStart \in 0..Len(file)
         /\ TailStart # 0 => TailStart \in Ends
         /\ \A b \in Ends : b \in 1..Len(file) /\ b <= TailStart
<1>1. Ends \in SUBSET (1..Len(file)) /\ Len(file) \in Nat
  BY FileAt DEF Ends
<1>2. CASE Ends = {}
  BY <1>1, <1>2 DEF TailStart
<1>3. CASE Ends # {}
  <2>0. Ends \in SUBSET (0..Len(file))
    BY <1>1
  <2>1. \E b \in Ends : \A c \in Ends : c <= b
    BY <1>1, <1>3, <2>0, GreatestNumber
  <2>2. TailStart \in Ends /\ \A c \in Ends : c <= TailStart
    BY <1>3, <2>1 DEF TailStart
  <2> QED BY <1>1, <2>2
<1> QED BY <1>2, <1>3

(* When every line parses they are three units each, from the first on.    *)
LEMMA LinesOfThree ==
  ASSUME Typed, ~Corrupt
  PROVE  /\ \A b \in Ends : b % 3 = 0
         /\ \A k \in 1..(TailStart \div 3) : 3 * k \in Ends
<1>1. \A b \in Ends : b = 3 \/ (b - 3 \in Ends /\ b > 3)
  BY FileAt, TailStartIs DEF Corrupt, LineParses
<1>2. \A b \in Ends : b \in 1..Len(file) /\ b \in Nat
  BY FileAt, TailStartIs
<1>3. \A b \in Ends : b % 3 = 0
  <2> DEFINE Bad == {b \in Ends : b % 3 # 0}
  <2> SUFFICES ASSUME Bad # {} PROVE FALSE
    OBVIOUS
  <2>1. Bad \in SUBSET Nat
    BY <1>2
  <2>2. PICK b \in Bad : \A c \in Bad : b <= c
    BY <2>1, LeastNumber
  <2>3. b # 3
    BY <2>2
  <2>4. b - 3 \in Ends /\ b \in Nat /\ b > 3
    BY <1>1, <1>2, <2>3
  <2>5. (b - 3) % 3 # 0
    BY <2>4
  <2> QED BY <2>2, <2>4, <2>5
<1>4. \A k \in 1..(TailStart \div 3) : 3 * k \in Ends
  <2> DEFINE N == TailStart \div 3
             T == {n \in 0..N : n < N => 3 * (N - n) \in Ends}
  <2>1. N \in Nat /\ TailStart \in Nat
    BY FileAt, TailStartIs
  <2>2. 0 < N => 3 * (N - 0) = TailStart /\ TailStart \in Ends
    <3>1. 0 < N => TailStart # 0
      BY <2>1
    <3>2. TailStart # 0 => TailStart \in Ends /\ TailStart % 3 = 0
      BY <1>3, TailStartIs
    <3> QED BY <2>1, <3>1, <3>2
  <2> HIDE DEF N
  <2>3. 0 \in T
    BY <2>1, <2>2
  <2>4. ASSUME NEW n \in 1..N, n - 1 \in T PROVE n \in T
    <3> SUFFICES ASSUME n < N PROVE 3 * (N - n) \in Ends
      BY <2>1
    <3>1. 3 * (N - (n - 1)) \in Ends
      BY <2>1, <2>4
    <3>2. 3 * (N - (n - 1)) # 3 /\ 3 * (N - (n - 1)) - 3 = 3 * (N - n)
      BY <2>1
    <3> QED BY <1>1, <3>1, <3>2
  <2>5. \A n \in 0..N : n \in T
    <3> HIDE DEF T
    <3> QED BY <2>1, <2>3, <2>4, UpTo
  <2>6. ASSUME NEW k \in 1..N PROVE 3 * k \in Ends
    <3>1. N - k \in 0..N /\ N - k < N /\ N - (N - k) = k
      BY <2>1
    <3> QED BY <2>5, <3>1
  <2> QED BY <2>6 DEF N
<1> QED BY <1>3, <1>4

(* What a replay recovers: the record of each line, in order.               *)
LEMMA RecoveredIs ==
  ASSUME Typed, ~Corrupt
  PROVE  /\ TailStart \div 3 \in Nat
         /\ Recovered \in Seq(DOMAIN event) /\ Len(Recovered) = TailStart \div 3
         /\ \A k \in 1..Len(Recovered) :
              /\ 3 * k \in 1..Len(file) /\ file[3 * k] = LF
              /\ file[3 * k - 2] = Half(Recovered[k], 1)
              /\ file[3 * k - 1] = Half(Recovered[k], 2)
<1> DEFINE N == TailStart \div 3
<1>1. N \in Nat
  BY FileAt, TailStartIs
<1>2. ASSUME NEW k \in 1..N
      PROVE  /\ 3 * k \in 1..Len(file) /\ file[3 * k] = LF
             /\ file[3 * k - 2] = Half(file[3 * k - 2].rec, 1)
             /\ file[3 * k - 1] = Half(file[3 * k - 2].rec, 2)
             /\ file[3 * k - 2].rec \in DOMAIN event
  <2>1. 3 * k \in Ends
    BY LinesOfThree
  <2>2. 3 * k \in 1..Len(file) /\ file[3 * k] = LF
    BY <2>1, TailStartIs DEF Ends
  <2>3. /\ file[3 * k - 2] = Half(file[3 * k - 2].rec, 1)
        /\ file[3 * k - 1] = Half(file[3 * k - 2].rec, 2)
    BY <2>1 DEF Corrupt, LineParses
  <2>4. 3 * k - 2 \in 1..Len(file)
    BY <1>1, <2>2, FileAt
  <2>5. file[3 * k - 2] \in Pieces /\ file[3 * k - 2].half = 1
    BY <2>3, <2>4, FileAt DEF Half
  <2> QED BY <2>2, <2>3, <2>5, PieceIs
<1> HIDE DEF N
<1>3. Recovered = [k \in 1..N |-> file[3 * k - 2].rec]
  BY DEF Recovered, N
<1>4. Recovered \in Seq(DOMAIN event) /\ Len(Recovered) = N
  BY <1>1, <1>2, <1>3
<1> QED BY <1>1, <1>2, <1>3, <1>4 DEF N
-----------------------------------------------------------------------------
(* The agent between the writes of a record has that record at the end.    *)
AtEnd ==
  LET n == Len(file)
  IN  /\ pc = "line" => /\ n >= 2 /\ This >= 1
                        /\ file[n - 1] = Half(This, 1) /\ file[n] = Half(This, 2)
      /\ pc = "sync" => /\ n >= 3 /\ This >= 1 /\ file[n] = LF
                        /\ file[n - 2] = Half(This, 1) /\ file[n - 1] = Half(This, 2)

(* What a step makes of the file: it keeps the first n units, and what it  *)
(* adds is line feeds and the halves of the record it has just begun.      *)
Keeps(n) ==
  /\ n \in 0..Len(file) /\ n <= Len(file')
  /\ \A i \in 1..n : file'[i] = file[i]

LEMMA AddsLF ==
  ASSUME Typed, file' = Append(file, LF), event' = event
  PROVE  /\ file' \in Seq(Pieces') /\ Len(file') = Len(file) + 1
         /\ file'[Len(file) + 1] = LF /\ Keeps(Len(file))
<1>1. LF \in Pieces /\ Pieces' = Pieces
  BY DEF Pieces, Halves
<1> QED BY <1>1, FileAt, AppendProperties DEF Typed, Keeps

LEMMA AddsHalf ==
  ASSUME Typed, NEW e \in Written, event' = Append(event, e), file' = Append(file, Half(This', 1))
  PROVE  /\ file' \in Seq(Pieces') /\ Len(file') = Len(file) + 1
         /\ file'[Len(file) + 1] = Half(This', 1) /\ Keeps(Len(file))
         /\ This' = This + 1
<1>1. Len(event) \in Nat /\ Len(event') = Len(event) + 1 /\ event' \in Seq(Written)
  BY DEF Typed
<1>2. DOMAIN event \subseteq DOMAIN event' /\ Len(event') \in DOMAIN event'
  BY <1>1 DEF Typed
<1>3. Pieces \subseteq Pieces' /\ Half(This', 1) \in Pieces'
  BY <1>2 DEF Pieces, Halves, This
<1>4. file \in Seq(Pieces')
  BY <1>3, SeqMonotonic DEF Typed
<1> QED BY <1>1, <1>3, <1>4, FileAt, AppendProperties DEF Keeps, This

LEMMA AddsBody ==
  ASSUME Typed, NEW e \in Written, event' = Append(event, e), file' = file \o Body(This')
  PROVE  /\ file' \in Seq(Pieces') /\ Len(file') = Len(file) + 2
         /\ file'[Len(file) + 1] = Half(This', 1) /\ file'[Len(file) + 2] = Half(This', 2)
         /\ Keeps(Len(file)) /\ This' = This + 1
<1>1. Len(event) \in Nat /\ Len(event') = Len(event) + 1 /\ event' \in Seq(Written)
  BY DEF Typed
<1>2. DOMAIN event \subseteq DOMAIN event' /\ Len(event') \in DOMAIN event'
  BY <1>1 DEF Typed
<1>3. Pieces \subseteq Pieces' /\ Half(This', 1) \in Pieces' /\ Half(This', 2) \in Pieces'
  BY <1>2 DEF Pieces, Halves, This
<1>4. file \in Seq(Pieces')
  BY <1>3, SeqMonotonic DEF Typed
<1>5. /\ Body(This') \in Seq(Pieces') /\ Len(Body(This')) = 2
      /\ Body(This')[1] = Half(This', 1) /\ Body(This')[2] = Half(This', 2)
  BY <1>3 DEF Body
<1>6. Len(file) \in Nat
  BY FileAt
<1>7. /\ file' \in Seq(Pieces') /\ Len(file') = Len(file) + 2
      /\ \A i \in 1..Len(file) + 2 :
           file'[i] = IF i <= Len(file) THEN file[i] ELSE Body(This')[i - Len(file)]
  <2> DEFINE b == Body(This')
  <2>1. file' = file \o b /\ b \in Seq(Pieces') /\ Len(b) = 2
    BY <1>5
  <2> HIDE DEF b
  <2>2. /\ file \o b \in Seq(Pieces') /\ Len(file \o b) = Len(file) + Len(b)
        /\ \A i \in 1..Len(file) + Len(b) :
             (file \o b)[i] = IF i <= Len(file) THEN file[i] ELSE b[i - Len(file)]
    BY <1>4, <2>1, ConcatProperties
  <2> QED BY <2>1, <2>2 DEF b
<1>8. file'[Len(file) + 1] = Half(This', 1) /\ file'[Len(file) + 2] = Half(This', 2)
  BY <1>5, <1>6, <1>7
<1>9. Keeps(Len(file))
  BY <1>6, <1>7 DEF Keeps
<1> QED BY <1>1, <1>7, <1>8, <1>9 DEF This

LEMMA CutsTo ==
  ASSUME Typed, NEW n \in 0..Len(file), file' = Prefix(n), event' = event
  PROVE  file' \in Seq(Pieces') /\ Len(file') = n /\ Keeps(n)
<1>1. Pieces' = Pieces
  BY DEF Pieces, Halves
<1> QED BY <1>1, PrefixIs, FileAt DEF Keeps

LEMMA FileStays ==
  ASSUME Typed, file' = file, event' = event
  PROVE  file' \in Seq(Pieces') /\ Keeps(Len(file))
<1>1. Pieces' = Pieces
  BY DEF Pieces, Halves
<1> QED BY <1>1, FileAt DEF Keeps, Typed

(* What the agent itself may change.                                       *)
LEMMA AgentStays ==
  ASSUME Typed, Agent
  PROVE  /\ event' \in Seq(Written) /\ Len(event') <= MaxRecords /\ acked' \subseteq DOMAIN event'
         /\ eps' \in Vectors /\ legacy' \in BOOLEAN /\ acks' \in BOOLEAN /\ event' = event
  BY DEF Typed, Agent

LEMMA ReplayTyped ==
  ASSUME Typed, ~Corrupt
  PROVE  RecoveredEps \in Vectors
<1> DEFINE rs == Recovered
           evs == [k \in DOMAIN rs |-> OnReplay(event[rs[k]])]
<1>1. rs \in Seq(DOMAIN event)
  BY RecoveredIs
<1>2. \A r \in DOMAIN event : OnReplay(event[r]) \in Events
  BY DEF Typed, OnReplay, Events, Written
<1>3. evs \in Seq(Events)
  <2> HIDE DEF rs
  <2> QED BY <1>1, <1>2
<1> HIDE DEF evs
<1>4. Fold(evs, legacy, acks) \in Vectors
  BY <1>3, FoldTyped DEF Typed
<1> QED BY <1>4 DEF RecoveredEps, evs

LEMMA TypedInit == Init => Typed /\ AtEnd
<1> SUFFICES ASSUME Init PROVE Typed /\ AtEnd
  OBVIOUS
<1>1. eps \in Vectors
  <2>1. <<>> \in Seq(Events)
    OBVIOUS
  <2>2. legacy \in BOOLEAN /\ acks \in BOOLEAN
    BY Zenon DEF Init
  <2> QED BY <2>1, <2>2, FoldTyped DEF Init
<1>2. legacy \in BOOLEAN /\ acks \in BOOLEAN
  BY Zenon DEF Init
<1>3. file = <<>> /\ synced = 0 /\ pc = "down" /\ event = <<>> /\ acked = {}
  BY DEF Init
<1>4. Typed
  BY <1>1, <1>2, <1>3, JournalAssumption DEF Typed, JournalAssumption, Places
<1> QED BY <1>3, <1>4 DEF AtEnd

LEMMA TypedNext == Typed /\ AtEnd /\ [Next]_vars => Typed' /\ AtEnd'
<1> SUFFICES ASSUME Typed, AtEnd, [Next]_vars PROVE Typed' /\ AtEnd'
  OBVIOUS
<1> USE DEF Places
<1>1. ASSUME file' = file, synced' \in 0..Len(file), Agent, pc' \in Places \ {"line", "sync"}
      PROVE  Typed' /\ AtEnd'
  <2>1. AtEnd'
    BY <1>1 DEF AtEnd
  <2> QED BY <1>1, <2>1, AgentStays, FileStays DEF Typed
<1>2. synced \in 0..Len(file) /\ Len(file) \in Nat
  BY FileAt DEF Typed
<1>3. CASE UNCHANGED vars
  BY <1>3 DEF vars, fileVars, Typed, AtEnd, This, Pieces, Halves
<1>4. CASE TakeLock \/ RepairRefuses \/ TailClean \/ SaveAside \/ ReplayRefuses
           \/ LineFeedFails \/ SyncFails \/ Flush
  BY <1>1, <1>2, <1>4
     DEF TakeLock, RepairRefuses, TailClean, SaveAside, ReplayRefuses, LineFeedFails, SyncFails,
         Flush, Goto, fileVars
<1>5. CASE AddNewline
  <2>1. /\ file' = Append(file, LF) /\ Agent /\ pc' = "flush" /\ synced' = synced
    BY <1>5 DEF AddNewline, Goto
  <2>2. event' = event
    BY <2>1, AgentStays
  <2> QED BY <1>2, <2>1, <2>2, AddsLF, AgentStays DEF Typed, AtEnd
<1>6. CASE Cut
  <2>1. file' = Prefix(TailStart) /\ Agent /\ pc' = "flush"
        /\ synced' = IF synced < TailStart THEN synced ELSE TailStart
    BY <1>6 DEF Cut, Goto
  <2>2. TailStart \in 0..Len(file)
    BY TailStartIs
  <2>3. Len(file') = TailStart /\ file' \in Seq(Pieces')
    BY <2>1, <2>2, AgentStays, CutsTo
  <2>4. synced' \in 0..Len(file')
    BY <1>2, <2>1, <2>2, <2>3
  <2> QED BY <2>1, <2>3, <2>4, AgentStays DEF Typed, AtEnd
<1>7. CASE Replay
  <2>1. eps' \in Vectors
    BY <1>7, ReplayTyped DEF Replay
  <2> QED BY <1>7, <2>1, FileStays DEF Replay, Goto, fileVars, Typed, AtEnd
<1>8. ASSUME NEW e \in Written, WriteBody(e) PROVE Typed' /\ AtEnd'
  <2>1. /\ event' = Append(event, e) /\ file' = file \o Body(This') /\ pc' = "line"
        /\ Len(event) < MaxRecords
        /\ UNCHANGED <<synced, eps, acked, legacy, acks>>
    BY <1>8 DEF WriteBody
  <2>2. /\ file' \in Seq(Pieces') /\ Len(file') = Len(file) + 2
        /\ file'[Len(file) + 1] = Half(This', 1) /\ file'[Len(file) + 2] = Half(This', 2)
        /\ This' = This + 1
    BY <2>1, AddsBody
  <2>3. /\ event' \in Seq(Written) /\ Len(event') = Len(event) + 1 /\ Len(event) \in Nat
        /\ DOMAIN event \subseteq DOMAIN event'
    BY <2>1 DEF Typed
  <2>4. Typed'
    BY <1>2, <2>1, <2>2, <2>3, JournalAssumption DEF Typed, JournalAssumption
  <2>5. AtEnd'
    BY <1>2, <2>1, <2>2, <2>3 DEF AtEnd, This
  <2> QED BY <2>4, <2>5
<1>9. ASSUME NEW e \in Written, WriteFails(e) PROVE Typed' /\ AtEnd'
  <2>1. /\ event' = Append(event, e) /\ pc' \in {"up", "dirty"} /\ Len(event) < MaxRecords
        /\ UNCHANGED <<synced, eps, acked, legacy, acks>>
        /\ file' = file \/ file' = Append(file, Half(This', 1))
    BY <1>9 DEF WriteFails
  <2>2. /\ event' \in Seq(Written) /\ Len(event') = Len(event) + 1 /\ Len(event) \in Nat
        /\ DOMAIN event \subseteq DOMAIN event'
    BY <2>1 DEF Typed
  <2>3. file' \in Seq(Pieces') /\ Len(file') >= Len(file) /\ Len(file') \in Nat
    <3>1. CASE file' = file
      <4>1. Pieces \subseteq Pieces'
        BY <2>2 DEF Pieces, Halves
      <4> QED BY <1>2, <3>1, <4>1, SeqMonotonic DEF Typed
    <3>2. CASE file' = Append(file, Half(This', 1))
      BY <1>2, <2>1, <3>2, AddsHalf
    <3> QED BY <2>1, <3>1, <3>2
  <2>4. Typed'
    BY <1>2, <2>1, <2>2, <2>3, JournalAssumption DEF Typed, JournalAssumption
  <2>5. AtEnd'
    BY <2>1 DEF AtEnd
  <2> QED BY <2>4, <2>5
<1>10. CASE LineFeed
  <2>1. pc = "line" /\ pc' = "sync" /\ file' = Append(file, LF) /\ synced' = synced /\ Agent
    BY <1>10 DEF LineFeed, Goto
  <2>2. event' = event /\ This' = This
    BY <2>1, AgentStays DEF This
  <2>3. /\ file' \in Seq(Pieces') /\ Len(file') = Len(file) + 1
        /\ file'[Len(file) + 1] = LF /\ \A i \in 1..Len(file) : file'[i] = file[i]
    BY <2>1, <2>2, AddsLF DEF Keeps
  <2>4. AtEnd'
    <3>1. /\ Len(file) >= 2 /\ This >= 1
          /\ file[Len(file) - 1] = Half(This, 1) /\ file[Len(file)] = Half(This, 2)
      BY <2>1 DEF AtEnd
    <3>2. Len(file') - 2 = Len(file) - 1 /\ Len(file') - 1 = Len(file) /\ Len(file') >= 3
          /\ Len(file) - 1 \in 1..Len(file) /\ Len(file) \in 1..Len(file)
      BY <1>2, <2>3, <3>1
    <3> QED BY <2>1, <2>2, <2>3, <3>1, <3>2 DEF AtEnd
  <2> QED BY <1>2, <2>1, <2>3, <2>4, AgentStays DEF Typed
<1>11. CASE Sync
  <2>1. /\ pc = "sync" /\ pc' = "up" /\ synced' = Len(file) /\ acked' = acked \cup {This}
        /\ eps' = Apply(eps, event[This], acks)
        /\ UNCHANGED <<file, event, legacy, acks>>
    BY <1>11 DEF Sync, Goto
  <2>2. This \in DOMAIN event /\ event[This] \in Written
    BY <2>1 DEF AtEnd, Typed, This
  <2>3. eps' \in Vectors
    BY <2>1, <2>2, ApplyTyped DEF Typed, Events
  <2> QED BY <1>2, <2>1, <2>2, <2>3, FileStays DEF Typed, AtEnd
<1>12. CASE Dies
  <2>1. /\ pc' = "down" /\ UNCHANGED <<synced, eps, event, acked, legacy, acks>>
    BY <1>12 DEF Dies
  <2>2. PICK n \in synced..Len(file) : file' = Prefix(n)
    BY <1>12 DEF Dies
  <2>3. n \in 0..Len(file) /\ synced <= n
    BY <1>2
  <2>4. file' \in Seq(Pieces') /\ Len(file') = n
    BY <2>1, <2>2, <2>3, CutsTo
  <2> QED BY <1>2, <2>1, <2>3, <2>4 DEF Typed, AtEnd
<1> QED BY <1>3, <1>4, <1>5, <1>6, <1>7, <1>8, <1>9, <1>10, <1>11, <1>12 DEF Next

LEMMA AlwaysTyped == Spec => [](Typed /\ AtEnd)
<1>1. Init => Typed /\ AtEnd
  BY TypedInit
<1>2. Typed /\ AtEnd /\ [Next]_vars => (Typed /\ AtEnd)'
  BY TypedNext
<1> QED BY <1>1, <1>2, PTL DEF Spec

(* The file is line feeds and halves of records that were written, what is *)
(* known to be on the disk is a prefix of it, and acknowledged records were *)
(* written (journal.rs write, open).                                       *)
THEOREM JournalTypeCorrect == Spec => []TypeOK
<1>1. Typed => TypeOK
  <2> SUFFICES ASSUME Typed PROVE TypeOK
    OBVIOUS
  <2>1. Pieces \subseteq [rec : 0..MaxRecords, half : 0..2]
    BY JournalAssumption DEF Typed, Pieces, Halves, Half, LF, JournalAssumption
  <2>2. file \in Seq([rec : 0..MaxRecords, half : 0..2])
    BY <2>1, SeqMonotonic DEF Typed
  <2> QED BY <2>2 DEF Typed, TypeOK, Vectors, Entries, Places
<1> QED BY <1>1, AlwaysTyped, PTL

(* Each record that the agent acknowledges moves its open owners as the     *)
(* stack says (machine.rs push_pause_event, journal.rs pause_episodes).    *)
THEOREM JournalIsAStack == Spec => ImplementsStack
<1>1. ASSUME Typed, AtEnd, [Next]_vars, eps' # eps, pc = "sync"
      PROVE  OpenOwners(eps') = StackStep(OpenOwners(eps), event[This], acks)
  <2>1. eps' = Apply(eps, event[This], acks)
    BY <1>1 DEF Next, vars, TakeLock, RepairRefuses, TailClean, AddNewline, SaveAside, Cut, Flush,
       ReplayRefuses, Replay, WriteBody, WriteFails, LineFeed, LineFeedFails, Sync, SyncFails, Dies,
       Goto, Agent
  <2>2. event[This] \in Events
    BY <1>1 DEF AtEnd, Typed, This, Events
  <2> QED BY <1>1, <2>1, <2>2, EpisodesAreAStack DEF Typed
<1> QED BY <1>1, AlwaysTyped, PTL DEF Spec, ImplementsStack
-----------------------------------------------------------------------------
(* Records begin in the order they were written in.                        *)
Growing ==
  \A i, j \in 1..Len(file) :
    i < j /\ file[i].half = 1 /\ file[j].half = 1 => file[i].rec < file[j].rec

(* A record that was acknowledged lies whole in what is known to be on the *)
(* disk; what follows it and what precedes it do not matter.               *)
Kept ==
  \A r \in acked : \E i \in 1..Len(file) :
    /\ i + 2 <= synced
    /\ file[i] = Half(r, 1) /\ file[i + 1] = Half(r, 2) /\ file[i + 2] = LF

LEMMA GrowingStays ==
  ASSUME Typed, Growing, NEW n \in Nat, Keeps(n), Len(file') \in Nat,
         \A i \in (n + 1)..Len(file') :
           file'[i].half = 1 => i = n + 1 /\ file'[i].rec = Len(event) + 1
  PROVE  Growing'
<1> SUFFICES ASSUME NEW i \in 1..Len(file'), NEW j \in 1..Len(file'), i < j,
                    file'[i].half = 1, file'[j].half = 1
             PROVE  file'[i].rec < file'[j].rec
  BY DEF Growing
<1>1. n <= Len(file) /\ Len(file) \in Nat /\ \A k \in 1..n : file'[k] = file[k]
  BY FileAt DEF Keeps
<1>2. CASE j <= n
  <2>1. i \in 1..n /\ j \in 1..n /\ i \in 1..Len(file) /\ j \in 1..Len(file)
    BY <1>1, <1>2
  <2> QED BY <1>1, <2>1 DEF Growing
<1>3. CASE j > n
  <2>1. j = n + 1 /\ file'[j].rec = Len(event) + 1
    BY <1>3
  <2>2. i \in 1..n /\ i \in 1..Len(file)
    BY <1>1, <2>1
  <2>3. file[i].rec \in 0..Len(event) /\ Len(event) \in Nat
    BY <2>2, FileAt, PieceIs DEF Typed
  <2> QED BY <1>1, <2>1, <2>2, <2>3
<1> QED BY <1>2, <1>3

LEMMA KeptStays ==
  ASSUME Typed, Kept, NEW n \in Nat, Keeps(n), Len(file') \in Nat, acked' = acked,
         \A b \in Ends : b <= synced => b <= synced' /\ b <= n
  PROVE  Kept'
<1> SUFFICES ASSUME NEW r \in acked
             PROVE  \E i \in 1..Len(file') :
                      /\ i + 2 <= synced'
                      /\ file'[i] = Half(r, 1) /\ file'[i + 1] = Half(r, 2) /\ file'[i + 2] = LF
  BY DEF Kept
<1>1. n <= Len(file) /\ n <= Len(file') /\ \A k \in 1..n : file'[k] = file[k]
  BY DEF Keeps
<1>2. PICK i \in 1..Len(file) :
        /\ i + 2 <= synced
        /\ file[i] = Half(r, 1) /\ file[i + 1] = Half(r, 2) /\ file[i + 2] = LF
  BY DEF Kept
<1>3. i + 2 \in Ends
  BY <1>2, FileAt DEF Ends, Typed
<1>4. i + 2 <= synced' /\ i + 2 <= n
  BY <1>2, <1>3
<1>5. i \in 1..n /\ i + 1 \in 1..n /\ i + 2 \in 1..n /\ i \in 1..Len(file')
  BY <1>1, <1>2, <1>4, FileAt
<1> QED BY <1>1, <1>2, <1>4, <1>5

LEMMA OrderNext ==
  Typed /\ AtEnd /\ Growing /\ Kept /\ [Next]_vars => Growing' /\ Kept'
<1> SUFFICES ASSUME Typed, AtEnd, Growing, Kept, [Next]_vars PROVE Growing' /\ Kept'
  OBVIOUS
<1>0. Len(file) \in Nat /\ synced \in 0..Len(file) /\ Len(event) \in Nat
  BY FileAt DEF Typed
<1>1. ASSUME file' = file, event' = event, acked' = acked, synced' >= synced, synced' \in Nat
      PROVE  Growing' /\ Kept'
  <2>1. Keeps(Len(file)) /\ \A b \in Ends : b <= synced => b <= synced' /\ b <= Len(file)
    BY <1>0, <1>1, FileStays, TailStartIs
  <2> QED BY <1>0, <1>1, <2>1, GrowingStays, KeptStays
<1>2. CASE UNCHANGED vars
  BY <1>0, <1>1, <1>2 DEF vars, fileVars
<1>3. CASE TakeLock \/ RepairRefuses \/ TailClean \/ SaveAside \/ ReplayRefuses
           \/ LineFeedFails \/ SyncFails \/ Flush
  BY <1>0, <1>1, <1>3
     DEF TakeLock, RepairRefuses, TailClean, SaveAside, ReplayRefuses, LineFeedFails, SyncFails,
         Flush, Goto, fileVars, Agent
<1>4. CASE Replay
  BY <1>0, <1>1, <1>4 DEF Replay, fileVars
<1>5. CASE AddNewline \/ LineFeed
  <2>1. file' = Append(file, LF) /\ synced' = synced /\ acked' = acked /\ event' = event
    BY <1>5 DEF AddNewline, LineFeed, Agent
  <2>2. Keeps(Len(file)) /\ Len(file') = Len(file) + 1 /\ file'[Len(file) + 1] = LF
    BY <2>1, AddsLF
  <2>3. \A i \in (Len(file) + 1)..Len(file') : file'[i].half # 1
    BY <1>0, <2>2 DEF LF
  <2>4. \A b \in Ends : b <= synced => b <= synced' /\ b <= Len(file)
    BY <1>0, <2>1, TailStartIs
  <2> QED BY <1>0, <2>1, <2>2, <2>3, <2>4, GrowingStays, KeptStays
<1>6. CASE Cut
  <2>1. /\ file' = Prefix(TailStart) /\ acked' = acked /\ event' = event
        /\ synced' = IF synced < TailStart THEN synced ELSE TailStart
    BY <1>6 DEF Cut, Agent
  <2>2. TailStart \in 0..Len(file) /\ \A b \in Ends : b \in 1..Len(file) /\ b <= TailStart
    BY TailStartIs
  <2>3. Keeps(TailStart) /\ Len(file') = TailStart
    BY <2>1, <2>2, CutsTo
  <2>4. \A b \in Ends : b <= synced => b <= synced' /\ b <= TailStart
    BY <1>0, <2>1, <2>2
  <2> QED BY <1>0, <2>1, <2>2, <2>3, <2>4, GrowingStays, KeptStays
<1>7. CASE Dies
  <2>1. UNCHANGED <<synced, event, acked>>
    BY <1>7 DEF Dies
  <2>2. PICK n \in synced..Len(file) : file' = Prefix(n)
    BY <1>7 DEF Dies
  <2>3. n \in 0..Len(file) /\ synced <= n
    BY <1>0
  <2>4. Keeps(n) /\ Len(file') = n
    BY <2>1, <2>2, <2>3, CutsTo
  <2>5. \A b \in Ends : b <= synced => b <= synced' /\ b <= n
    BY <1>0, <2>1, <2>3, TailStartIs
  <2> QED BY <1>0, <2>1, <2>3, <2>4, <2>5, GrowingStays, KeptStays
<1>8. ASSUME NEW e \in Written, WriteBody(e) PROVE Growing' /\ Kept'
  <2>1. /\ event' = Append(event, e) /\ file' = file \o Body(This')
        /\ synced' = synced /\ acked' = acked
    BY <1>8 DEF WriteBody
  <2>2. /\ Keeps(Len(file)) /\ Len(file') = Len(file) + 2
        /\ file'[Len(file) + 1] = Half(This', 1) /\ file'[Len(file) + 2] = Half(This', 2)
        /\ This' = Len(event) + 1
    BY <2>1, AddsBody DEF This
  <2>3. \A i \in (Len(file) + 1)..Len(file') :
          file'[i].half = 1 => i = Len(file) + 1 /\ file'[i].rec = Len(event) + 1
    BY <1>0, <2>2 DEF Half
  <2>4. \A b \in Ends : b <= synced => b <= synced' /\ b <= Len(file)
    BY <1>0, <2>1, TailStartIs
  <2> QED BY <1>0, <2>1, <2>2, <2>3, <2>4, GrowingStays, KeptStays
<1>9. ASSUME NEW e \in Written, WriteFails(e) PROVE Growing' /\ Kept'
  <2>1. /\ event' = Append(event, e) /\ synced' = synced /\ acked' = acked
        /\ file' = file \/ file' = Append(file, Half(This', 1))
    BY <1>9 DEF WriteFails
  <2>2. \A b \in Ends : b <= synced => b <= synced' /\ b <= Len(file)
    BY <1>0, <2>1, TailStartIs
  <2>3. CASE file' = file
    <3>1. Keeps(Len(file)) /\ Len(file') = Len(file)
      BY <1>0, <2>3 DEF Keeps
    <3> QED BY <1>0, <2>1, <2>2, <3>1, GrowingStays, KeptStays
  <2>4. CASE file' = Append(file, Half(This', 1))
    <3>1. /\ Keeps(Len(file)) /\ Len(file') = Len(file) + 1
          /\ file'[Len(file) + 1] = Half(This', 1) /\ This' = Len(event) + 1
      BY <2>1, <2>4, AddsHalf DEF This
    <3>2. \A i \in (Len(file) + 1)..Len(file') :
            file'[i].half = 1 => i = Len(file) + 1 /\ file'[i].rec = Len(event) + 1
      BY <1>0, <3>1 DEF Half
    <3> QED BY <1>0, <2>1, <2>2, <3>1, <3>2, GrowingStays, KeptStays
  <2> QED BY <2>1, <2>3, <2>4
<1>10. CASE Sync
  <2>1. /\ pc = "sync" /\ synced' = Len(file) /\ acked' = acked \cup {This}
        /\ file' = file /\ event' = event
    BY <1>10 DEF Sync, Goto
  <2>2. Growing'
    BY <2>1 DEF Growing
  <2>3. Kept'
    <3>1. /\ Len(file) >= 3 /\ file[Len(file)] = LF
          /\ file[Len(file) - 2] = Half(This, 1) /\ file[Len(file) - 1] = Half(This, 2)
      BY <2>1 DEF AtEnd
    <3>2. \E i \in 1..Len(file) :
            /\ i + 2 <= Len(file)
            /\ file[i] = Half(This, 1) /\ file[i + 1] = Half(This, 2) /\ file[i + 2] = LF
      <4> DEFINE i == Len(file) - 2
      <4>1. i \in 1..Len(file) /\ i + 2 = Len(file) /\ i + 1 = Len(file) - 1
        BY <1>0, <3>1
      <4> QED BY <3>1, <4>1
    <3>3. \A r \in acked : \E i \in 1..Len(file) :
            /\ i + 2 <= Len(file)
            /\ file[i] = Half(r, 1) /\ file[i + 1] = Half(r, 2) /\ file[i + 2] = LF
      BY <1>0 DEF Kept
    <3> QED BY <2>1, <3>2, <3>3 DEF Kept
  <2> QED BY <2>2, <2>3
<1> QED BY <1>2, <1>3, <1>4, <1>5, <1>6, <1>7, <1>8, <1>9, <1>10 DEF Next

(* Whatever died and however a write failed, a replay that does not refuse *)
(* returns every record the machine acted on, once and in order.           *)
THEOREM JournalKeepsAcknowledged == Spec => []KeepsAcknowledged
<1>1. Init => Growing /\ Kept
  BY DEF Init, Growing, Kept
<1>2. ASSUME Typed, Growing, Kept PROVE KeepsAcknowledged
  <2> DEFINE rs == Recovered
  <2> SUFFICES ASSUME ~Corrupt
               PROVE  /\ acked \subseteq Range(rs)
                      /\ \A i, j \in DOMAIN rs : i < j => rs[i] < rs[j]
    BY DEF KeepsAcknowledged
  <2>1. /\ TailStart \div 3 \in Nat /\ Len(rs) = TailStart \div 3
        /\ DOMAIN rs = 1..Len(rs)
        /\ \A k \in 1..Len(rs) :
             /\ 3 * k \in 1..Len(file) /\ file[3 * k] = LF
             /\ file[3 * k - 2] = Half(rs[k], 1)
    BY <1>2, RecoveredIs
  <2> HIDE DEF rs
  <2>2. ASSUME NEW r \in acked PROVE r \in Range(rs)
    <3>1. PICK i \in 1..Len(file) :
            i + 2 <= synced /\ file[i] = Half(r, 1) /\ file[i + 2] = LF
      BY <1>2 DEF Kept
    <3>2. i + 2 \in Ends
      BY <1>2, <3>1, FileAt DEF Ends, Typed
    <3>3. (i + 2) % 3 = 0 /\ i + 2 <= TailStart /\ TailStart \in Nat
      BY <1>2, <3>2, LinesOfThree, TailStartIs
    <3>4. PICK k \in 1..(TailStart \div 3) : i = 3 * k - 2
      <4>1. (i + 2) \div 3 \in 1..(TailStart \div 3) /\ i = 3 * ((i + 2) \div 3) - 2
        BY <3>3
      <4> QED BY <4>1
    <3>5. Half(rs[k], 1) = Half(r, 1) /\ k \in DOMAIN rs
      BY <2>1, <3>1, <3>4
    <3> QED BY <3>5 DEF Half, Range
  <2>3. ASSUME NEW i \in DOMAIN rs, NEW j \in DOMAIN rs, i < j PROVE rs[i] < rs[j]
    <3>1. /\ 3 * i - 2 \in 1..Len(file) /\ 3 * j - 2 \in 1..Len(file) /\ 3 * i - 2 < 3 * j - 2
          /\ file[3 * i - 2] = Half(rs[i], 1) /\ file[3 * j - 2] = Half(rs[j], 1)
      BY <1>2, <2>1, <2>3, FileAt
    <3> QED BY <1>2, <3>1 DEF Growing, Half
  <2> QED BY <2>2, <2>3
<1>3. Spec => [](Growing /\ Kept)
  BY <1>1, OrderNext, AlwaysTyped, PTL DEF Spec
<1>4. Typed /\ Growing /\ Kept => KeepsAcknowledged
  BY <1>2
<1> QED BY <1>3, <1>4, AlwaysTyped, PTL
-----------------------------------------------------------------------------
(* While nobody wrote on after a failed write, the file is records of      *)
(* three units, the last of which may be cut short.                        *)
ShapedAt(p) ==
  /\ p % 3 = 0 => file[p] = LF
  /\ p % 3 = 1 => file[p].half = 1
  /\ p % 3 = 2 => file[p] = Half(file[p - 1].rec, 2)
Shaped == \A p \in 1..Len(file) : ShapedAt(p)

Sound ==
  ~spoilt => /\ Shaped
             /\ pc \in {"flush", "replay", "up", "sync"} => Len(file) % 3 = 0
             /\ pc = "line" => Len(file) % 3 = 2
             /\ pc # "refused"

LEMMA ShapedParses ==
  ASSUME Typed, Shaped
  PROVE  /\ \A b \in Ends : LineParses(b)
         /\ TailStart % 3 = 0
<1>1. ASSUME NEW b \in Ends PROVE LineParses(b) /\ b % 3 = 0
  <2>1. b \in 1..Len(file) /\ file[b].half = 0 /\ Len(file) \in Nat
    BY FileAt, TailStartIs DEF Ends, LF
  <2>2. b % 3 = 0
    <3>1. ShapedAt(b)
      BY <2>1 DEF Shaped
    <3> QED BY <2>1, <3>1 DEF ShapedAt, Half
  <2>3. /\ b - 2 \in 1..Len(file) /\ b - 1 \in 1..Len(file)
        /\ (b - 2) % 3 = 1 /\ (b - 1) % 3 = 2 /\ b >= 3
    BY <2>1, <2>2
  <2>4. file[b - 2].half = 1 /\ file[b - 2] \in Pieces
    BY <2>3, FileAt DEF Shaped, ShapedAt
  <2>5. file[b - 2] = Half(file[b - 2].rec, 1)
    BY <2>4, PieceIs
  <2>6. file[b - 1] = Half(file[b - 2].rec, 2)
    <3>1. ShapedAt(b - 1) /\ b - 1 - 1 = b - 2
      BY <2>1, <2>3 DEF Shaped
    <3> QED BY <2>3, <3>1 DEF ShapedAt
  <2>7. b = 3 \/ b - 3 \in Ends
    <3> SUFFICES ASSUME b # 3 PROVE b - 3 \in Ends
      OBVIOUS
    <3>1. b - 3 \in 1..Len(file) /\ (b - 3) % 3 = 0
      BY <2>1, <2>2, <2>3
    <3> QED BY <3>1, FileAt DEF Shaped, ShapedAt, Ends
  <2> QED BY <2>2, <2>5, <2>6, <2>7 DEF LineParses
<1>2. TailStart % 3 = 0
  BY <1>1, TailStartIs
<1> QED BY <1>1, <1>2

LEMMA ShapedStays ==
  ASSUME Typed, Shaped, NEW n \in Nat, Keeps(n), Len(file') \in Nat,
         \A p \in (n + 1)..Len(file') : ShapedAt(p)'
  PROVE  Shaped'
<1> SUFFICES ASSUME NEW p \in 1..Len(file') PROVE ShapedAt(p)'
  BY DEF Shaped
<1>1. CASE p <= n
  <2>1. p \in 1..n /\ p \in 1..Len(file) /\ file'[p] = file[p]
    BY <1>1, FileAt DEF Keeps
  <2>2. ShapedAt(p)
    BY <2>1 DEF Shaped
  <2>3. p % 3 = 2 => file'[p - 1] = file[p - 1]
    BY <2>1 DEF Keeps
  <2> QED BY <2>1, <2>2, <2>3 DEF ShapedAt
<1>2. CASE p > n
  BY <1>2
<1> QED BY <1>1, <1>2

LEMMA SoundNext == Typed /\ AtEnd /\ Sound /\ [Next]_vars => Sound'
<1> SUFFICES ASSUME Typed, AtEnd, Sound, [Next]_vars, ~spoilt' PROVE Sound'
  BY DEF Sound
<1>0. Len(file) \in Nat /\ synced \in 0..Len(file)
  BY FileAt DEF Typed
<1>a. spoilt' = spoilt \/ (spoilt' = (spoilt \/ pc = "dirty"))
  BY DEF Next, vars, TakeLock, RepairRefuses, TailClean, AddNewline, SaveAside, Cut, Flush,
     ReplayRefuses, Replay, WriteBody, WriteFails, LineFeed, LineFeedFails, Sync, SyncFails, Dies,
     Goto, Agent
<1>b. ~spoilt /\ Shaped
  <2>1. ~spoilt
    BY <1>a, Zenon
  <2> QED BY <2>1 DEF Sound
<1>c. ASSUME file' = file, pc' \notin {"refused", "line"},
             pc' \in {"flush", "replay", "up", "sync"} => Len(file) % 3 = 0
      PROVE  Sound'
  BY <1>b, <1>c DEF Sound, Shaped, ShapedAt
<1>d. \A b \in Ends : LineParses(b)
  BY <1>b, ShapedParses
<1>e. TailStart \in 0..Len(file) /\ TailStart % 3 = 0 /\ ~LastCorrupt
  BY <1>b, <1>d, ShapedParses, TailStartIs DEF LastCorrupt
<1>1. CASE UNCHANGED vars
  BY <1>1, <1>b DEF vars, fileVars, Sound, Shaped, ShapedAt
<1>2. CASE TakeLock \/ SaveAside \/ LineFeedFails \/ SyncFails \/ Flush \/ Sync \/ Replay
  BY <1>2, <1>b, <1>c
     DEF TakeLock, SaveAside, LineFeedFails, SyncFails, Flush, Sync, Replay, Goto, fileVars, Sound
<1>3. CASE RepairRefuses \/ ReplayRefuses
  BY <1>3, <1>d, <1>e DEF RepairRefuses, ReplayRefuses, Corrupt
<1>4. CASE TailClean
  <2>1. Len(file) % 3 = 0
    <3>1. Trailing = <<>>
      BY <1>4 DEF TailClean
    <3>2. TailStart + 1 > Len(file)
      <4>1. \A i \in TailStart + 1..Len(file) : file[i] \in Pieces
        BY <1>0, <1>e, FileAt
      <4>2. Len(Trailing) =
              IF TailStart + 1 <= Len(file) THEN Len(file) - (TailStart + 1) + 1 ELSE 0
        BY <1>0, <1>e, <4>1, SubSeqProperties DEF Trailing
      <4>3. Len(Trailing) = 0
        BY <3>1
      <4> QED BY <1>0, <1>e, <4>2, <4>3
    <3>3. TailStart = Len(file)
      BY <1>0, <1>e, <3>2
    <3> QED BY <1>e, <3>3
  <2> QED BY <1>4, <1>c, <2>1 DEF TailClean, Goto, fileVars
<1>5. CASE AddNewline
  <2>1. /\ file' = Append(file, LF) /\ event' = event /\ pc' = "flush" /\ Parses(Trailing)
    BY <1>5 DEF AddNewline, Agent, Goto
  <2>2. Len(file) = TailStart + 2
    <3>1. \A i \in TailStart + 1..Len(file) : file[i] \in Pieces
      BY <1>0, <1>e, FileAt
    <3>2. Len(Trailing) = IF TailStart + 1 <= Len(file) THEN Len(file) - (TailStart + 1) + 1 ELSE 0
      BY <1>0, <1>e, <3>1, SubSeqProperties DEF Trailing
    <3>3. Len(Trailing) = 2
      BY <2>1 DEF Parses
    <3>4. TailStart \in Nat /\ TailStart + 1 <= Len(file)
      BY <1>0, <1>e, <3>2, <3>3
    <3>5. 2 = Len(file) - (TailStart + 1) + 1
      BY <3>2, <3>3, <3>4
    <3> QED BY <1>0, <3>4, <3>5
  <2>3. Keeps(Len(file)) /\ Len(file') = Len(file) + 1 /\ file'[Len(file) + 1] = LF
    BY <2>1, AddsLF
  <2>4. (Len(file) + 1) % 3 = 0
    BY <1>e, <2>2
  <2>5. \A p \in (Len(file) + 1)..Len(file') : ShapedAt(p)'
    BY <1>0, <2>3, <2>4 DEF ShapedAt
  <2>6. Shaped'
    BY <1>0, <1>b, <2>3, <2>5, ShapedStays
  <2> QED BY <2>1, <2>3, <2>4, <2>6 DEF Sound
<1>6. CASE Cut
  <2>1. file' = Prefix(TailStart) /\ event' = event /\ pc' = "flush"
    BY <1>6 DEF Cut, Agent, Goto
  <2>2. Keeps(TailStart) /\ Len(file') = TailStart
    BY <1>e, <2>1, CutsTo
  <2>3. Shaped'
    BY <1>0, <1>b, <1>e, <2>2, ShapedStays
  <2> QED BY <1>e, <2>1, <2>2, <2>3 DEF Sound
<1>7. CASE Dies
  <2>1. event' = event /\ pc' = "down"
    BY <1>7 DEF Dies
  <2>2. PICK n \in synced..Len(file) : file' = Prefix(n)
    BY <1>7 DEF Dies
  <2>3. n \in 0..Len(file)
    BY <1>0
  <2>4. Keeps(n) /\ Len(file') = n
    BY <2>1, <2>2, <2>3, CutsTo
  <2>5. Shaped'
    BY <1>0, <1>b, <2>3, <2>4, ShapedStays
  <2> QED BY <2>1, <2>5 DEF Sound
<1>8. ASSUME NEW e \in Written, WriteBody(e) PROVE Sound'
  <2>1. /\ event' = Append(event, e) /\ file' = file \o Body(This') /\ pc' = "line"
        /\ pc \in {"up", "dirty"} /\ spoilt' = (spoilt \/ pc = "dirty")
    BY <1>8 DEF WriteBody
  <2>2. Len(file) % 3 = 0
    BY <1>b, <2>1 DEF Sound
  <2>3. /\ Keeps(Len(file)) /\ Len(file') = Len(file) + 2
        /\ file'[Len(file) + 1] = Half(This', 1) /\ file'[Len(file) + 2] = Half(This', 2)
    BY <2>1, AddsBody
  <2>4. Len(file') % 3 = 2
    BY <1>0, <2>2, <2>3
  <2>5. ASSUME NEW p \in (Len(file) + 1)..Len(file') PROVE ShapedAt(p)'
    <3>1. CASE p = Len(file) + 1
      <4>1. p % 3 = 1
        BY <1>0, <2>2, <3>1
      <4> QED BY <2>3, <3>1, <4>1 DEF ShapedAt, Half
    <3>2. CASE p = Len(file) + 2
      <4>1. p % 3 = 2 /\ p - 1 = Len(file) + 1
        BY <1>0, <2>2, <3>2
      <4> QED BY <2>3, <3>2, <4>1 DEF ShapedAt, Half
    <3> QED BY <1>0, <2>3, <3>1, <3>2
  <2>6. Len(file') \in Nat
    BY <1>0, <2>3
  <2>8. Shaped'
    BY <1>0, <1>b, <2>3, <2>5, <2>6, ShapedStays
  <2> QED BY <2>1, <2>3, <2>4, <2>8 DEF Sound
<1>9. ASSUME NEW e \in Written, WriteFails(e) PROVE Sound'
  <2>1. CASE UNCHANGED <<file, pc, spoilt>>
    <3>1. pc \in {"up", "dirty"}
      BY <1>9 DEF WriteFails
    <3> QED BY <1>b, <1>c, <2>1, <3>1 DEF Sound
  <2>2. CASE /\ file' = Append(file, Half(This', 1)) /\ pc' = "dirty"
             /\ spoilt' = (spoilt \/ pc = "dirty")
    <3>1. event' = Append(event, e) /\ pc \in {"up", "dirty"}
      BY <1>9 DEF WriteFails
    <3>2. Len(file) % 3 = 0
      BY <1>b, <2>2, <3>1 DEF Sound
    <3>3. /\ Keeps(Len(file)) /\ Len(file') = Len(file) + 1
          /\ file'[Len(file) + 1] = Half(This', 1)
      BY <2>2, <3>1, AddsHalf
    <3>4. (Len(file) + 1) % 3 = 1
      BY <1>0, <3>2
    <3>5. \A p \in (Len(file) + 1)..Len(file') : ShapedAt(p)'
      BY <1>0, <3>3, <3>4 DEF ShapedAt, Half
    <3>6. Shaped'
      BY <1>0, <1>b, <3>3, <3>5, ShapedStays
    <3> QED BY <2>2, <3>6 DEF Sound
  <2> QED BY <1>9, <2>1, <2>2 DEF WriteFails
<1>10. CASE LineFeed
  <2>1. pc = "line" /\ pc' = "sync" /\ file' = Append(file, LF) /\ event' = event
    BY <1>10 DEF LineFeed, Goto, Agent
  <2>2. Keeps(Len(file)) /\ Len(file') = Len(file) + 1 /\ file'[Len(file) + 1] = LF
    BY <2>1, AddsLF
  <2>3. (Len(file) + 1) % 3 = 0
    BY <1>0, <1>b, <2>1 DEF Sound
  <2>4. \A p \in (Len(file) + 1)..Len(file') : ShapedAt(p)'
    BY <1>0, <2>2, <2>3 DEF ShapedAt
  <2>5. Shaped'
    BY <1>0, <1>b, <2>2, <2>4, ShapedStays
  <2> QED BY <2>1, <2>2, <2>3, <2>5 DEF Sound
<1> QED BY <1>1, <1>2, <1>3, <1>4, <1>5, <1>6, <1>7, <1>8, <1>9, <1>10 DEF Next

(* However an agent died, at any byte of a write or a repair, the next one *)
(* opens the journal, unless one wrote on after a write that had failed.    *)
THEOREM JournalOpensAgain == Spec => []OpensAgain
<1>1. Init => Sound
  BY DEF Init, Sound, Shaped
<1>2. Spec => []Sound
  BY <1>1, SoundNext, AlwaysTyped, PTL DEF Spec
<1>3. Sound => OpensAgain
  BY DEF Sound, OpensAgain
<1> QED BY <1>2, <1>3, PTL
-----------------------------------------------------------------------------
(* Ownership only ever sits on top of the stack: every way to lose the top *)
(* one uncovers an episode that is not ours.                               *)
NotOurs(s) == \A i \in 1..Len(s) : s[i] # "ours"
Low(v) == NotOurs(Stack!Close(OpenOwners(v)))

LEMMA CloseIs ==
  ASSUME NEW s \in Stacks, s # <<>>
  PROVE  /\ Stack!Close(s) \in Stacks /\ Len(Stack!Close(s)) = Len(s) - 1
         /\ \A i \in 1..Len(s) - 1 : Stack!Close(s)[i] = s[i]
<1> DEFINE n == Len(s) - 1
<1>1. Stack!Close(s) = SubSeq(s, 1, n) /\ n \in 0..Len(s)
  BY DEF Stack!Close, Stacks
<1> HIDE DEF n
<1>2. /\ SubSeq(s, 1, n) \in Stacks /\ Len(SubSeq(s, 1, n)) = n
      /\ \A i \in 1..n : SubSeq(s, 1, n)[i] = s[i]
  BY <1>1 DEF Stacks
<1> QED BY <1>1, <1>2 DEF n

LEMMA StackIs ==
  ASSUME NEW s \in Stacks, NotOurs(Stack!Close(s))
  PROVE  /\ Stack!Close(s) \in Stacks
         /\ Stack!Top(s) # "ours" => NotOurs(s)
         /\ Stack!Top(Stack!Close(s)) # "ours"
         /\ NotOurs(Stack!Close(Stack!Close(s)))
<1>0. Len(s) \in Nat
  BY DEF Stacks
<1>1. CASE s = <<>>
  BY <1>1 DEF Stack!Close, Stack!Top, NotOurs, Stacks
<1>2. CASE s # <<>>
  <2> DEFINE t == Stack!Close(s)
  <2>1. Len(s) >= 1
    BY <1>0, <1>2 DEF Stacks
  <2>2. t \in Stacks /\ Len(t) = Len(s) - 1 /\ \A i \in 1..Len(s) - 1 : t[i] = s[i]
    BY <1>2, CloseIs
  <2>3. \A i \in 1..Len(s) - 1 : s[i] # "ours"
    BY <2>2 DEF NotOurs
  <2>4. Stack!Top(s) # "ours" => NotOurs(s)
    BY <1>0, <1>2, <2>3 DEF NotOurs, Stack!Top
  <2> HIDE DEF t
  <2>5. Stack!Top(t) # "ours" /\ NotOurs(t)
    <3>1. NotOurs(t)
      BY DEF t
    <3>2. t # <<>> => Len(t) \in 1..Len(t)
      BY <2>2 DEF Stacks
    <3> QED BY <3>1, <3>2 DEF Stack!Top, NotOurs
  <2>6. NotOurs(Stack!Close(t))
    <3>1. CASE t = <<>>
      BY <2>5, <3>1 DEF Stack!Close
    <3>2. CASE t # <<>>
      <4>1. Len(t) - 1 \in Nat
        BY <2>2, <3>2 DEF Stacks
      <4>2. /\ Len(Stack!Close(t)) = Len(t) - 1
            /\ \A i \in 1..Len(t) - 1 : Stack!Close(t)[i] = t[i]
        BY <2>2, <3>2, CloseIs
      <4> QED BY <2>2, <2>5, <4>1, <4>2 DEF NotOurs
    <3> QED BY <3>1, <3>2
  <2> QED BY <2>2, <2>4, <2>5, <2>6 DEF t
<1> QED BY <1>1, <1>2

(* What one replayed event can do to it: only the confirmation of a pause, *)
(* or where no confirmation is asked for the pause itself, makes it ours.  *)
LEMMA LowStep ==
  ASSUME NEW v \in Vectors, Low(v), NEW acks0 \in BOOLEAN, NEW e \in Events \ {"release"},
         e \in {"pause", "adopt"} => LatestOwner(v) # "ours", e = "ack" => acks0
  PROVE  /\ Low(Apply(v, e, acks0))
         /\ LatestOwner(Apply(v, e, acks0)) = "ours" => e = IF acks0 THEN "ack" ELSE "pause"
<1> DEFINE s == OpenOwners(v)
           w == Apply(v, e, acks0)
           t == OpenOwners(w)
<1>0. {"ours", "external", "unknown", "closing"} = Stack!Owners
  BY DEF Stack!Owners
<1>1. s \in Stacks /\ LatestOwner(v) = Stack!Top(s)
  BY LatestIsTop
<1>2. w \in Vectors
  BY ApplyTyped
<1>3. t = StackStep(s, e, acks0) /\ LatestOwner(w) = Stack!Top(t)
  <2> HIDE DEF w
  <2>1. LatestOwner(w) = Stack!Top(OpenOwners(w))
    BY <1>2, LatestIsTop
  <2> QED BY <2>1, EpisodesAreAStack DEF w
<1>4. /\ Stack!Close(s) \in Stacks /\ NotOurs(Stack!Close(s))
      /\ Stack!Top(s) # "ours" => NotOurs(s)
      /\ Stack!Top(Stack!Close(s)) # "ours"
      /\ NotOurs(Stack!Close(Stack!Close(s)))
  BY <1>1, StackIs DEF Low
<1> DEFINE Goal == /\ NotOurs(Stack!Close(t))
                   /\ Stack!Top(t) = "ours" => e = IF acks0 THEN "ack" ELSE "pause"
<1> SUFFICES Goal
  BY <1>3 DEF Low
<1> HIDE DEF s, w, t
<1>5. ASSUME NEW u \in Stacks, NEW o \in Stack!Owners, NotOurs(u), t = Append(u, o)
      PROVE  NotOurs(Stack!Close(t)) /\ Stack!Top(t) = o
  BY <1>5, StackTop
<1>6. CASE e = "pause"
  <2> DEFINE o == IF acks0 THEN "unknown" ELSE "ours"
  <2>1. t = Append(s, o) /\ o \in Stack!Owners
    BY <1>0, <1>3, <1>6 DEF StackStep, Stack!Intend, Stack!Push
  <2>2. NotOurs(s)
    BY <1>1, <1>4, <1>6
  <2>3. NotOurs(Stack!Close(t)) /\ Stack!Top(t) = o
    BY <1>1, <1>5, <2>1, <2>2
  <2> QED BY <1>6, <2>3
<1>7. CASE e = "adopt"
  <2>1. t = Append(s, "external") /\ "external" \in Stack!Owners
    BY <1>0, <1>3, <1>7 DEF StackStep, Stack!Adopt, Stack!Push
  <2>2. NotOurs(s)
    BY <1>1, <1>4, <1>7
  <2> QED BY <1>1, <1>5, <2>1, <2>2
<1>8. CASE e = "ack"
  <2>1. t = Stack!Settle(s, "unknown", "ours") /\ acks0
    BY <1>3, <1>8 DEF StackStep, Stack!Acknowledge
  <2>2. t = s \/ t = Append(Stack!Close(s), "ours")
    BY <2>1 DEF Stack!Settle, Stack!Push
  <2>3. NotOurs(Stack!Close(t))
    BY <1>0, <1>4, <1>5, <2>2
  <2> QED BY <1>8, <2>1, <2>3
<1>9. CASE e = "resume"
  BY <1>3, <1>4, <1>9 DEF StackStep
<1>10. CASE e = "closing"
  <2>1. t = Stack!Settle(s, "ours", "closing")
    BY <1>3, <1>10 DEF StackStep, Stack!BeginResume
  <2>2. \/ t = s /\ Stack!Top(s) # "ours"
        \/ t = Append(Stack!Close(s), "closing")
    BY <2>1 DEF Stack!Settle, Stack!Push
  <2> QED BY <1>0, <1>4, <1>5, <2>2
<1>11. CASE e = "stale"
  <2>1. t = Append(Stack!Close(s), "unknown")
    BY <1>3, <1>11 DEF StackStep, Stack!Release, Stack!Push
  <2> QED BY <1>0, <1>4, <1>5, <2>1
<1> QED BY <1>6, <1>7, <1>8, <1>9, <1>10, <1>11 DEF Events, Written
-----------------------------------------------------------------------------
(* The records of the file, line by line, as far as each is whole.         *)
RecAt(j) == file[3 * j - 2].rec
Rows(k) ==
  \A j \in 1..k : /\ 3 * j \in 1..Len(file) /\ file[3 * j] = LF
                  /\ file[3 * j - 2] = Half(RecAt(j), 1)
                  /\ file[3 * j - 1] = Half(RecAt(j), 2)

(* A body after the first k records, whether its line feed follows or not.  *)
BodyAt(k, r) ==
  /\ 3 * k + 2 <= Len(file)
  /\ file[3 * k + 1] = Half(r, 1) /\ file[3 * k + 2] = Half(r, 2)

(* What a replay makes of the first k records.                             *)
Recs(k) == [j \in 1..k |-> OnReplay(event[RecAt(j)])]
After(k) == Fold(Recs(k), legacy, acks)
Ours(v) == LatestOwner(v) = "ours"

(* The event that makes a pause ours, and records without an unacknowledged *)
(* one of them.                                                            *)
Gain == IF acks THEN "ack" ELSE "pause"
Clean(k) == \A j \in 1..k : event[RecAt(j)] = Gain => RecAt(j) \in acked

LEMMA RowsAre ==
  ASSUME Typed, NEW k \in Nat, Rows(k)
  PROVE  /\ 3 * k <= Len(file)
         /\ \A j \in 1..k : RecAt(j) \in DOMAIN event
         /\ Recs(k) \in Seq(Events) /\ Len(Recs(k)) = k
         /\ \A j \in 1..k : Recs(k)[j] = OnReplay(event[RecAt(j)])
         /\ After(k) \in Vectors
<1>1. 3 * k <= Len(file)
  <2>1. Len(file) \in Nat
    BY FileAt
  <2>2. CASE k = 0
    BY <2>1, <2>2
  <2>3. CASE k # 0
    <3>1. k \in 1..k
      BY <2>3
    <3> QED BY <2>1, <3>1 DEF Rows
  <2> QED BY <2>2, <2>3
<1>2. ASSUME NEW j \in 1..k PROVE RecAt(j) \in DOMAIN event
  <2>1. /\ 3 * j \in 1..Len(file) /\ file[3 * j - 2] = Half(RecAt(j), 1)
    BY DEF Rows
  <2>2. 3 * j - 2 \in 1..Len(file)
    BY <2>1, FileAt
  <2>3. file[3 * j - 2] \in Pieces /\ file[3 * j - 2].half # 0
    BY <2>1, <2>2, FileAt DEF Half
  <2> QED BY <2>3, PieceIs DEF RecAt
<1>3. \A r \in DOMAIN event : OnReplay(event[r]) \in Events
  BY DEF Typed, OnReplay, Events, Written
<1>4. Recs(k) \in Seq(Events) /\ Len(Recs(k)) = k
      /\ \A j \in 1..k : Recs(k)[j] = OnReplay(event[RecAt(j)])
  BY <1>2, <1>3 DEF Recs
<1>5. After(k) \in Vectors
  BY <1>4, FoldTyped DEF After, Typed
<1> QED BY <1>1, <1>2, <1>4, <1>5

(* The rows a step leaves in place mean what they meant.                   *)
LEMMA SameRows ==
  ASSUME Typed, NEW k \in Nat, NEW n, Keeps(n), 3 * k <= n, Rows(k)',
         \A r \in DOMAIN event : event'[r] = event[r],
         legacy' = legacy, acks' = acks
  PROVE  /\ Rows(k) /\ After(k)' = After(k) /\ Gain' = Gain
         /\ \A j \in 1..k : RecAt(j)' = RecAt(j) /\ event'[RecAt(j)'] = event[RecAt(j)]
<1>1. n \in 0..Len(file) /\ Len(file) \in Nat /\ \A i \in 1..n : file'[i] = file[i]
  BY FileAt DEF Keeps
<1>2. ASSUME NEW j \in 1..k
      PROVE  /\ 3 * j \in 1..n /\ 3 * j - 1 \in 1..n /\ 3 * j - 2 \in 1..n
             /\ 3 * j \in 1..Len(file) /\ RecAt(j)' = RecAt(j)
  <2>1. 3 * j \in 1..n /\ 3 * j - 1 \in 1..n /\ 3 * j - 2 \in 1..n /\ 3 * j \in 1..Len(file)
    BY <1>1
  <2> QED BY <1>1, <2>1 DEF RecAt
<1>3. Rows(k)
  BY <1>1, <1>2 DEF Rows
<1>4. \A j \in 1..k : RecAt(j)' = RecAt(j) /\ event'[RecAt(j)'] = event[RecAt(j)]
  BY <1>2, <1>3, RowsAre
<1>5. Recs(k)' = Recs(k)
  BY <1>4 DEF Recs
<1> QED BY <1>3, <1>4, <1>5 DEF After, Gain

LEMMA LastRow ==
  ASSUME Typed, NEW k \in Nat, Rows(k + 1)
  PROVE  /\ Rows(k) /\ BodyAt(k, RecAt(k + 1)) /\ RecAt(k + 1) \in DOMAIN event
         /\ After(k + 1) = Apply(After(k), OnReplay(event[RecAt(k + 1)]), acks)
<1>1. Rows(k)
  BY DEF Rows
<1>2. k + 1 \in 1..(k + 1) /\ k + 1 \in Nat /\ Len(file) \in Nat
  BY FileAt
<1>3. BodyAt(k, RecAt(k + 1)) /\ RecAt(k + 1) \in DOMAIN event
  <2>1. /\ 3 * (k + 1) <= Len(file)
        /\ file[3 * (k + 1) - 2] = Half(RecAt(k + 1), 1)
        /\ file[3 * (k + 1) - 1] = Half(RecAt(k + 1), 2)
    BY <1>2, RowsAre DEF Rows
  <2>2. 3 * (k + 1) - 2 = 3 * k + 1 /\ 3 * (k + 1) - 1 = 3 * k + 2 /\ 3 * (k + 1) = 3 * k + 3
    OBVIOUS
  <2> QED BY <1>2, <2>1, <2>2, RowsAre DEF BodyAt
<1>4. /\ Recs(k) \in Seq(Events) /\ Recs(k + 1) \in Seq(Events)
      /\ Len(Recs(k)) = k /\ Len(Recs(k + 1)) = k + 1
      /\ \A j \in 1..k : Recs(k + 1)[j] = Recs(k)[j]
      /\ Recs(k + 1)[k + 1] = OnReplay(event[RecAt(k + 1)])
  BY <1>1, <1>2, RowsAre
<1>5. Len(Recs(k + 1)) = Len(Recs(k)) + 1 /\ \A j \in 1..Len(Recs(k)) : Recs(k + 1)[j] = Recs(k)[j]
  BY <1>4
<1>6. After(k + 1) = Apply(After(k), Recs(k + 1)[Len(Recs(k + 1))], acks)
  BY <1>4, <1>5, FoldStep DEF After, Typed
<1> QED BY <1>1, <1>3, <1>4, <1>6
-----------------------------------------------------------------------------
(* The agent writes an ack only right after its own, unconfirmed pause.    *)
Confirmed ==
  /\ intent => acks /\ LatestOwner(eps) = "unknown"
  /\ pc \in {"line", "sync"} => This \notin acked /\ (event[This] = "ack" => intent)
  /\ \A r \in DOMAIN event : event[r] = "ack" => acks

(* What is on the disk ends with a line feed, and what a failed write left *)
(* behind does not.                                                        *)
Lined ==
  /\ synced # 0 => file[synced] = LF
  /\ pc = "dirty" => Len(file) >= 1 /\ file[Len(file)] # LF
  /\ pc = "flush" => Len(file) = 0 \/ file[Len(file)] = LF

(* Nothing is stacked on a pause that is ours, as far as the file tells.   *)
Unstacked ==
  \A k \in Nat : \A r \in DOMAIN event :
    /\ Rows(k) /\ Clean(k) /\ BodyAt(k, r)
    /\ event[r] \in {"pause", "adopt"}
    => ~Ours(After(k))

(* An agent that is up knows of every pause that the file says is ours.    *)
Remembers ==
  pc = "up" => \A k \in Nat :
                 Rows(k) /\ Clean(k) /\ 3 * k = Len(file) /\ Ours(After(k)) => Ours(eps)

(* So did whoever acted last, for any end the file may be cut at.          *)
Backed ==
  \A k \in Nat : Rows(k) /\ Clean(k) /\ 3 * k >= synced /\ Ours(After(k)) => Ours(settled)

(* What one more body makes of the stack.                                  *)
LEMMA BodyStep ==
  ASSUME Typed, Confirmed, Unstacked, NEW k \in Nat, NEW r \in DOMAIN event,
         Rows(k), Clean(k), BodyAt(k, r), Low(After(k))
  PROVE  LET w == Apply(After(k), OnReplay(event[r]), acks)
         IN  Low(w) /\ (Ours(w) => event[r] = Gain)
<1> DEFINE e == OnReplay(event[r])
           v == After(k)
           w == Apply(v, e, acks)
<1>1. v \in Vectors /\ acks \in BOOLEAN
  BY RowsAre DEF Typed
<1>2. e \in Events \ {"release"} /\ event[r] \in Written
  BY DEF Typed, OnReplay, Events, Written
<1>3. e \in {"pause", "adopt"} => event[r] = e
  BY <1>2 DEF OnReplay
<1>4. e \in {"pause", "adopt"} => LatestOwner(v) # "ours"
  BY <1>3 DEF Unstacked, Ours
<1>5. e = "ack" => acks
  BY <1>2 DEF OnReplay, Confirmed
<1>6. e \in {"ack", "pause"} => event[r] = e
  BY <1>2 DEF OnReplay
<1> HIDE DEF v, e
<1>7. Low(w) /\ (LatestOwner(w) = "ours" => e = IF acks THEN "ack" ELSE "pause")
  BY <1>1, <1>2, <1>4, <1>5, LowStep DEF v
<1> QED BY <1>6, <1>7 DEF Ours, Gain, v, e

LEMMA LowAtFirst ==
  ASSUME NEW old \in BOOLEAN, NEW acks0 \in BOOLEAN
  PROVE  Low(Fold(<<>>, old, acks0))
<1>1. <<>> \in Seq(Events) /\ Len(<<>>) = 0 /\ <<>> \in Vectors /\ <<>> \in Stacks
  BY DEF Vectors, Stacks
<1>2. PICK vec : IsRun(vec, <<>>, old, acks0)
  BY <1>1, FoldRuns
<1>3. Fold(<<>>, old, acks0) = IF old THEN <<Entry("ours")>> ELSE <<>>
  BY <1>1, <1>2 DEF IsRun
<1>4. OpenOwners(<<>>) = <<>>
  <2>1. OpenEntries(<<>>) = {}
    BY DEF OpenEntries
  <2>2. LatestOpen(<<>>) = 0
    BY <2>1 DEF LatestOpen
  <2> QED BY <1>1, <2>2, OwnersNone
<1>5. "ours" \in Stack!Owners
  BY DEF Stack!Owners
<1>6. <<Entry("ours")>> = Append(<<>>, Entry("ours"))
  OBVIOUS
<1>7. OpenOwners(<<Entry("ours")>>) = Append(<<>>, "ours")
  BY <1>1, <1>4, <1>5, <1>6, OwnersPush
<1>8. Stack!Close(Append(<<>>, "ours")) = <<>>
  BY <1>1, <1>5, StackTop
<1>9. Stack!Close(<<>>) = <<>>
  BY DEF Stack!Close
<1>10. NotOurs(<<>>)
  BY DEF NotOurs
<1> QED BY <1>3, <1>4, <1>7, <1>8, <1>9, <1>10 DEF Low

(* While every gain is acknowledged, ours is at most the top.              *)
LEMMA RowsLow ==
  ASSUME Typed, Confirmed, Unstacked, NEW k \in Nat, Rows(k), Clean(k)
  PROVE  Low(After(k))
<1> DEFINE T == {n \in 0..k : Low(After(n))}
<1>1. 0 \in T
  <2>1. Recs(0) = <<>>
    BY DEF Recs
  <2> QED BY <2>1, LowAtFirst DEF After, Typed
<1>2. ASSUME NEW n \in 1..k, n - 1 \in T PROVE n \in T
  <2>1. n - 1 \in Nat /\ (n - 1) + 1 = n
    OBVIOUS
  <2>2. Rows(n) /\ Clean(n - 1)
    BY DEF Rows, Clean
  <2>3. /\ Rows(n - 1) /\ BodyAt(n - 1, RecAt(n)) /\ RecAt(n) \in DOMAIN event
        /\ After(n) = Apply(After(n - 1), OnReplay(event[RecAt(n)]), acks)
    BY <2>1, <2>2, LastRow
  <2>4. Low(After(n))
    BY <1>2, <2>1, <2>2, <2>3, BodyStep
  <2> QED BY <2>4
<1>3. \A n \in 0..k : n \in T
  <2> HIDE DEF T
  <2> QED BY <1>1, <1>2, UpTo
<1> QED BY <1>3

(* A body that makes the pause ours, when it is counted, holds the event    *)
(* that does.                                                              *)
LEMMA BodyCounts ==
  ASSUME Typed, NEW k \in Nat, NEW r, Rows(k), BodyAt(k, r)
  PROVE  /\ RecAt(k + 1) = r /\ r \in DOMAIN event
         /\ After(k + 1) = Apply(After(k), OnReplay(event[r]), acks)
<1>1. RecAt(k + 1) = r /\ r \in DOMAIN event
  <2>1. 3 * (k + 1) - 2 = 3 * k + 1 /\ 3 * k + 1 \in 1..Len(file)
    BY FileAt DEF BodyAt
  <2>2. file[3 * k + 1] = Half(r, 1) /\ file[3 * k + 1] \in Pieces
    BY <2>1, FileAt DEF BodyAt
  <2> QED BY <2>1, <2>2, PieceIs DEF RecAt, Half
<1>2. /\ Recs(k) \in Seq(Events) /\ Len(Recs(k)) = k
      /\ \A j \in 1..k : RecAt(j) \in DOMAIN event
  BY RowsAre
<1>3. \A x \in DOMAIN event : OnReplay(event[x]) \in Events
  BY DEF Typed, OnReplay, Events, Written
<1>4. \A j \in 1..(k + 1) : RecAt(j) \in DOMAIN event
  BY <1>1, <1>2
<1>5. Recs(k + 1) \in Seq(Events) /\ Len(Recs(k + 1)) = k + 1
      /\ \A j \in 1..(k + 1) : Recs(k + 1)[j] = OnReplay(event[RecAt(j)])
  BY <1>3, <1>4 DEF Recs
<1>6. \A j \in 1..k : Recs(k + 1)[j] = Recs(k)[j]
  BY <1>5 DEF Recs
<1>7. Len(Recs(k + 1)) = Len(Recs(k)) + 1 /\ \A j \in 1..Len(Recs(k)) : Recs(k + 1)[j] = Recs(k)[j]
  BY <1>2, <1>5, <1>6
<1>8. After(k + 1) = Apply(After(k), Recs(k + 1)[Len(Recs(k + 1))], acks)
  BY <1>2, <1>5, <1>7, FoldStep DEF After, Typed
<1>9. k + 1 \in 1..(k + 1)
  OBVIOUS
<1> QED BY <1>1, <1>5, <1>8, <1>9

LEMMA BodyGains ==
  ASSUME Typed, Confirmed, Unstacked, NEW k \in Nat, NEW r, Rows(k), Clean(k), BodyAt(k, r),
         Ours(After(k + 1))
  PROVE  event[r] = Gain
<1>1. r \in DOMAIN event /\ After(k + 1) = Apply(After(k), OnReplay(event[r]), acks)
  BY BodyCounts
<1>2. Low(After(k))
  BY RowsLow
<1> QED BY <1>1, <1>2, BodyStep
-----------------------------------------------------------------------------
(* The event that makes a pause ours does, when the agent has written it.   *)
LEMMA PauseOwner ==
  ASSUME NEW v \in Vectors, NEW acks0 \in BOOLEAN
  PROVE  LatestOwner(Apply(v, "pause", acks0)) = IF acks0 THEN "unknown" ELSE "ours"
<1> DEFINE s == OpenOwners(v)
           o == IF acks0 THEN "unknown" ELSE "ours"
           w == Apply(v, "pause", acks0)
<1>1. s \in Stacks /\ o \in Stack!Owners
  BY LatestIsTop DEF Stack!Owners
<1>2. "pause" \in Events
  BY DEF Events, Written
<1>3. w \in Vectors /\ OpenOwners(w) = Append(s, o)
  <2>1. OpenOwners(w) = StackStep(s, "pause", acks0)
    BY <1>2, EpisodesAreAStack
  <2> QED BY <1>2, <2>1, ApplyTyped DEF StackStep, Stack!Intend, Stack!Push
<1> HIDE DEF s, w, o
<1>4. Stack!Top(Append(s, o)) = o
  BY <1>1, StackTop
<1>5. LatestOwner(w) = o
  BY <1>3, <1>4, LatestIsTop
<1> QED BY <1>5 DEF w, o

LEMMA AckOwner ==
  ASSUME NEW v \in Vectors, NEW acks0 \in BOOLEAN, LatestOwner(v) = "unknown"
  PROVE  LatestOwner(Apply(v, "ack", acks0)) = "ours"
<1> DEFINE s == OpenOwners(v)
           w == Apply(v, "ack", acks0)
<1>1. s \in Stacks /\ Stack!Top(s) = "unknown" /\ "ours" \in Stack!Owners
  BY LatestIsTop DEF Stack!Owners
<1>2. "ack" \in Events
  BY DEF Events, Written
<1>3. w \in Vectors /\ OpenOwners(w) = Append(Stack!Close(s), "ours")
  <2>1. OpenOwners(w) = StackStep(s, "ack", acks0)
    BY <1>2, EpisodesAreAStack
  <2> QED BY <1>1, <1>2, <2>1, ApplyTyped
          DEF StackStep, Stack!Acknowledge, Stack!Settle, Stack!Push
<1> HIDE DEF s, w
<1>4. Stack!Close(s) \in Stacks
  <2>1. s # <<>>
    BY <1>1 DEF Stack!Top
  <2> QED BY <1>1, <2>1, CloseIs
<1>5. Stack!Top(Append(Stack!Close(s), "ours")) = "ours"
  BY <1>1, <1>4, StackTop
<1>6. LatestOwner(w) = "ours"
  BY <1>3, <1>5, LatestIsTop
<1> QED BY <1>6 DEF w

LEMMA ConfirmedNext ==
  ASSUME Typed, AtEnd, Confirmed, [Next]_vars
  PROVE  Confirmed'
<1>1. CASE UNCHANGED vars
  BY <1>1 DEF vars, Confirmed, This
<1>2. CASE \/ TakeLock \/ RepairRefuses \/ TailClean \/ AddNewline \/ SaveAside \/ Cut \/ Flush
           \/ ReplayRefuses \/ LineFeed \/ LineFeedFails \/ SyncFails \/ Dies
  <2>1. /\ UNCHANGED <<eps, event, acked, acks, intent>>
        /\ pc' \in {"line", "sync"} => pc = "line"
    BY <1>2 DEF TakeLock, RepairRefuses, TailClean, AddNewline, SaveAside, Cut, Flush,
                ReplayRefuses, LineFeed, LineFeedFails, SyncFails, Dies, Goto, Agent
  <2> QED BY <2>1 DEF Confirmed, This
<1>3. CASE Replay
  BY <1>3 DEF Replay, Goto, Confirmed
<1>4. ASSUME NEW e \in Written, WriteBody(e) \/ WriteFails(e) PROVE Confirmed'
  <2>1. /\ event' = Append(event, e) /\ May(e)
        /\ UNCHANGED <<eps, acked, acks, intent>>
    BY <1>4 DEF WriteBody, WriteFails
  <2>2. e = "ack" => intent
    BY <2>1 DEF May
  <2>3. /\ Len(event) \in Nat /\ This' = Len(event) + 1 /\ DOMAIN event' = 1..(Len(event) + 1)
        /\ DOMAIN event = 1..Len(event)
        /\ \A r \in 1..(Len(event) + 1) :
             event'[r] = IF r = Len(event) + 1 THEN e ELSE event[r]
    BY <2>1 DEF Typed, This
  <2>4. This' \notin acked' /\ event'[This'] = e
    BY <2>1, <2>3 DEF Typed
  <2>5. \A r \in DOMAIN event' : event'[r] = "ack" => acks'
    <3> SUFFICES ASSUME NEW r \in DOMAIN event', event'[r] = "ack" PROVE acks
      BY <2>1
    <3>1. CASE r = Len(event) + 1
      BY <2>2, <2>3, <3>1 DEF Confirmed
    <3>2. CASE r # Len(event) + 1
      <4>1. r \in DOMAIN event /\ event[r] = "ack"
        BY <2>3, <3>2
      <4> QED BY <4>1 DEF Confirmed
    <3> QED BY <3>1, <3>2
  <2> QED BY <2>1, <2>2, <2>4, <2>5 DEF Confirmed
<1>5. CASE Sync
  <2>1. /\ pc' = "up" /\ eps' = Apply(eps, event[This], acks)
        /\ intent' = (event[This] = "pause" /\ acks)
        /\ UNCHANGED <<event, acks>>
    BY <1>5 DEF Sync, Goto
  <2>2. intent' => acks' /\ LatestOwner(eps') = "unknown"
    <3> SUFFICES ASSUME event[This] = "pause", acks PROVE LatestOwner(eps') = "unknown"
      BY <2>1
    <3> QED BY <2>1, PauseOwner DEF Typed
  <2> QED BY <2>1, <2>2 DEF Confirmed
<1> QED BY <1>1, <1>2, <1>3, <1>4, <1>5 DEF Next

LEMMA LinedKept ==
  ASSUME Typed, Lined, NEW n, Keeps(n), synced <= n, synced' = synced
  PROVE  synced' # 0 => file'[synced'] = LF
  BY FileAt DEF Typed, Lined, Keeps

LEMMA LinedNext ==
  ASSUME Typed, AtEnd, Lined, [Next]_vars
  PROVE  Lined'
<1>0. Len(file) \in Nat /\ synced \in 0..Len(file)
  BY FileAt DEF Typed
<1>1. CASE UNCHANGED vars
  BY <1>1 DEF vars, fileVars, Lined
<1>2. CASE \/ TakeLock \/ RepairRefuses \/ TailClean \/ SaveAside \/ ReplayRefuses
           \/ Replay \/ SyncFails
  BY <1>2 DEF TakeLock, RepairRefuses, TailClean, SaveAside, ReplayRefuses, Replay, SyncFails,
              Goto, fileVars, Lined
<1>3. CASE AddNewline \/ LineFeed
  <2>1. file' = Append(file, LF) /\ event' = event /\ synced' = synced /\ pc' # "dirty"
    BY <1>3 DEF AddNewline, LineFeed, Goto, Agent
  <2>2. Len(file') = Len(file) + 1 /\ file'[Len(file) + 1] = LF /\ Keeps(Len(file))
    BY <2>1, AddsLF
  <2>3. synced' # 0 => file'[synced'] = LF
    BY <1>0, <2>1, <2>2, LinedKept
  <2> QED BY <2>1, <2>2, <2>3 DEF Lined
<1>4. CASE Cut
  <2>1. /\ file' = Prefix(TailStart) /\ event' = event /\ pc' = "flush"
        /\ synced' = IF synced < TailStart THEN synced ELSE TailStart
    BY <1>4 DEF Cut, Goto, Agent
  <2>2. TailStart \in 0..Len(file) /\ (TailStart # 0 => file[TailStart] = LF)
    BY TailStartIs DEF Ends
  <2>3. Len(file') = TailStart /\ Keeps(TailStart)
    BY <2>1, <2>2, CutsTo
  <2>4. TailStart # 0 => file'[TailStart] = LF
    BY <2>2, <2>3 DEF Keeps
  <2>5. synced' # 0 => file'[synced'] = LF
    <3>1. CASE synced < TailStart
      <4>1. synced' = synced
        BY <2>1, <3>1
      <4> QED BY <1>0, <2>2, <2>3, <3>1, <4>1, LinedKept
    <3>2. CASE ~(synced < TailStart)
      BY <2>1, <2>4, <3>2
    <3> QED BY <3>1, <3>2
  <2> QED BY <2>1, <2>3, <2>4, <2>5 DEF Lined
<1>5. CASE Flush
  BY <1>0, <1>5 DEF Flush, Goto, Lined
<1>6. ASSUME NEW e \in Written, WriteBody(e) PROVE Lined'
  <2>1. event' = Append(event, e) /\ file' = file \o Body(This') /\ pc' = "line" /\ synced' = synced
    BY <1>6 DEF WriteBody
  <2>2. Keeps(Len(file))
    BY <2>1, AddsBody
  <2> QED BY <1>0, <2>1, <2>2, LinedKept DEF Lined
<1>7. ASSUME NEW e \in Written, WriteFails(e) PROVE Lined'
  <2>1. event' = Append(event, e) /\ pc \in {"up", "dirty"} /\ synced' = synced
    BY <1>7 DEF WriteFails
  <2>2. CASE UNCHANGED <<file, pc, spoilt>>
    BY <2>1, <2>2 DEF Lined
  <2>3. CASE file' = Append(file, Half(This', 1)) /\ pc' = "dirty"
    <3>1. /\ Keeps(Len(file)) /\ Len(file') = Len(file) + 1
          /\ file'[Len(file) + 1] = Half(This', 1)
      BY <2>1, <2>3, AddsHalf
    <3>2. Half(This', 1) # LF
      BY DEF Half, LF
    <3>3. synced' # 0 => file'[synced'] = LF
      BY <1>0, <2>1, <3>1, LinedKept
    <3>4. Len(file') >= 1 /\ file'[Len(file')] # LF
      BY <1>0, <3>1, <3>2
    <3> QED BY <2>3, <3>3, <3>4 DEF Lined
  <2> QED BY <1>7, <2>2, <2>3 DEF WriteFails
<1>8. CASE LineFeedFails
  <2>1. pc = "line" /\ pc' = "dirty" /\ file' = file /\ synced' = synced
    BY <1>8 DEF LineFeedFails, Goto, fileVars
  <2>2. Len(file) >= 1 /\ file[Len(file)] # LF
    BY <1>0, <2>1 DEF AtEnd, Half, LF
  <2> QED BY <2>1, <2>2 DEF Lined
<1>9. CASE Sync
  <2>1. pc = "sync" /\ pc' = "up" /\ file' = file /\ synced' = Len(file)
    BY <1>9 DEF Sync, Goto
  <2> QED BY <2>1 DEF Lined, AtEnd
<1>10. CASE Dies
  <2>1. event' = event /\ pc' = "down" /\ synced' = synced
    BY <1>10 DEF Dies
  <2>2. PICK n \in synced..Len(file) : file' = Prefix(n)
    BY <1>10 DEF Dies
  <2>3. n \in 0..Len(file) /\ synced <= n
    BY <1>0
  <2>4. Keeps(n)
    BY <2>1, <2>2, <2>3, CutsTo
  <2> QED BY <2>1, <2>3, <2>4, LinedKept DEF Lined
<1> QED BY <1>1, <1>2, <1>3, <1>4, <1>5, <1>6, <1>7, <1>8, <1>9, <1>10 DEF Next
-----------------------------------------------------------------------------
(* What a step leaves of the rows, when it adds no whole row of its own.    *)
LEMMA UnstackedStays ==
  ASSUME Typed, Unstacked, NEW n, Keeps(n),
         \A r \in DOMAIN event : event'[r] = event[r],
         acked' = acked, legacy' = legacy, acks' = acks,
         \A k \in Nat : \A r \in DOMAIN event' :
           Rows(k)' /\ Clean(k)' /\ BodyAt(k, r)' /\ event'[r] \in {"pause", "adopt"}
           /\ Ours(After(k)') => 3 * k + 2 <= n
  PROVE  Unstacked'
<1>0. n \in 0..Len(file) /\ n <= Len(file') /\ \A i \in 1..n : file'[i] = file[i]
  BY DEF Keeps
<1>1. SUFFICES ASSUME NEW k \in Nat, NEW r \in DOMAIN event',
                      Rows(k)', Clean(k)', BodyAt(k, r)', event'[r] \in {"pause", "adopt"},
                      Ours(After(k)')
               PROVE  FALSE
  BY DEF Unstacked, Ours
<1>2. 3 * k + 2 <= n /\ 3 * k <= n
  BY <1>0, <1>1, FileAt
<1>3. /\ Rows(k) /\ After(k)' = After(k) /\ Gain' = Gain
      /\ \A j \in 1..k : RecAt(j)' = RecAt(j) /\ event'[RecAt(j)'] = event[RecAt(j)]
  BY <1>1, <1>2, SameRows
<1>4. Clean(k)
  BY <1>1, <1>3 DEF Clean
<1>5. BodyAt(k, r)
  <2>1. 3 * k + 1 \in 1..n /\ 3 * k + 2 \in 1..n /\ 3 * k + 2 <= Len(file)
    BY <1>0, <1>2, FileAt
  <2> QED BY <1>0, <1>1, <2>1 DEF BodyAt
<1>6. r \in DOMAIN event
  BY <1>3, <1>5, BodyCounts
<1> QED BY <1>1, <1>3, <1>4, <1>5, <1>6 DEF Unstacked

LEMMA BackedStays ==
  ASSUME Typed, Backed, NEW n, Keeps(n),
         \A r \in DOMAIN event : event'[r] = event[r],
         acked' = acked, legacy' = legacy, acks' = acks, settled' = settled,
         synced' \in Nat, synced' >= synced,
         \A k \in Nat : Rows(k)' /\ Clean(k)' /\ Ours(After(k)') => 3 * k <= n
  PROVE  Backed'
<1>1. SUFFICES ASSUME NEW k \in Nat, Rows(k)', Clean(k)', 3 * k >= synced', Ours(After(k)')
               PROVE  Ours(settled)
  BY DEF Backed, Ours
<1>2. 3 * k <= n
  BY <1>1
<1>3. /\ Rows(k) /\ After(k)' = After(k) /\ Gain' = Gain
      /\ \A j \in 1..k : RecAt(j)' = RecAt(j) /\ event'[RecAt(j)'] = event[RecAt(j)]
  BY <1>1, <1>2, SameRows
<1>4. Clean(k)
  BY <1>1, <1>3 DEF Clean
<1>5. 3 * k >= synced
  BY <1>1 DEF Typed
<1> QED BY <1>1, <1>3, <1>4, <1>5 DEF Backed

(* A record that the agent has not flushed is not acknowledged.            *)
LEMMA LastBodyUnacked ==
  ASSUME Typed, Growing, Kept, NEW k \in Nat, NEW r, BodyAt(k, r), synced < 3 * k + 3
  PROVE  r \notin acked
<1> SUFFICES ASSUME r \in acked PROVE FALSE
  OBVIOUS
<1>1. Len(file) \in Nat /\ synced \in Nat /\ 3 * k + 2 <= Len(file) /\ file[3 * k + 1] = Half(r, 1)
  BY FileAt DEF BodyAt, Typed
<1>2. PICK i \in 1..Len(file) : i + 2 <= synced /\ file[i] = Half(r, 1)
  BY DEF Kept
<1>3. 3 * k + 1 \in 1..Len(file) /\ i < 3 * k + 1
  BY <1>1, <1>2
<1>4. file[i].half = 1 /\ file[3 * k + 1].half = 1 /\ file[i].rec = r /\ file[3 * k + 1].rec = r
  BY <1>1, <1>2 DEF Half
<1>5. r < r
  BY <1>3, <1>4 DEF Growing
<1>6. r \in Nat
  BY DEF Typed
<1> QED BY <1>5, <1>6

(* The last line while the agent is syncing it.                             *)
LEMMA SyncedRow ==
  ASSUME Typed, AtEnd, Growing, pc = "sync", NEW k \in Nat, Rows(k), 3 * k = Len(file)
  PROVE  /\ k - 1 \in Nat /\ (k - 1) + 1 = k /\ RecAt(k) = This
         /\ Rows(k - 1) /\ BodyAt(k - 1, This)
         /\ \A j \in 1..(k - 1) : RecAt(j) < This
<1>1. /\ Len(file) \in Nat /\ Len(file) >= 3
      /\ file[Len(file) - 2] = Half(This, 1) /\ file[Len(file) - 1] = Half(This, 2)
  BY FileAt DEF AtEnd
<1>2. k >= 1 /\ k - 1 \in Nat /\ 3 * k - 2 = Len(file) - 2 /\ 3 * (k - 1) + 1 = Len(file) - 2
      /\ 3 * (k - 1) + 2 = Len(file) - 1
  BY <1>1
<1>3. RecAt(k) = This /\ BodyAt(k - 1, This)
  BY <1>1, <1>2 DEF RecAt, BodyAt, Half
<1>4. Rows(k - 1)
  BY <1>2 DEF Rows
<1>5. ASSUME NEW j \in 1..(k - 1) PROVE RecAt(j) < This
  <2>1. /\ 3 * j - 2 \in 1..Len(file) /\ 3 * k - 2 \in 1..Len(file) /\ 3 * j - 2 < 3 * k - 2
    BY <1>1, <1>2
  <2>2. file[3 * j - 2] = Half(RecAt(j), 1) /\ file[3 * k - 2] = Half(This, 1)
    BY <1>1, <1>2, <1>4 DEF Rows
  <2> QED BY <2>1, <2>2 DEF Growing, Half
<1> QED BY <1>2, <1>3, <1>4, <1>5

(* An acknowledged line that makes the pause ours made it ours for the     *)
(* agent that wrote it.                                                    *)
LEMMA SyncGains ==
  ASSUME Typed, AtEnd, Growing, Confirmed, Unstacked, Sync,
         NEW k \in Nat, Rows(k), Clean(k)', 3 * k = Len(file), Ours(After(k))
  PROVE  Ours(eps')
<1>1. /\ pc = "sync" /\ acked' = acked \cup {This} /\ eps' = Apply(eps, event[This], acks)
      /\ UNCHANGED <<file, event, legacy, acks>>
  BY DEF Sync, Goto
<1>2. /\ k - 1 \in Nat /\ (k - 1) + 1 = k
      /\ Rows(k - 1) /\ BodyAt(k - 1, This)
      /\ \A j \in 1..(k - 1) : RecAt(j) < This
  BY <1>1, SyncedRow
<1>3. Clean(k - 1)
  <2> SUFFICES ASSUME NEW j \in 1..(k - 1), event[RecAt(j)] = Gain PROVE RecAt(j) \in acked
    BY DEF Clean
  <2>1. RecAt(j)' = RecAt(j) /\ Gain' = Gain /\ j \in 1..k
    BY <1>1, <1>2 DEF RecAt, Gain
  <2>2. RecAt(j) \in acked'
    BY <1>1, <2>1 DEF Clean
  <2>3. RecAt(j) # This
    <3>1. RecAt(j) < This /\ This \in Nat
      BY <1>2 DEF Typed, This
    <3> QED BY <3>1
  <2> QED BY <1>1, <2>2, <2>3
<1>4. event[This] = Gain
  BY <1>2, <1>3, BodyGains
<1>5. CASE acks
  <2>1. event[This] = "ack" /\ LatestOwner(eps) = "unknown"
    BY <1>1, <1>4, <1>5 DEF Gain, Confirmed
  <2> QED BY <1>1, <2>1, AckOwner DEF Ours, Typed
<1>6. CASE ~acks
  <2>1. event[This] = "pause"
    BY <1>4, <1>6 DEF Gain
  <2> QED BY <1>1, <1>6, <2>1, PauseOwner DEF Ours, Typed
<1> QED BY <1>5, <1>6

Ordered == Typed /\ AtEnd /\ Growing /\ Kept /\ Confirmed /\ Lined
Owned == Unstacked /\ Remembers /\ Backed

(* What a step of each kind keeps of the file, and what a whole row or a    *)
(* body in the new file can then be.                                       *)
LEMMA AfterLF ==
  ASSUME Typed, file' = Append(file, LF), event' = event
  PROVE  \A k \in Nat : \A r \in DOMAIN event' : BodyAt(k, r)' => 3 * k + 2 <= Len(file)
<1>1. Len(file') = Len(file) + 1 /\ file'[Len(file) + 1] = LF /\ Len(file) \in Nat
  BY AddsLF, FileAt
<1> SUFFICES ASSUME NEW k \in Nat, NEW r \in DOMAIN event', BodyAt(k, r)'
             PROVE  3 * k + 2 <= Len(file)
  OBVIOUS
<1>2. 3 * k + 2 <= Len(file) + 1 /\ file'[3 * k + 2] # LF
  BY <1>1 DEF BodyAt, Half, LF
<1> QED BY <1>1, <1>2

LEMMA RowsEnd ==
  ASSUME NEW n \in Nat, Len(file') \in Nat, \A i \in (n + 1)..Len(file') : file'[i].half # 0
  PROVE  \A k \in Nat : Rows(k)' => 3 * k <= n
<1> SUFFICES ASSUME NEW k \in Nat, Rows(k)' PROVE 3 * k <= n
  OBVIOUS
<1>1. CASE k = 0
  BY <1>1
<1>2. CASE k # 0
  <2>1. k \in 1..k
    BY <1>2
  <2>2. 3 * k \in 1..Len(file') /\ file'[3 * k] = LF
    BY <2>1 DEF Rows
  <2>3. LF.half = 0
    BY DEF LF
  <2> QED BY <2>2, <2>3
<1> QED BY <1>1, <1>2

LEMMA BodiesEnd ==
  ASSUME NEW n \in Nat, Len(file') \in Nat, Len(file') <= n + 2, file'[n + 1].half # 2
  PROVE  \A k \in Nat : \A r : BodyAt(k, r)' =>
           \/ 3 * k + 2 <= n
           \/ 3 * k = n /\ Len(file') = n + 2 /\ file'[n + 1].rec = r
<1> SUFFICES ASSUME NEW k \in Nat, NEW r, BodyAt(k, r)', ~(3 * k + 2 <= n)
             PROVE  3 * k = n /\ Len(file') = n + 2 /\ file'[n + 1].rec = r
  OBVIOUS
<1>1. /\ 3 * k + 2 <= Len(file') /\ file'[3 * k + 2].half = 2
      /\ file'[3 * k + 1].rec = r
  BY DEF BodyAt, Half
<1>2. 3 * k + 2 # n + 1
  BY <1>1
<1>3. 3 * k = n /\ Len(file') = n + 2
  BY <1>1, <1>2
<1> QED BY <1>1, <1>3

LEMMA AfterHalf ==
  ASSUME Typed, NEW e \in Written, event' = Append(event, e), file' = Append(file, Half(This', 1))
  PROVE  /\ \A k \in Nat : \A r \in DOMAIN event' : BodyAt(k, r)' => 3 * k + 2 <= Len(file)
         /\ \A k \in Nat : Rows(k)' => 3 * k <= Len(file)
<1> DEFINE n == Len(file)
<1>1. /\ Len(file') = n + 1 /\ n \in Nat
      /\ file'[n + 1].half = 1
  BY AddsHalf, FileAt DEF Half
<1> HIDE DEF n
<1>2. \A k \in Nat : Rows(k)' => 3 * k <= n
  BY <1>1, RowsEnd
<1>3. \A k \in Nat : \A r : BodyAt(k, r)' => 3 * k + 2 <= n
  BY <1>1, BodiesEnd
<1> QED BY <1>2, <1>3 DEF n

LEMMA AfterBody ==
  ASSUME Typed, NEW e \in Written, event' = Append(event, e), file' = file \o Body(This')
  PROVE  /\ \A k \in Nat : \A r \in DOMAIN event' :
              BodyAt(k, r)' => 3 * k + 2 <= Len(file) \/ (3 * k = Len(file) /\ r = This')
         /\ \A k \in Nat : Rows(k)' => 3 * k <= Len(file)
<1> DEFINE n == Len(file)
           t == This'
           m == Len(file')
<1>1. /\ m = n + 2 /\ n \in Nat
      /\ file'[n + 1].half = 1 /\ file'[n + 1].rec = t /\ file'[n + 2].half = 2
  BY AddsBody, FileAt DEF Half
<1> HIDE DEF n, t, m
<1>2. m \in Nat /\ m <= n + 2
  BY <1>1
<1>3. \A i \in (n + 1)..m : file'[i].half # 0
  <2>1. \A i \in (n + 1)..m : i = n + 1 \/ i = n + 2
    BY <1>1
  <2>2. file'[n + 1].half # 0 /\ file'[n + 2].half # 0
    BY <1>1
  <2> QED BY <2>1, <2>2, Zenon
<1>4. file'[n + 1].half # 2
  BY <1>1
<1>5. \A k \in Nat : Rows(k)' => 3 * k <= n
  BY <1>1, <1>2, <1>3, RowsEnd DEF m
<1>6. \A k \in Nat : \A r : BodyAt(k, r)' =>
           \/ 3 * k + 2 <= n
           \/ 3 * k = n /\ m = n + 2 /\ file'[n + 1].rec = r
  BY <1>1, <1>2, <1>4, BodiesEnd DEF m
<1>7. \A k \in Nat : \A r : BodyAt(k, r)' => 3 * k + 2 <= n \/ (3 * k = n /\ r = t)
  BY <1>1, <1>6
<1> QED BY <1>5, <1>7 DEF n, t

LEMMA UnstackedNext ==
  ASSUME Ordered, Owned, [Next]_vars
  PROVE  Unstacked'
<1> USE DEF Ordered, Owned
<1>0. Len(file) \in Nat /\ synced \in 0..Len(file)
  BY FileAt DEF Typed
<1>1. ASSUME file' = file, event' = event, acked' = acked, legacy' = legacy, acks' = acks
      PROVE  Unstacked'
  <2>1. Keeps(Len(file))
    BY <1>1, FileStays
  <2>2. \A k \in Nat : \A r \in DOMAIN event' : BodyAt(k, r)' => 3 * k + 2 <= Len(file)
    BY <1>1 DEF BodyAt
  <2> QED BY <1>1, <2>1, <2>2, UnstackedStays
<1>2. CASE \/ UNCHANGED vars \/ TakeLock \/ RepairRefuses \/ TailClean \/ SaveAside \/ ReplayRefuses
           \/ LineFeedFails \/ SyncFails \/ Flush \/ Replay
  BY <1>1, <1>2
     DEF vars, TakeLock, RepairRefuses, TailClean, SaveAside, ReplayRefuses, LineFeedFails,
         SyncFails, Flush, Replay, fileVars, Agent
<1>3. CASE AddNewline \/ LineFeed
  <2>1. file' = Append(file, LF) /\ UNCHANGED <<event, acked, legacy, acks>>
    BY <1>3 DEF AddNewline, LineFeed, Agent
  <2> QED BY <2>1, AddsLF, AfterLF, UnstackedStays
<1>4. ASSUME NEW n \in 0..Len(file), file' = Prefix(n), UNCHANGED <<event, acked, legacy, acks>>
      PROVE  Unstacked'
  <2>1. Len(file') = n /\ Keeps(n)
    BY <1>4, CutsTo
  <2>2. \A k \in Nat : \A r \in DOMAIN event' : BodyAt(k, r)' => 3 * k + 2 <= n
    BY <2>1 DEF BodyAt
  <2> QED BY <1>4, <2>1, <2>2, UnstackedStays
<1>5. CASE Cut
  BY <1>4, <1>5, TailStartIs DEF Cut, Agent
<1>6. CASE Dies
  BY <1>0, <1>4, <1>6 DEF Dies
<1>7. ASSUME NEW e \in Written, WriteBody(e) PROVE Unstacked'
  <2>1. /\ event' = Append(event, e) /\ file' = file \o Body(This')
        /\ May(e) /\ pc \in {"up", "dirty"}
        /\ UNCHANGED <<acked, legacy, acks>>
    BY <1>7 DEF WriteBody
  <2>2. /\ Keeps(Len(file)) /\ This' = This + 1
        /\ \A r \in DOMAIN event : event'[r] = event[r]
        /\ event'[This'] = e
    BY <2>1, AddsBody DEF Typed, This
  <2>3. ASSUME NEW k \in Nat, NEW r \in DOMAIN event', Rows(k)', Clean(k)', BodyAt(k, r)',
               event'[r] \in {"pause", "adopt"}, Ours(After(k)')
        PROVE  3 * k + 2 <= Len(file)
    <3> SUFFICES ASSUME 3 * k = Len(file), r = This' PROVE FALSE
      BY <2>1, <2>3, AfterBody
    <3>1. /\ Rows(k) /\ After(k)' = After(k) /\ Gain' = Gain
          /\ \A j \in 1..k : RecAt(j)' = RecAt(j) /\ event'[RecAt(j)'] = event[RecAt(j)]
      <4>1. 3 * k <= Len(file)
        BY <1>0
      <4> QED BY <2>1, <2>2, <2>3, <4>1, SameRows
    <3>2. Clean(k)
      BY <2>1, <2>3, <3>1 DEF Clean
    <3>3. pc = "up"
      <4>1. ASSUME pc = "dirty" PROVE FALSE
        <5>1. Len(file) >= 1 /\ file[Len(file)] # LF
          BY <4>1 DEF Lined
        <5>2. k \in 1..k
          BY <5>1
        <5> QED BY <3>1, <5>1, <5>2 DEF Rows
      <4> QED BY <2>1, <4>1
    <3>4. Ours(eps)
      BY <2>3, <3>1, <3>2, <3>3 DEF Remembers
    <3>5. e \in {"pause", "adopt"} /\ May(e)
      BY <2>1, <2>2, <2>3
    <3> QED BY <3>4, <3>5 DEF May, Ours
  <2> QED BY <2>1, <2>2, <2>3, UnstackedStays
<1>8. ASSUME NEW e \in Written, WriteFails(e) PROVE Unstacked'
  <2>1. /\ event' = Append(event, e) /\ UNCHANGED <<acked, legacy, acks>>
        /\ file' = file \/ file' = Append(file, Half(This', 1))
    BY <1>8 DEF WriteFails
  <2>2. \A r \in DOMAIN event : event'[r] = event[r]
    BY <2>1 DEF Typed
  <2>3. CASE file' = file
    <3>1. /\ Keeps(Len(file))
          /\ \A k \in Nat : \A r \in DOMAIN event' : BodyAt(k, r)' => 3 * k + 2 <= Len(file)
      BY <1>0, <2>3 DEF Keeps, BodyAt
    <3> QED BY <2>1, <2>2, <3>1, UnstackedStays
  <2>4. CASE file' = Append(file, Half(This', 1))
    BY <2>1, <2>2, <2>4, AddsHalf, AfterHalf, UnstackedStays
  <2> QED BY <2>1, <2>3, <2>4
<1>9. CASE Sync
  <2>1. acked' = acked \cup {This} /\ UNCHANGED <<file, event, legacy, acks>>
    BY <1>9 DEF Sync
  <2>2. ASSUME NEW k \in Nat, NEW r \in DOMAIN event, Rows(k), Clean(k)', BodyAt(k, r)
        PROVE  Clean(k)
    <3> SUFFICES ASSUME NEW j \in 1..k, event[RecAt(j)] = Gain PROVE RecAt(j) \in acked
      BY DEF Clean
    <3>1. RecAt(j)' = RecAt(j) /\ Gain' = Gain
      BY <2>1 DEF RecAt, Gain
    <3>2. RecAt(j) \in acked'
      BY <2>1, <2>2, <3>1 DEF Clean
    <3>3. /\ 3 * j - 2 \in 1..Len(file) /\ 3 * k + 1 \in 1..Len(file) /\ 3 * j - 2 < 3 * k + 1
          /\ file[3 * j - 2] = Half(RecAt(j), 1) /\ file[3 * k + 1] = Half(r, 1)
      BY <1>0, <2>2 DEF Rows, BodyAt
    <3>4. RecAt(j) < r
      BY <3>3 DEF Growing, Half
    <3>5. RecAt(j) \in DOMAIN event
      BY <2>2, RowsAre
    <3>6. RecAt(j) # This
      BY <3>4, <3>5 DEF Typed, This
    <3> QED BY <2>1, <3>2, <3>6
  <2>3. ASSUME NEW k \in Nat, NEW r \in DOMAIN event
        PROVE  (Rows(k)' <=> Rows(k)) /\ (BodyAt(k, r)' <=> BodyAt(k, r)) /\ After(k)' = After(k)
    BY <2>1 DEF Rows, BodyAt, After, Recs, RecAt
  <2> SUFFICES ASSUME NEW k \in Nat, NEW r \in DOMAIN event', Rows(k)', Clean(k)', BodyAt(k, r)',
                      event'[r] \in {"pause", "adopt"}
               PROVE  ~Ours(After(k)')
    BY DEF Unstacked, Ours
  <2>4. r \in DOMAIN event /\ event[r] \in {"pause", "adopt"}
    BY <2>1
  <2>5. Rows(k) /\ BodyAt(k, r) /\ Clean(k) /\ After(k)' = After(k)
    BY <2>2, <2>3, <2>4
  <2> QED BY <2>4, <2>5 DEF Unstacked
<1> QED BY <1>2, <1>3, <1>5, <1>6, <1>7, <1>8, <1>9 DEF Next

(* A replay that does not refuse recovers the file's whole lines.           *)
LEMMA RecoveredAfter ==
  ASSUME Typed, ~Corrupt, NEW k, k = TailStart \div 3
  PROVE  /\ k \in Nat /\ 3 * k = TailStart /\ Rows(k) /\ RecoveredEps = After(k)
         /\ DOMAIN Recovered = 1..k /\ \A j \in 1..k : Recovered[j] = RecAt(j)
<1>1. /\ k \in Nat /\ Recovered \in Seq(DOMAIN event) /\ Len(Recovered) = k
      /\ \A j \in 1..k : /\ 3 * j \in 1..Len(file) /\ file[3 * j] = LF
                         /\ file[3 * j - 2] = Half(Recovered[j], 1)
                         /\ file[3 * j - 1] = Half(Recovered[j], 2)
  BY RecoveredIs
<1>2. 3 * k = TailStart
  <2>1. TailStart \in Nat /\ (TailStart # 0 => TailStart % 3 = 0)
    BY FileAt, LinesOfThree, TailStartIs
  <2> QED BY <2>1
<1>3. DOMAIN Recovered = 1..k
  BY <1>1
<1>4. \A j \in 1..k : Recovered[j] = RecAt(j)
  BY <1>1 DEF Recovered, RecAt
<1>5. Rows(k)
  BY <1>1, <1>4 DEF Rows
<1>6. RecoveredEps = After(k)
  <2>1. [j \in DOMAIN Recovered |-> OnReplay(event[Recovered[j]])] = Recs(k)
    BY <1>3, <1>4 DEF Recs
  <2> QED BY <2>1 DEF RecoveredEps, After
<1> QED BY <1>1, <1>2, <1>3, <1>4, <1>5, <1>6

(* When the whole file is lines, the replay's end is the file's.            *)
LEMMA ReplayOfAll ==
  ASSUME Typed, ~Corrupt, NEW k \in Nat, Rows(k), 3 * k = Len(file)
  PROVE  RecoveredEps = After(k)
<1>1. 3 * k = TailStart
  <2>1. TailStart \in 0..Len(file) /\ Len(file) \in Nat
    BY FileAt, TailStartIs
  <2>2. CASE k = 0
    BY <2>1, <2>2
  <2>3. CASE k # 0
    <3>1. k \in 1..k
      BY <2>3
    <3>2. 3 * k \in Ends
      BY <3>1, FileAt DEF Rows, Ends
    <3>3. 3 * k <= TailStart
      BY <3>2, TailStartIs
    <3> QED BY <2>1, <3>3
  <2> QED BY <2>2, <2>3
<1>2. TailStart \div 3 = k
  BY <1>1
<1> QED BY <1>2, RecoveredAfter

LEMMA SameFile ==
  ASSUME Typed, UNCHANGED <<file, event, legacy, acks>>, NEW k \in Nat
  PROVE  /\ Rows(k)' <=> Rows(k)
         /\ After(k)' = After(k) /\ Gain' = Gain
         /\ \A j \in 1..k : RecAt(j)' = RecAt(j)
  BY DEF Rows, After, Recs, RecAt, Gain

LEMMA RemembersNext ==
  ASSUME Ordered, Owned, [Next]_vars
  PROVE  Remembers'
<1> USE DEF Ordered, Owned
<1>0. Len(file) \in Nat /\ synced \in 0..Len(file)
  BY FileAt DEF Typed
<1>1. CASE pc' # "up"
  BY <1>1 DEF Remembers
<1>2. ASSUME pc' = "up",
             NEW k \in Nat, Rows(k)', Clean(k)', 3 * k = Len(file'), Ours(After(k)')
      PROVE  Ours(eps')
  <2>1. CASE UNCHANGED vars
    <3>1. Rows(k) /\ Clean(k) /\ 3 * k = Len(file) /\ Ours(After(k))
      BY <1>2, <2>1 DEF vars, fileVars, Rows, Clean, RecAt, Gain, After, Recs, Ours
    <3> QED BY <1>2, <2>1, <3>1 DEF vars, fileVars, Remembers, Ours
  <2>2. CASE Replay
    <3>1. ~Corrupt /\ eps' = RecoveredEps /\ UNCHANGED <<file, event, legacy, acks>>
      BY <2>2 DEF Replay, fileVars
    <3>2. Rows(k) /\ 3 * k = Len(file) /\ After(k)' = After(k)
      BY <1>2, <3>1, SameFile
    <3>3. eps' = After(k)
      BY <3>1, <3>2, ReplayOfAll
    <3> QED BY <1>2, <3>2, <3>3
  <2>3. CASE Sync
    <3>1. UNCHANGED <<file, event, legacy, acks>>
      BY <2>3 DEF Sync
    <3>2. Rows(k) /\ 3 * k = Len(file) /\ After(k)' = After(k)
      BY <1>2, <3>1, SameFile
    <3> QED BY <1>2, <2>3, <3>2, SyncGains
  <2>4. CASE SyncFails
    <3>1. pc = "sync" /\ UNCHANGED <<file, event, legacy, acks, acked>>
      BY <2>4 DEF SyncFails, Goto, fileVars, Agent
    <3>2. Rows(k) /\ 3 * k = Len(file) /\ After(k)' = After(k) /\ Gain' = Gain
      BY <1>2, <3>1, SameFile
    <3>3. \A j \in 1..k : RecAt(j)' = RecAt(j)
      BY <3>1, SameFile
    <3>4. Clean(k)
      BY <1>2, <3>1, <3>2, <3>3 DEF Clean
    <3>5. k - 1 \in Nat /\ (k - 1) + 1 = k /\ RecAt(k) = This /\ Rows(k - 1) /\ BodyAt(k - 1, This)
      BY <3>1, <3>2, SyncedRow
    <3>6. Clean(k - 1) /\ k \in 1..k
      BY <3>4, <3>5 DEF Clean
    <3>7. event[This] = Gain
      BY <1>2, <3>2, <3>5, <3>6, BodyGains
    <3> QED BY <3>1, <3>4, <3>5, <3>6, <3>7 DEF Clean, Confirmed
  <2>5. ASSUME NEW e \in Written, WriteFails(e) PROVE Ours(eps')
    <3>1. event' = Append(event, e) /\ UNCHANGED <<eps, acked, legacy, acks>>
      BY <2>5 DEF WriteFails
    <3>2. file' = file /\ pc = "up"
      BY <1>2, <2>5 DEF WriteFails
    <3>3. Keeps(Len(file)) /\ 3 * k <= Len(file) /\ \A r \in DOMAIN event : event'[r] = event[r]
      BY <1>0, <1>2, <3>1, <3>2 DEF Keeps, Typed
    <3>4. /\ Rows(k) /\ After(k)' = After(k) /\ Gain' = Gain
          /\ \A j \in 1..k : RecAt(j)' = RecAt(j) /\ event'[RecAt(j)'] = event[RecAt(j)]
      BY <1>2, <3>1, <3>3, SameRows
    <3>5. Clean(k)
      BY <1>2, <3>1, <3>4 DEF Clean
    <3>6. Ours(eps)
      BY <1>2, <3>2, <3>4, <3>5 DEF Remembers
    <3> QED BY <3>1, <3>6 DEF Ours
  <2>6. \A e \in Written : ~WriteBody(e)
    BY <1>2 DEF WriteBody
  <2>7. \/ UNCHANGED vars \/ Replay \/ Sync \/ SyncFails \/ \E e \in Written : WriteFails(e)
    BY <1>2, <2>6 DEF Next, TakeLock, RepairRefuses, TailClean, AddNewline, SaveAside, Cut, Flush,
       ReplayRefuses, LineFeed, LineFeedFails, Dies, Goto
  <2> QED BY <2>1, <2>2, <2>3, <2>4, <2>5, <2>7
<1> QED BY <1>1, <1>2 DEF Remembers, Ours

LEMMA BackedNext ==
  ASSUME Ordered, Owned, [Next]_vars
  PROVE  Backed'
<1> USE DEF Ordered, Owned
<1>0. Len(file) \in Nat /\ synced \in 0..Len(file)
  BY FileAt DEF Typed
<1>1. ASSUME file' = file, UNCHANGED <<event, acked, legacy, acks, settled>>,
             synced' \in Nat, synced' >= synced
      PROVE  Backed'
  <2>1. Keeps(Len(file))
    BY <1>1, FileStays
  <2>2. \A k \in Nat : Rows(k)' => 3 * k <= Len(file)
    BY <1>0, <1>1, RowsAre, SameFile
  <2> QED BY <1>1, <2>1, <2>2, BackedStays
<1>2. CASE \/ UNCHANGED vars \/ TakeLock \/ RepairRefuses \/ TailClean \/ SaveAside \/ ReplayRefuses
           \/ LineFeedFails \/ SyncFails \/ Flush
  BY <1>0, <1>1, <1>2
     DEF vars, TakeLock, RepairRefuses, TailClean, SaveAside, ReplayRefuses, LineFeedFails,
         SyncFails, Flush, fileVars, Agent
<1>3. CASE AddNewline \/ LineFeed
  <2>1. file' = Append(file, LF) /\ UNCHANGED <<event, acked, legacy, acks, settled, synced>>
    BY <1>3 DEF AddNewline, LineFeed, Agent
  <2>2. /\ Keeps(Len(file)) /\ Len(file') = Len(file) + 1
    BY <2>1, AddsLF
  <2>3. ASSUME NEW k \in Nat, Rows(k)', Clean(k)', Ours(After(k)')
        PROVE  3 * k <= Len(file)
    <3> SUFFICES ASSUME ~(3 * k <= Len(file)) PROVE FALSE
      OBVIOUS
    <3>1. k # 0 /\ k \in 1..k
      BY <1>0
    <3>2. /\ 3 * k <= Len(file) + 1
          /\ file'[3 * k - 2] = Half(RecAt(k)', 1) /\ file'[3 * k - 1] = Half(RecAt(k)', 2)
      BY <2>2, <2>3, <3>1 DEF Rows
    <3>3. 3 * k = Len(file) + 1
      BY <1>0, <3>2
    <3> DEFINE m == k - 1
               r == RecAt(k)'
    <3>4. /\ m \in Nat /\ m + 1 = k /\ 3 * m + 2 = Len(file)
          /\ 3 * m + 1 = 3 * k - 2 /\ 3 * m + 2 = 3 * k - 1
      BY <3>1, <3>3
    <3>5. Rows(m)'
      BY <2>3, <3>4 DEF Rows
    <3>6. /\ Rows(m) /\ Gain' = Gain
          /\ \A j \in 1..m : RecAt(j)' = RecAt(j) /\ event'[RecAt(j)'] = event[RecAt(j)]
      BY <1>0, <2>1, <2>2, <3>4, <3>5, SameRows
    <3>7. BodyAt(m, r)
      <4>1. 3 * m + 1 \in 1..Len(file) /\ 3 * m + 2 \in 1..Len(file)
        BY <1>0, <3>4
      <4>2. file[3 * m + 1] = Half(r, 1) /\ file[3 * m + 2] = Half(r, 2)
        BY <2>2, <3>2, <3>4, <4>1 DEF Keeps
      <4> QED BY <3>4, <4>2 DEF BodyAt
    <3>8. Clean(m)
      <4>1. \A j \in 1..m : j \in 1..k
        BY <3>4
      <4> QED BY <2>1, <2>3, <3>6, <4>1 DEF Clean
    <3>9. RecAt(k) = r /\ r \in DOMAIN event
      BY <3>4, <3>6, <3>7, BodyCounts
    <3>10. After(k)' = After(k)
      <4>1. \A j \in 1..k : j \in 1..m \/ j = k
        BY <3>4
      <4>2. \A j \in 1..k : RecAt(j)' = RecAt(j)
        BY <3>6, <3>9, <4>1
      <4> QED BY <2>1, <4>2 DEF After, Recs
    <3>11. event[r] = Gain
      <4>1. Ours(After(m + 1))
        BY <2>3, <3>4, <3>10
      <4> HIDE DEF m, r
      <4> QED BY <3>4, <3>6, <3>7, <3>8, <4>1, BodyGains
    <3>12. r \notin acked
      <4>1. synced < 3 * m + 3
        BY <1>0, <3>4
      <4> HIDE DEF m, r
      <4> QED BY <3>4, <3>7, <4>1, LastBodyUnacked
    <3> QED BY <2>1, <2>3, <3>1, <3>6, <3>9, <3>11, <3>12 DEF Clean
  <2> QED BY <1>0, <2>1, <2>2, <2>3, BackedStays
<1>4. ASSUME NEW n \in 0..Len(file), file' = Prefix(n),
             UNCHANGED <<event, acked, legacy, acks, settled, synced>>
      PROVE  Backed'
  <2>1. Len(file') = n /\ Keeps(n) /\ n \in Nat
    BY <1>4, CutsTo
  <2>2. \A k \in Nat : Rows(k)' => 3 * k <= n
    BY <2>1, RowsEnd
  <2> QED BY <1>0, <1>4, <2>1, <2>2, BackedStays
<1>5. CASE Cut
  <2>1. /\ file' = Prefix(TailStart) /\ UNCHANGED <<event, acked, legacy, acks, settled>>
        /\ synced' = IF synced < TailStart THEN synced ELSE TailStart
    BY <1>5 DEF Cut, Agent
  <2>2. TailStart \in 0..Len(file) /\ synced <= TailStart
    <3>1. synced # 0 => synced \in Ends
      BY <1>0, FileAt DEF Lined, Ends
    <3> QED BY <1>0, <3>1, TailStartIs
  <2>3. synced' = synced
    BY <1>0, <2>1, <2>2
  <2> QED BY <1>4, <2>1, <2>2, <2>3
<1>6. CASE Dies
  BY <1>0, <1>4, <1>6 DEF Dies
<1>7. ASSUME NEW e \in Written, WriteBody(e) PROVE Backed'
  <2>1. /\ event' = Append(event, e) /\ file' = file \o Body(This')
        /\ UNCHANGED <<acked, legacy, acks, settled, synced>>
    BY <1>7 DEF WriteBody
  <2>2. Keeps(Len(file)) /\ \A r \in DOMAIN event : event'[r] = event[r]
    BY <2>1, AddsBody DEF Typed
  <2>3. \A k \in Nat : Rows(k)' => 3 * k <= Len(file)
    BY <2>1, AfterBody
  <2>4. synced' \in Nat /\ synced' >= synced
    BY <1>0, <2>1
  <2> QED BY <2>1, <2>2, <2>3, <2>4, BackedStays
<1>8. ASSUME NEW e \in Written, WriteFails(e) PROVE Backed'
  <2>1. /\ event' = Append(event, e) /\ UNCHANGED <<acked, legacy, acks, settled, synced>>
        /\ file' = file \/ file' = Append(file, Half(This', 1))
    BY <1>8 DEF WriteFails
  <2>2. \A r \in DOMAIN event : event'[r] = event[r]
    BY <2>1 DEF Typed
  <2>3. synced' \in Nat /\ synced' >= synced
    BY <1>0, <2>1
  <2>4. CASE file' = file
    <3>1. Keeps(Len(file)) /\ \A i \in (Len(file) + 1)..Len(file') : file'[i].half # 0
      BY <1>0, <2>4 DEF Keeps
    <3>2. \A k \in Nat : Rows(k)' => 3 * k <= Len(file)
      BY <1>0, <2>4, <3>1, RowsEnd
    <3> QED BY <2>1, <2>2, <2>3, <3>1, <3>2, BackedStays
  <2>5. CASE file' = Append(file, Half(This', 1))
    BY <2>1, <2>2, <2>3, <2>5, AddsHalf, AfterHalf, BackedStays
  <2> QED BY <2>1, <2>4, <2>5
<1>9. CASE Replay
  <2>1. ~Corrupt /\ eps' = RecoveredEps /\ UNCHANGED <<file, synced, event, acked, legacy, acks>>
        /\ settled' = IF synced = Len(file) THEN eps' ELSE settled
    BY <1>9 DEF Replay, fileVars
  <2>2. CASE synced # Len(file)
    BY <1>0, <1>1, <2>1, <2>2
  <2>3. CASE synced = Len(file)
    <3> SUFFICES ASSUME NEW k \in Nat, Rows(k)', Clean(k)', 3 * k >= synced', Ours(After(k)')
                 PROVE  Ours(settled')
      BY DEF Backed, Ours
    <3>1. Rows(k) /\ After(k)' = After(k)
      BY <2>1, SameFile
    <3>2. 3 * k = Len(file)
      <4>1. 3 * k <= Len(file)
        BY <3>1, RowsAre
      <4> QED BY <1>0, <2>1, <2>3, <4>1
    <3>3. settled' = After(k)
      BY <2>1, <2>3, <3>1, <3>2, ReplayOfAll
    <3> QED BY <3>1, <3>3
  <2> QED BY <2>2, <2>3
<1>10. CASE Sync
  <2>1. synced' = Len(file) /\ settled' = eps' /\ UNCHANGED <<file, event, legacy, acks>>
    BY <1>10 DEF Sync
  <2> SUFFICES ASSUME NEW k \in Nat, Rows(k)', Clean(k)', 3 * k >= synced', Ours(After(k)')
               PROVE  Ours(settled')
    BY DEF Backed, Ours
  <2>2. Rows(k) /\ After(k)' = After(k)
    BY <2>1, SameFile
  <2>3. 3 * k = Len(file)
    <3>1. 3 * k <= Len(file)
      BY <2>2, RowsAre
    <3> QED BY <1>0, <2>1, <3>1
  <2>4. Ours(eps')
    BY <1>10, <2>2, <2>3, SyncGains
  <2> QED BY <2>1, <2>4
<1> QED BY <1>2, <1>3, <1>5, <1>6, <1>7, <1>8, <1>9, <1>10 DEF Next

LEMMA OwnedInit == Init => Ordered /\ Owned
<1> SUFFICES ASSUME Init PROVE Ordered /\ Owned
  OBVIOUS
<1>1. Typed /\ AtEnd
  BY TypedInit
<1>2. /\ file = <<>> /\ Len(file) = 0 /\ synced = 0 /\ pc = "down" /\ event = <<>> /\ acked = {}
      /\ intent = FALSE /\ settled = Fold(<<>>, legacy, acks)
  BY DEF Init
<1>3. Growing /\ Kept /\ Confirmed /\ Lined
  BY <1>2 DEF Growing, Kept, Confirmed, Lined
<1>4. Unstacked /\ Remembers
  BY <1>2 DEF Unstacked, Remembers
<1>5. Backed
  <2> SUFFICES ASSUME NEW k \in Nat, Rows(k), Ours(After(k)) PROVE Ours(settled)
    BY DEF Backed
  <2>1. 3 * k <= 0
    BY <1>1, <1>2, RowsAre
  <2>2. k = 0
    BY <2>1
  <2>3. Recs(k) = <<>>
    BY <2>2 DEF Recs
  <2> QED BY <1>2, <2>3 DEF After
<1> QED BY <1>1, <1>3, <1>4, <1>5 DEF Ordered, Owned

LEMMA AlwaysOwned == Spec => [](Ordered /\ Owned)
<1>1. ASSUME Ordered, Owned, [Next]_vars PROVE Ordered' /\ Owned'
  <2>1. Typed' /\ AtEnd'
    BY <1>1, TypedNext DEF Ordered
  <2>2. Growing' /\ Kept'
    BY <1>1, OrderNext DEF Ordered
  <2>3. Confirmed' /\ Lined'
    BY <1>1, ConfirmedNext, LinedNext DEF Ordered
  <2>4. Unstacked' /\ Remembers' /\ Backed'
    BY <1>1, UnstackedNext, RemembersNext, BackedNext
  <2> QED BY <2>1, <2>2, <2>3, <2>4 DEF Ordered, Owned
<1>2. Ordered /\ Owned /\ [Next]_vars => (Ordered /\ Owned)'
  BY <1>1
<1> QED BY <1>2, OwnedInit, PTL DEF Spec

(* A restart never hands out ownership on its own (journal.rs              *)
(* pause_episodes, review R9-2 and R11-A): what an agent that opens the    *)
(* journal calls its own pause either was so for the agent that last       *)
(* acted, or a record that was written and never acknowledged says so.     *)
THEOREM JournalOwnershipIsEarned == Spec => OwnershipIsEarned
<1>1. ASSUME Ordered, Owned, Replay, LatestOwner(eps') = "ours"
      PROVE  \/ LatestOwner(settled) = "ours"
             \/ \E r \in DOMAIN event \ acked :
                  /\ r \in Range(Recovered)
                  /\ event[r] = IF acks THEN "ack" ELSE "pause"
  <2> DEFINE k == TailStart \div 3
  <2>0. ~Corrupt /\ eps' = RecoveredEps
    BY <1>1 DEF Replay
  <2>1. /\ k \in Nat /\ 3 * k = TailStart /\ Rows(k) /\ RecoveredEps = After(k)
        /\ DOMAIN Recovered = 1..k /\ \A j \in 1..k : Recovered[j] = RecAt(j)
    BY <1>1, <2>0, RecoveredAfter DEF Ordered
  <2> HIDE DEF k
  <2>2. CASE Clean(k)
    <3>1. synced <= TailStart
      <4>1. synced # 0 => synced \in Ends
        BY <1>1, FileAt DEF Ordered, Typed, Lined, Ends
      <4> QED BY <1>1, <2>1, <4>1, TailStartIs DEF Ordered, Typed
    <3>2. 3 * k >= synced /\ Ours(After(k))
      BY <1>1, <2>0, <2>1, <3>1 DEF Ours, Ordered, Typed
    <3> QED BY <1>1, <2>1, <2>2, <3>2 DEF Owned, Backed, Ours
  <2>3. CASE ~Clean(k)
    <3>1. PICK j \in 1..k : event[RecAt(j)] = Gain /\ RecAt(j) \notin acked
      BY <2>3 DEF Clean
    <3>2. RecAt(j) \in DOMAIN event
      BY <1>1, <2>1, RowsAre DEF Ordered
    <3>3. RecAt(j) \in Range(Recovered)
      BY <2>1 DEF Range
    <3> QED BY <3>1, <3>2, <3>3 DEF Gain
  <2> QED BY <2>2, <2>3
<1>2. Ordered /\ Owned /\ [Next]_vars
      => [Replay /\ LatestOwner(eps') = "ours" =>
            \/ LatestOwner(settled) = "ours"
            \/ \E r \in DOMAIN event \ acked :
                 /\ r \in Range(Recovered)
                 /\ event[r] = IF acks THEN "ack" ELSE "pause"]_vars
  BY <1>1
<1> QED BY <1>2, AlwaysOwned, PTL DEF Spec, OwnershipIsEarned
=============================================================================
