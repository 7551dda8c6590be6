-------------------------- MODULE PauseCustodyProofs --------------------------
(***************************************************************************)
(* Proofs about PauseCustody, for every number of external steps, episodes *)
(* and deaths. First the episode stack in pairs (the agent's view and its  *)
(* replay), then the inductive invariant, then the theorems.               *)
(***************************************************************************)
EXTENDS PauseCustody, SequenceTheorems, TLAPS

(* What one owner becomes on replay, and what the top one may become.      *)
Replays(a, b)    == a = b \/ (a = "closing" /\ b = "unknown")
TopReplays(a, b) == Replays(a, b) \/ (a = "ours" /\ b = "unknown")

(* s is the agent's view of the stack whose replay is t.                   *)
Views(s, t) ==
  /\ s \in Seq(Owners) /\ t \in Seq(Owners)
  /\ Len(s) = Len(t)
  /\ \A i \in 1..Len(s) - 1 : s[i] # "ours" /\ Replays(s[i], t[i])
  /\ TopReplays(Top(s), Top(t))

(* The inductive invariant.                                                *)
Firm ==
  /\ Ours(open) => trusted \/ Released
  /\ trusted => Ours(jopen)

StepInv ==
  /\ step \in {"resuming", "confirming", "settled"} => ~Ours(open)
  /\ step = "down" => open = jopen
  /\ step \in {"pausing", "acking"} => Top(open) \in {"ours", "unknown"}
  /\ step = "acking" => Top(open) = "unknown"
  /\ step = "settled" => pause # "agent"

ForeignInv ==
  pause = "external" =>
    /\ Ours(open) => hidden \/ Released
    /\ step \in {"pausing", "acking"} /\ Top(open) = "unknown" => hidden
    /\ step = "resuming" => hidden \/ Released

IInv == TypeOK /\ Views(open, jopen) /\ Firm /\ StepInv /\ ForeignInv
        /\ OwnPauseIsRecorded
-----------------------------------------------------------------------------
(* Pushing adds one owner on top and moves no other.                       *)
LEMMA PushLemma ==
  ASSUME NEW s \in Seq(Owners), NEW o \in Owners
  PROVE  /\ Push(s, o) \in Seq(Owners)
         /\ Len(Push(s, o)) = Len(s) + 1
         /\ Push(s, o) # <<>>
         /\ Top(Push(s, o)) = o
         /\ \A i \in 1..Len(s) : Push(s, o)[i] = s[i]
  BY DEF Push, Top

(* Closing removes the top owner and moves no other.                       *)
LEMMA CloseLemma ==
  ASSUME NEW s \in Seq(Owners)
  PROVE  /\ Close(s) \in Seq(Owners)
         /\ s = <<>> => Close(s) = <<>>
         /\ s # <<>> => Len(s) > 0 /\ Len(Close(s)) = Len(s) - 1
         /\ \A i \in 1..Len(s) - 1 : Close(s)[i] = s[i]
  <1>1. CASE s = <<>>
    BY <1>1 DEF Close
  <1>2. CASE s # <<>>
    <2>1. Len(s) \in Nat \ {0}
      BY <1>2, EmptySeq
    <2>2. Close(s) = SubSeq(s, 1, Len(s) - 1)
      BY <1>2 DEF Close
    <2>3. \A i \in 1..Len(s) - 1 : s[i] \in Owners
      BY <2>1, ElementOfSeq
    <2> DEFINE n == Len(s) - 1
    <2>4. n \in Int /\ 1 \in Int /\ \A i \in 1..n : s[i] \in Owners
      BY <2>1, <2>3
    <2>6. n \in Nat /\ n = Len(s) - 1 /\ Close(s) = SubSeq(s, 1, n)
      BY <2>1, <2>2
    <2> HIDE DEF n
    <2>5. /\ SubSeq(s, 1, n) \in Seq(Owners)
          /\ Len(SubSeq(s, 1, n)) = IF 1 <= n THEN n - 1 + 1 ELSE 0
          /\ \A i \in 1..n - 1 + 1 : SubSeq(s, 1, n)[i] = s[1 + i - 1]
      BY <2>4, SubSeqProperties
    <2>7. Len(SubSeq(s, 1, n)) = n
      <3>1. n - 1 + 1 = n /\ (~(1 <= n) => n = 0)
        BY <2>6
      <3>2. CASE 1 <= n
        BY <2>5, <3>1, <3>2, Zenon
      <3>3. CASE ~(1 <= n)
        BY <2>5, <3>1, <3>3, Zenon
      <3> QED BY <3>2, <3>3
    <2>8. \A i \in 1..n : SubSeq(s, 1, n)[i] = s[i]
      <3>1. n - 1 + 1 = n /\ \A i \in 1..n : 1 + i - 1 = i
        BY <2>6
      <3> QED BY <2>5, <3>1, Zenon
    <2> QED BY <1>2, <2>1, <2>5, <2>6, <2>7, <2>8
  <1> QED BY <1>1, <1>2

(* The top is the last owner of a stack that is not empty.                 *)
LEMMA TopLemma ==
  ASSUME NEW s \in Seq(Owners)
  PROVE  /\ s = <<>> <=> Len(s) = 0
         /\ s = <<>> <=> Top(s) = "none"
         /\ s # <<>> => Len(s) \in 1..Len(s) /\ Top(s) = s[Len(s)]
         /\ Top(s) \in Owners \cup {"none"}
  BY DEF Top, Owners

(* A new episode on an ownership that is not ours.                         *)
LEMMA ViewsPush ==
  ASSUME NEW s, NEW t, Views(s, t), Top(s) # "ours",
         NEW o \in Owners, NEW p \in Owners, TopReplays(o, p)
  PROVE  Views(Push(s, o), Push(t, p))
  <1>1. s \in Seq(Owners) /\ t \in Seq(Owners) /\ Len(s) = Len(t)
    BY DEF Views
  <1>2. \A i \in 1..Len(s) : s[i] # "ours" /\ Replays(s[i], t[i])
    <2> SUFFICES ASSUME NEW i \in 1..Len(s)
                 PROVE  s[i] # "ours" /\ Replays(s[i], t[i])
      OBVIOUS
    <2>1. CASE i = Len(s)
      <3>1. Top(s) = s[i] /\ Top(t) = t[i]
        BY <1>1, <2>1, TopLemma
      <3> QED BY <3>1 DEF Views, TopReplays
    <2>2. CASE i # Len(s)
      <3>1. i \in 1..Len(s) - 1
        BY <1>1, <2>2
      <3> QED BY <3>1 DEF Views
    <2> QED BY <2>1, <2>2
  <1>3. \A i \in 1..Len(s) :
          Push(s, o)[i] # "ours" /\ Replays(Push(s, o)[i], Push(t, p)[i])
    <2>1. \A i \in 1..Len(s) : Push(s, o)[i] = s[i]
      BY <1>1, PushLemma, Zenon
    <2>2. \A i \in 1..Len(s) : Push(t, p)[i] = t[i]
      <3>1. \A i \in 1..Len(t) : Push(t, p)[i] = t[i]
        BY <1>1, PushLemma, Zenon
      <3> QED BY <1>1, <3>1, Zenon
    <2> QED BY <1>2, <2>1, <2>2, Zenon
  <1>4. /\ Push(s, o) \in Seq(Owners) /\ Push(t, p) \in Seq(Owners)
        /\ Len(Push(s, o)) = Len(s) + 1 /\ Len(Push(t, p)) = Len(s) + 1
        /\ Top(Push(s, o)) = o /\ Top(Push(t, p)) = p
    BY <1>1, PushLemma
  <1>5. 1..Len(Push(s, o)) - 1 = 1..Len(s)
    BY <1>1, <1>4
  <1> QED BY <1>3, <1>4, <1>5 DEF Views

(* Closing never uncovers an ownership that is ours.                       *)
LEMMA ViewsClose ==
  ASSUME NEW s, NEW t, Views(s, t)
  PROVE  /\ Views(Close(s), Close(t))
         /\ Top(Close(s)) # "ours"
         /\ Replays(Top(Close(s)), Top(Close(t)))
  <1>1. s \in Seq(Owners) /\ t \in Seq(Owners) /\ Len(s) = Len(t)
    BY DEF Views
  <1>2. CASE s = <<>>
    <2>1. t = <<>> /\ Close(s) = <<>> /\ Close(t) = <<>>
      BY <1>1, <1>2, CloseLemma, TopLemma
    <2> QED BY <1>2, <2>1 DEF Views, Top, Replays
  <1>3. CASE s # <<>>
    <2>1. t # <<>> /\ Len(s) > 0
      BY <1>1, <1>3, TopLemma, CloseLemma
    <2>2. /\ Close(s) \in Seq(Owners) /\ Close(t) \in Seq(Owners)
          /\ Len(Close(s)) = Len(s) - 1 /\ Len(Close(t)) = Len(s) - 1
      BY <1>1, <1>3, <2>1, CloseLemma
    <2>3. \A i \in 1..Len(s) - 1 :
            Close(s)[i] # "ours" /\ Replays(Close(s)[i], Close(t)[i])
      BY <1>1, CloseLemma DEF Views
    <2>4. Top(Close(s)) # "ours" /\ Replays(Top(Close(s)), Top(Close(t)))
      <3>1. CASE Close(s) = <<>>
        <4>1. Close(t) = <<>>
          BY <2>2, <3>1, TopLemma
        <4> QED BY <3>1, <4>1 DEF Top, Replays
      <3>2. CASE Close(s) # <<>>
        <4>1. /\ Len(Close(s)) \in 1..Len(s) - 1
              /\ Top(Close(s)) = Close(s)[Len(Close(s))]
          BY <2>2, <3>2, TopLemma
        <4>2. Close(t) # <<>>
          BY <2>2, <3>2, TopLemma
        <4>3. Top(Close(t)) = Close(t)[Len(Close(s))]
          BY <2>2, <4>2, TopLemma
        <4> QED BY <2>3, <4>1, <4>3
      <3> QED BY <3>1, <3>2
    <2>5. 1..Len(Close(s)) - 1 \subseteq 1..Len(s) - 1
      BY <1>1, <2>2
    <2> QED BY <2>2, <2>3, <2>4, <2>5 DEF Views, TopReplays
  <1> QED BY <1>2, <1>3

(* Settling the top of both: the acknowledgment and the start of a resume. *)
LEMMA ViewsSettle ==
  ASSUME NEW s, NEW t, Views(s, t), s # <<>>,
         NEW o \in Owners, NEW p \in Owners, TopReplays(o, p)
  PROVE  Views(Push(Close(s), o), Push(Close(t), p))
  BY ViewsClose, ViewsPush

(* Each record's effect on the pair.                                       *)
LEMMA ViewsAck ==
  ASSUME NEW s, NEW t, Views(s, t), Top(s) = "unknown"
  PROVE  /\ Views(Acknowledge(s), Acknowledge(t))
         /\ Top(Acknowledge(s)) = "ours" /\ Top(Acknowledge(t)) = "ours"
         /\ Acknowledge(t) # <<>>
  <1>1. s \in Seq(Owners) /\ t \in Seq(Owners) /\ s # <<>>
    BY TopLemma DEF Views
  <1>2. Top(t) = "unknown"
    BY DEF Views, TopReplays, Replays
  <1>3. /\ Acknowledge(s) = Push(Close(s), "ours")
        /\ Acknowledge(t) = Push(Close(t), "ours")
    BY <1>2 DEF Acknowledge, Settle
  <1>4. Close(s) \in Seq(Owners) /\ Close(t) \in Seq(Owners)
    BY <1>1, CloseLemma
  <1>5. "ours" \in Owners /\ TopReplays("ours", "ours")
    BY DEF Owners, TopReplays, Replays
  <1> QED BY <1>1, <1>3, <1>4, <1>5, ViewsSettle, PushLemma

(* The start of a resume.                                                  *)
LEMMA ViewsBegin ==
  ASSUME NEW s, NEW t, Views(s, t)
  PROVE  /\ Views(BeginResume(s), BeginResume(t))
         /\ Top(BeginResume(s)) # "ours"
         /\ t # <<>> => BeginResume(t) # <<>>
         /\ (Top(s) = "ours" /\ Top(t) = "unknown") =>
              /\ Top(BeginResume(s)) = "closing"
              /\ Top(BeginResume(t)) = "unknown"
  <1>1. s \in Seq(Owners) /\ t \in Seq(Owners)
    BY DEF Views
  <1>2. Close(s) \in Seq(Owners) /\ Close(t) \in Seq(Owners)
    BY <1>1, CloseLemma
  <1>3. "closing" \in Owners /\ "unknown" \in Owners
    BY DEF Owners
  <1>4. /\ TopReplays("closing", "closing")
        /\ TopReplays("closing", "unknown")
    BY DEF TopReplays, Replays
  <1>5. CASE Top(s) # "ours"
    <2>1. Top(t) # "ours"
      BY <1>5 DEF Views, TopReplays, Replays
    <2>2. BeginResume(s) = s /\ BeginResume(t) = t
      BY <1>5, <2>1 DEF BeginResume, Settle
    <2> QED BY <1>5, <2>2
  <1>6. CASE Top(s) = "ours" /\ Top(t) = "ours"
    <2>1. /\ BeginResume(s) = Push(Close(s), "closing")
          /\ BeginResume(t) = Push(Close(t), "closing")
      BY <1>6 DEF BeginResume, Settle
    <2>2. s # <<>>
      BY <1>1, <1>6, TopLemma
    <2> QED BY <1>2, <1>3, <1>4, <1>6, <2>1, <2>2, ViewsSettle, PushLemma
  <1>7. CASE Top(s) = "ours" /\ Top(t) = "unknown"
    <2>1. BeginResume(s) = Push(Close(s), "closing") /\ BeginResume(t) = t
      BY <1>7 DEF BeginResume, Settle
    <2>2. Top(BeginResume(s)) = "closing" /\ Push(Close(s), "closing") # <<>>
      BY <1>2, <1>3, <2>1, PushLemma
    <2>3. Views(Push(Close(s), "closing"), t)
      <3>1. s # <<>> /\ t # <<>>
        BY <1>1, <1>7, TopLemma
      <3>2. /\ Len(Push(Close(s), "closing")) = Len(s)
            /\ Push(Close(s), "closing") \in Seq(Owners)
        BY <1>1, <1>2, <1>3, <3>1, CloseLemma, PushLemma
      <3>3. \A i \in 1..Len(s) - 1 : Push(Close(s), "closing")[i] = s[i]
        <4>1. /\ Close(s) \in Seq(Owners) /\ Len(Close(s)) = Len(s) - 1
              /\ \A i \in 1..Len(s) - 1 : Close(s)[i] = s[i]
          BY <1>1, <3>1, CloseLemma, Zenon
        <4>2. "closing" \in Owners
          BY DEF Owners
        <4>3. \A i \in 1..Len(Close(s)) :
                Push(Close(s), "closing")[i] = Close(s)[i]
          BY <4>1, <4>2, PushLemma, Zenon
        <4> QED BY <4>1, <4>3, Zenon
      <3> QED BY <1>1, <1>4, <1>7, <2>1, <2>2, <3>2, <3>3 DEF Views
    <2> QED BY <1>7, <2>1, <2>2, <2>3
  <1> QED BY <1>5, <1>6, <1>7 DEF Views, TopReplays, Replays

(* The operator's release: ours for this run only.                         *)
LEMMA ViewsRelease ==
  ASSUME NEW s, NEW t, Views(s, t)
  PROVE  /\ Views(Release(s, TRUE), Release(t, FALSE))
         /\ Top(Release(s, TRUE)) = "ours"
         /\ Top(Release(t, FALSE)) = "unknown"
         /\ Release(t, FALSE) # <<>>
  <1>1. Views(Close(s), Close(t)) /\ Top(Close(s)) # "ours"
    BY ViewsClose
  <1>2. "ours" \in Owners /\ "unknown" \in Owners
        /\ TopReplays("ours", "unknown")
    BY DEF Owners, TopReplays, Replays
  <1>3. Close(s) \in Seq(Owners) /\ Close(t) \in Seq(Owners)
    BY <1>1 DEF Views
  <1> QED BY <1>1, <1>2, <1>3, ViewsPush, PushLemma DEF Release

(* The same new episode on two views whose top is not ours.                *)
LEMMA ViewsNew ==
  ASSUME NEW s, NEW t, Views(s, t), Top(s) # "ours", NEW o \in Owners
  PROVE  /\ Views(Push(s, o), Push(t, o))
         /\ Top(Push(s, o)) = o /\ Top(Push(t, o)) = o
         /\ Push(t, o) # <<>>
  <1>1. s \in Seq(Owners) /\ t \in Seq(Owners) /\ TopReplays(o, o)
    BY DEF Views, TopReplays, Replays
  <1> QED BY <1>1, ViewsPush, PushLemma

(* A replay alone is a view of itself when nothing below its top is ours.  *)
LEMMA ViewsReplay ==
  ASSUME NEW s, NEW t, Views(s, t)
  PROVE  Views(t, t)
  BY DEF Views, Replays, TopReplays
-----------------------------------------------------------------------------
(* The inductive invariant holds initially.                                *)
THEOREM InitInv == Init => IInv
  <1> SUFFICES ASSUME Init PROVE IInv
    OBVIOUS
  <1>1. <<>> \in Seq(Owners) /\ Len(<<>>) = 0 /\ Top(<<>>) = "none"
    BY EmptySeq DEF Top
  <1>2. Views(<<>>, <<>>)
    BY <1>1 DEF Views, TopReplays, Replays
  <1> QED
    BY <1>1, <1>2 DEF Init, IInv, TypeOK, Firm, StepInv, ForeignInv, Ours,
       OwnPauseIsRecorded, Holders, Steps, Answers

(* One step per action; each names only what it can disturb.               *)
THEOREM NextInv == IInv /\ [Next]_vars => IInv'
  <1> SUFFICES ASSUME IInv, [Next]_vars PROVE IInv'
    OBVIOUS
  <1> USE DEF IInv, TypeOK, Firm, StepInv, ForeignInv, Released,
              OwnPauseIsRecorded, Ours, External, Unknown, Holders, Steps,
              Answers, world, episodes
  <1>a. open \in Seq(Owners) /\ jopen \in Seq(Owners)
    OBVIOUS
  <1>b. Views(open, jopen)
    OBVIOUS
  <1>c. \A o \in Owners :
          Top(open) # "ours" =>
            /\ Views(Push(open, o), Push(jopen, o))
            /\ Push(open, o) \in Seq(Owners) /\ Push(jopen, o) \in Seq(Owners)
            /\ Top(Push(open, o)) = o /\ Push(jopen, o) # <<>>
    BY <1>a, <1>b, ViewsNew, PushLemma
  <1>d. /\ Views(Close(open), Close(jopen)) /\ Top(Close(open)) # "ours"
        /\ Close(open) \in Seq(Owners) /\ Close(jopen) \in Seq(Owners)
    BY <1>a, <1>b, ViewsClose, CloseLemma
  <1>e. open = <<>> <=> jopen = <<>>
    BY <1>a, <1>b, TopLemma DEF Views
  <1>f. {"unknown", "ours", "external", "closing"} = Owners
    BY DEF Owners
  <1>g. Top(jopen) = "ours" => Top(open) = "ours"
    BY <1>b DEF Views, TopReplays, Replays
  <1>1. ASSUME NEW seen \in Seen, Read(seen) PROVE IInv'
    <2>1. CASE seen = "producing" /\ Ours(open)
      BY <1>1, <1>d, <2>1 DEF Read, Observe
    <2>2. CASE ~(seen = "producing" /\ Ours(open))
      <3>1. UNCHANGED <<pause, jopen, open, ever, step, answer, hidden, ext,
                        crashes>>
        BY <1>1, <2>2 DEF Read, Observe
      <3>2. trusted' = (trusted /\ seen # "producing")
        BY <1>1 DEF Read, Observe
      <3> QED BY <2>2, <3>1, <3>2
    <2> QED BY <2>1, <2>2
  <1>2. CASE AdoptExternalPause
    <2>1. CASE External(open)
      BY <1>2, <2>1 DEF AdoptExternalPause
    <2>2. CASE ~External(open)
      BY <1>2, <1>c, <1>g, <1>f, <2>2 DEF AdoptExternalPause, Adopt
    <2> QED BY <2>1, <2>2
  <1>3. CASE PauseUnreadable
    BY <1>3 DEF PauseUnreadable
  <1>4. CASE PauseIntent
    BY <1>4, <1>c, <1>f DEF PauseIntent, Intend
  <1>5. CASE PauseAgain
    BY <1>5 DEF PauseAgain
  <1>6. CASE SealTick
    <2>1. /\ open' = Push(Close(open), "unknown")
          /\ jopen' = Push(Close(jopen), "unknown")
      BY <1>6 DEF SealTick, Intend
    <2>2. /\ Views(open', jopen') /\ Top(open') = "unknown" /\ jopen' # <<>>
          /\ open' \in Seq(Owners) /\ jopen' \in Seq(Owners)
      BY <1>d, <1>f, <2>1, ViewsNew, PushLemma
    <2> QED BY <1>6, <2>2 DEF SealTick
  <1>7. ASSUME NEW applied \in BOOLEAN, NEW ok \in BOOLEAN,
               PauseRpc(applied, ok)
        PROVE  IInv'
    <2>1. open # <<>> /\ jopen # <<>>
      BY <1>7, <1>a, <1>e, TopLemma DEF PauseRpc
    <2> QED BY <1>7, <2>1 DEF PauseRpc
  <1>8. ASSUME NEW seen \in Seen, PauseAck(seen) PROVE IInv'
    <2>1. CASE seen = "paused"
      <3>1. /\ open' = Acknowledge(open) /\ jopen' = Acknowledge(jopen)
            /\ Top(open) = "unknown" /\ trusted' = TRUE
            /\ step' = "idle" /\ answer' = "ok"
            /\ UNCHANGED <<pause, hidden, ext, ever, crashes>>
            /\ (pause = "external" => hidden)
        BY <1>8, <2>1 DEF PauseAck
      <3>2. /\ Views(open', jopen') /\ jopen' # <<>> /\ Top(jopen') = "ours"
            /\ open' \in Seq(Owners) /\ jopen' \in Seq(Owners)
        BY <1>b, <3>1, ViewsAck DEF Views
      <3> QED BY <3>1, <3>2
    <2>2. CASE seen # "paused"
      BY <1>8, <2>2 DEF PauseAck
    <2> QED BY <2>1, <2>2
  <1>9. CASE ResumeOwn \/ ResumeUnpaused
    <2>1. /\ open' = BeginResume(open) /\ jopen' = BeginResume(jopen)
          /\ step' = "resuming" /\ answer' = "none" /\ trusted' = FALSE
          /\ UNCHANGED <<pause, hidden, ext, ever, crashes>>
      BY <1>9 DEF ResumeOwn, ResumeUnpaused, ResumeIntent
    <2>2. Views(open', jopen') /\ Top(open') # "ours"
          /\ (jopen # <<>> => jopen' # <<>>)
          /\ (Top(open) = "ours" /\ Top(jopen) = "unknown" =>
                Top(open') = "closing" /\ Top(jopen') = "unknown")
      BY <1>b, <2>1, ViewsBegin
    <2>3. open' \in Seq(Owners) /\ jopen' \in Seq(Owners)
      BY <2>2 DEF Views
    <2>4. pause = "external" /\ Ours(open) => hidden' \/ Released'
      BY <2>1, <2>2
    <2>5. pause = "external" => Ours(open)
      BY <1>9 DEF ResumeOwn, ResumeUnpaused
    <2> QED BY <2>1, <2>2, <2>3, <2>4, <2>5
  <1>10. ASSUME NEW applied \in BOOLEAN, NEW ok \in BOOLEAN,
                ResumeRpc(applied, ok)
         PROVE  IInv'
    BY <1>10 DEF ResumeRpc
  <1>11. ASSUME NEW seen \in Seen, ResumeConfirm(seen) PROVE IInv'
    BY <1>11, <1>g DEF ResumeConfirm, Observe
  <1>12. CASE ResumeClose
    BY <1>12, <1>d, <1>g DEF ResumeClose
  <1>13. ASSUME NEW seen \in Seen, ResumeRecheck(seen) PROVE IInv'
    BY <1>13, <1>g DEF ResumeRecheck, Observe
  <1>14. CASE ReleaseExternal
    <2>1. /\ Views(open', jopen')
          /\ Top(open') = "ours" /\ Top(jopen') = "unknown" /\ jopen' # <<>>
      BY <1>14, <1>b, ViewsRelease DEF ReleaseExternal
    <2>2. open' \in Seq(Owners) /\ jopen' \in Seq(Owners)
      BY <2>1 DEF Views
    <2> QED BY <1>14, <1>g, <2>1, <2>2 DEF ReleaseExternal
  <1>15. CASE Crash
    <2>1. Views(jopen, jopen)
      BY <1>b, ViewsReplay
    <2>2. Top(jopen) = "ours" => Top(open) = "ours"
      BY <1>b DEF Views, TopReplays, Replays
    <2>3. Top(jopen) = "ours" => trusted
      BY <2>2
    <2>4. Top(jopen) = "ours" /\ pause = "external" => hidden
      BY <2>2
    <2>5. crashes' \in Nat
      BY <1>15 DEF Crash
    <2>6. /\ open' = jopen /\ step' = "down" /\ answer' = "none"
          /\ UNCHANGED <<pause, hidden, ext, trusted, jopen, ever>>
      BY <1>15 DEF Crash
    <2> QED BY <2>1, <2>3, <2>4, <2>5, <2>6
  <1>16. CASE Exit
    <2>1. Views(jopen, jopen)
      BY <1>b, ViewsReplay
    <2>2. Top(jopen) = "ours" => Top(open) = "ours"
      BY <1>b DEF Views, TopReplays, Replays
    <2>3. Top(jopen) = "ours" => trusted
      BY <2>2
    <2>4. Top(jopen) = "ours" /\ pause = "external" => hidden
      BY <2>2
    <2>5. crashes' \in Nat
      BY <1>16 DEF Exit
    <2>6. /\ open' = jopen /\ step' = "down" /\ answer' = "none"
          /\ UNCHANGED <<pause, hidden, ext, trusted, jopen, ever>>
      BY <1>16 DEF Exit
    <2> QED BY <2>1, <2>3, <2>4, <2>5, <2>6
  <1>17. CASE Restart
    BY <1>17 DEF Restart
  <1>18. CASE ExternalPause
    <2>1. ext' \in Nat
      BY <1>18 DEF ExternalPause
    <2>2. /\ pause' = "external" /\ hidden' = Blind
          /\ UNCHANGED <<trusted, jopen, open, ever, step, answer, crashes>>
      BY <1>18 DEF ExternalPause
    <2>3. hidden' \in BOOLEAN
      BY <2>2 DEF Blind
    <2>4. Released' <=> Released
      BY <2>2
    <2>5. Ours(open) => hidden' \/ Released
      BY <2>2 DEF Blind
    <2>6. step \in {"pausing", "acking", "resuming"} => hidden'
      BY <2>2 DEF Blind
    <2> QED BY <2>1, <2>2, <2>3, <2>4, <2>5, <2>6
  <1>19. CASE ExternalUnpause
    <2>1. ext' \in Nat
      BY <1>19 DEF ExternalUnpause
    <2>2. /\ pause' = "none" /\ hidden' = FALSE
          /\ UNCHANGED <<trusted, jopen, open, ever, step, answer, crashes>>
      BY <1>19 DEF ExternalUnpause
    <2> QED BY <2>1, <2>2
  <1>20. CASE UNCHANGED vars
    BY <1>20 DEF vars
  <1> QED
    BY <1>1, <1>2, <1>3, <1>4, <1>5, <1>6, <1>7, <1>8, <1>9, <1>10, <1>11,
       <1>12, <1>13, <1>14, <1>15, <1>16, <1>17, <1>18, <1>19, <1>20
    DEF Next, Pausing, Resuming

(* The inductive invariant holds in every reachable state.                 *)
THEOREM Invariance == Spec => []IInv
  BY InitInv, NextInv, PTL DEF Spec

(* Every variable keeps its type, at any number of episodes and deaths.    *)
THEOREM TypeCorrect == Spec => []TypeOK
  <1>1. IInv => TypeOK
    BY DEF IInv
  <1> QED BY <1>1, Invariance, PTL

(* While a resume RPC is in flight, a foreign pause is in force only after *)
(* an operator's release to this run or where no read could see it.        *)
THEOREM ResumesOnlyItsOwn == Spec => []NoForeignResume
  <1>1. IInv => NoForeignResume
    BY DEF IInv, ForeignInv, NoForeignResume
  <1> QED BY <1>1, Invariance, PTL

(* An ownership that is not the newest open episode's is never ours.       *)
THEOREM OwnershipIsNewest == Spec => []NoBuriedOwnership
  <1>1. IInv => NoBuriedOwnership
    BY DEF IInv, Views, NoBuriedOwnership
  <1> QED BY <1>1, Invariance, PTL

(* The agent's own pause always has an open episode in the durable log.    *)
THEOREM OwnPauseIsDurable == Spec => []OwnPauseIsRecorded
  <1>1. IInv => OwnPauseIsRecorded
    BY DEF IInv
  <1> QED BY <1>1, Invariance, PTL

(* A replay recovers what the agent believed, except a live release.       *)
THEOREM ReplayIsFaithful == Spec => []ReplayLosesOnlyReleases
  <1>1. ASSUME IInv PROVE ReplayLosesOnlyReleases
    <2>1. open \in Seq(Owners) /\ jopen \in Seq(Owners)
          /\ Len(open) = Len(jopen)
      BY <1>1 DEF IInv, Views
    <2>2. ASSUME NEW i \in 1..Len(open)
          PROVE  \/ SameClass(open[i], jopen[i])
                 \/ i = Len(open) /\ open[i] = "ours" /\ jopen[i] = "unknown"
      <3>1. CASE i = Len(open)
        <4>1. open # <<>> /\ jopen # <<>>
          BY <2>1, <2>2, TopLemma
        <4>2. Top(open) = open[i] /\ Top(jopen) = jopen[i]
          BY <2>1, <3>1, <4>1, TopLemma
        <4> QED BY <1>1, <3>1, <4>2 DEF IInv, Views, TopReplays, Replays,
                                        SameClass
      <3>2. CASE i # Len(open)
        <4>1. i \in 1..Len(open) - 1
          BY <2>1, <2>2, <3>2
        <4> QED BY <1>1, <4>1 DEF IInv, Views, Replays, SameClass
      <3> QED BY <3>1, <3>2
    <2>3. trusted => Ours(jopen)
      BY <1>1 DEF IInv, Firm
    <2> QED BY <2>1, <2>2, <2>3 DEF ReplayLosesOnlyReleases
  <1> QED BY <1>1, Invariance, PTL
=============================================================================
