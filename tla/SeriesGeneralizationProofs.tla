---------------------- MODULE SeriesGeneralizationProofs ----------------------
(***************************************************************************)
(* Proofs about SeriesGeneralization for any commands, any untouched cases   *)
(* and weights, any answers, and any number of deaths and interrupts.        *)
(***************************************************************************)
EXTENDS SeriesGeneralization, FoldLemmas

Sides == {"initial", "final"}
Answer == [kind : {"ok", "unusable", "failed"}, score : Nat]
Ops == Others \cup {"generalize"}
Memory == [op : Ops \cup {"none"}, policy : Policies, calls : Seq(Entries), scores : Seq(Nat),
           answer : Answer \cup {NoFile}, failure : Failures \cup {NoFile},
           then : {"idle", "calling"}]

Made == [call : Range(Schedule), answer : Answer]

FilesTyped ==
  /\ series \in [state : {"active", "stopped"}, attached : BOOLEAN,
                 generalization : {"available", "measuring"} \cup Terminal, budget : Budgets]
  /\ policy \in Policies
  /\ promotion \in {"none", "previewed", "applying", "recovered", "applied"}
  /\ lock \in Procs \cup {Dead, NoLock}
  /\ consumption \in Records \cup {NoFile} /\ artifact \in Artifacts \cup {NoFile}
  /\ ledger \in Seq(Entries) \cup {NoFile}
  /\ called \in Seq(Made)
CommandsTyped == pc \in [Procs -> Points] /\ mem \in [Procs -> Memory]

(* A command that created the consumption record, until it lets the          *)
(* measurement go.                                                          *)
Owner(p) == \/ pc[p] \in {"mark", "bind", "settle"} \cup Measuring
            \/ pc[p] = "release" /\ mem[p].then = "calling"
Fresh(p) == /\ mem[p].calls = <<>> /\ mem[p].scores = <<>> /\ mem[p].failure = NoFile
            /\ pc[p] # "release" => mem[p].then = "idle"

CommandInv(p) ==
  /\ pc[p] # "idle" => mem[p].op \in Ops
  /\ pc[p] \notin Measuring \cup {"bind", "settle", "release"} => Fresh(p)
  /\ pc[p] = "release" /\ Owner(p) => Fresh(p)
  /\ pc[p] = "consume" \/ Owner(p) => (mem[p].policy = "candidate" => promotion = "applied")
  /\ pc[p] = "consume" => Len(Schedule) <= series.budget
  /\ Owner(p) => consumption # NoFile

OneOwner == \A p, q \in Procs : Owner(p) /\ Owner(q) => p = q

(* What the files and the calls made have to do with each other, whoever may   *)
(* be measuring.                                                            *)
CallsInv ==
  /\ consumption = NoFile => ledger = NoFile /\ artifact = NoFile
  /\ consumption # NoFile => Len(Schedule) <= series.budget
  /\ Len(called) <= Len(Schedule)
  /\ \A i \in DOMAIN called : called[i].call = Schedule[i]
  /\ ledger = NoFile => called = <<>>
  /\ ledger # NoFile => /\ Len(ledger) \in Len(called)..Len(called) + 1
                        /\ Len(ledger) <= Len(Schedule)
                        /\ \A i \in DOMAIN ledger : ledger[i].call = Schedule[i]

(* The answers that count, in order, are those of the calls that succeeded.   *)
Counted(i) == called[i].answer.kind = "ok" /\ ledger[i].state = "succeeded"
ScoresOf(scores) ==
  /\ Len(scores) <= Len(called)
  /\ \A i \in DOMAIN called : Counted(i) <=> i <= Len(scores)
  /\ \A i \in DOMAIN scores : scores[i] = called[i].answer.score

(* Where a measurement is, and what its command, the ledger and the providers  *)
(* know of it.                                                              *)
MeasuringAt(p, n) ==
  /\ pc[p] \in {"mark", "release"} => ledger = NoFile
  /\ pc[p] = "calling" => /\ ledger = mem[p].calls \/ (ledger = NoFile /\ n = 0)
                          /\ Len(called) = n /\ Len(mem[p].scores) = n
  /\ pc[p] \in {"asked", "answered", "writing"} =>
       ledger = mem[p].calls /\ n > 0 /\ Len(mem[p].scores) = n - 1
  /\ pc[p] = "asked" => Len(called) = n - 1 /\ ledger[n].state = "started"
  /\ pc[p] = "answered" => /\ Len(called) = n /\ mem[p].answer = called[n].answer
                           /\ ledger[n].state = "started"
  /\ pc[p] \in Measuring \ {"relock"} =>
       /\ mem[p].failure = NoFile <=> pc[p] # "writing"
       /\ ScoresOf(mem[p].scores)
  /\ pc[p] \notin {"relock", "bind", "settle"} => artifact = NoFile
  /\ pc[p] \in {"relock", "bind", "settle"} => artifact # NoFile
  /\ IF pc[p] = "settle" THEN consumption.state \in Terminal ELSE consumption.state = "measuring"

ArtifactInv ==
  artifact # NoFile =>
    /\ ledger # NoFile /\ artifact.calls = Len(ledger)
    /\ artifact.state = State(artifact.matched)
    /\ artifact.state = "measured" <=> artifact.failure = NoFile
    /\ artifact.final = "candidate" => promotion = "applied"
    /\ \E k \in 0..Len(called) :
         LET scores == [i \in 1..k |-> called[i].answer.score]
         IN  /\ ScoresOf(scores) /\ artifact.matched = Matched(scores)
             /\ artifact.gain = Gain(scores, Matched(scores))

BoundInv ==
  /\ consumption # NoFile /\ consumption.state \in Terminal =>
       /\ artifact # NoFile /\ consumption.artifact = artifact
       /\ consumption.state = artifact.state
  /\ series.generalization \in Terminal =>
       /\ consumption # NoFile /\ consumption.state = series.generalization
       /\ \A p \in Procs : ~Owner(p)

MeasureInv ==
  /\ FilesTyped /\ CommandsTyped /\ OneOwner /\ CallsInv /\ ArtifactInv /\ BoundInv
  /\ \A p \in Procs : CommandInv(p) /\ (Owner(p) => MeasuringAt(p, Len(mem[p].calls)))

-----------------------------------------------------------------------------
(* The schedule has four calls a case and names none twice.                   *)
LEMMA ScheduleIs ==
  /\ Len(Order) \in Nat \ {0} /\ Len(Schedule) = 4 * Len(Order)
  /\ Schedule \in Seq(Range(Schedule))
  /\ \A n \in 1..Len(Schedule) : Schedule[n] \in Range(Schedule)
<1>1. Order \in Seq(Range(Order)) /\ Order # <<>>
  BY GeneralizationAssumption
<1>2. Len(Order) \in Nat \ {0}
  <2> HIDE DEF Range
  <2>. QED
    BY <1>1
<1>3. DOMAIN Schedule = 1..4 * Len(Order)
  BY DEF Schedule
<1>4. \A n \in DOMAIN Schedule : Schedule[n] \in Range(Schedule)
  BY DEF Range
<1>5. Schedule = [n \in 1..4 * Len(Order) |-> Schedule[n]]
  BY DEF Schedule
<1> HIDE DEF Schedule
<1>. QED
  BY <1>2, <1>3, <1>4, <1>5

LEMMA CallFields ==
  ASSUME NEW c, NEW s, NEW r, r = [case |-> c, step |-> s]
  PROVE  r.case = c /\ r.step = s
OBVIOUS

LEMMA ScheduleAt ==
  ASSUME NEW n \in 1..Len(Schedule)
  PROVE  /\ (n - 1) \div 4 \in 0..Len(Order) - 1 /\ (n - 1) % 4 \in 0..3
         /\ n = 4 * ((n - 1) \div 4) + ((n - 1) % 4) + 1
         /\ Schedule[n].case = Order[((n - 1) \div 4) + 1]
         /\ Schedule[n].step = Steps[((n - 1) % 4) + 1]
<1>1. Len(Order) \in Nat \ {0} /\ n \in 1..4 * Len(Order)
  <2> HIDE DEF Schedule
  <2>. QED
    BY ScheduleIs
<1>2. /\ (n - 1) \div 4 \in 0..Len(Order) - 1 /\ (n - 1) % 4 \in 0..3
      /\ n = 4 * ((n - 1) \div 4) + ((n - 1) % 4) + 1
  BY <1>1, SMT
<1>3. Schedule[n] = [case |-> Order[((n - 1) \div 4) + 1], step |-> Steps[((n - 1) % 4) + 1]]
  BY <1>1, Zenon DEF Schedule
<1>4. /\ Schedule[n].case = Order[((n - 1) \div 4) + 1]
      /\ Schedule[n].step = Steps[((n - 1) % 4) + 1]
  BY <1>3, CallFields
<1>. QED
  BY <1>2, <1>4, Zenon

LEMMA ScheduleOnce ==
  ASSUME NEW i \in 1..Len(Schedule), NEW j \in 1..Len(Schedule), Schedule[i] = Schedule[j]
  PROVE  i = j
<1> DEFINE a == (i - 1) \div 4
           b == (j - 1) \div 4
           c == (i - 1) % 4
           d == (j - 1) % 4
<1>1. /\ a \in 0..Len(Order) - 1 /\ c \in 0..3 /\ i = 4 * a + c + 1
      /\ b \in 0..Len(Order) - 1 /\ d \in 0..3 /\ j = 4 * b + d + 1
  BY ScheduleAt
<1>2. Order[a + 1] = Order[b + 1] /\ Steps[c + 1] = Steps[d + 1]
  <2>1. Schedule[i].case = Order[a + 1] /\ Schedule[i].step = Steps[c + 1]
    BY ScheduleAt, Zenon
  <2>2. Schedule[j].case = Order[b + 1] /\ Schedule[j].step = Steps[d + 1]
    BY ScheduleAt, Zenon
  <2>. QED
    BY <2>1, <2>2, Zenon
<1> HIDE DEF a, b, c, d
<1>3. a + 1 \in DOMAIN Order /\ b + 1 \in DOMAIN Order
  BY <1>1, GeneralizationAssumption
<1>4. a + 1 = b + 1
  BY <1>2, <1>3, GeneralizationAssumption DEF IsInjective
<1>5. c = d
  BY <1>1, <1>2 DEF Steps
<1>. QED
  BY <1>1, <1>4, <1>5

-----------------------------------------------------------------------------
(* Calls and the memory of a command.                                        *)
LEMMA EndingIs ==
  ASSUME NEW calls \in Seq(Entries), Len(calls) > 0, NEW s \in {"started", "succeeded", "failed"},
         NEW e, e = [calls EXCEPT ![Len(calls)].state = s]
  PROVE  /\ e \in Seq(Entries) /\ Len(e) = Len(calls)
         /\ \A i \in DOMAIN calls : e[i].call = calls[i].call
         /\ e[Len(calls)].state = s
         /\ \A i \in 1..Len(calls) - 1 : e[i] = calls[i]
<1>1. calls[Len(calls)] \in Entries
  OBVIOUS
<1>2. [calls[Len(calls)] EXCEPT !.state = s] \in Entries
  BY <1>1 DEF Entries
<1>3. [calls[Len(calls)] EXCEPT !.state = s].call = calls[Len(calls)].call
  BY <1>1 DEF Entries
<1>4. [calls[Len(calls)] EXCEPT !.state = s].state = s
  BY <1>1 DEF Entries
<1>. QED
  BY <1>2, <1>3, <1>4

LEMMA NewEntry ==
  ASSUME NEW c \in Range(Schedule)
  PROVE  [call |-> c, state |-> "started"] \in Entries
BY DEF Entries

LEMMA MemoryUpdates ==
  ASSUME NEW k \in Memory
  PROVE  /\ \A x \in Seq(Entries) : [k EXCEPT !.calls = x] \in Memory
         /\ \A x \in Answer : [k EXCEPT !.answer = x] \in Memory
         /\ \A x \in {"idle", "calling"} : [k EXCEPT !.then = x] \in Memory
         /\ \A x \in Failures : \A y \in Seq(Entries) :
              [k EXCEPT !.failure = x, !.calls = y] \in Memory
         /\ \A x \in Seq(Nat) : \A y \in Seq(Entries) :
              [k EXCEPT !.calls = y, !.scores = x] \in Memory
BY DEF Memory

LEMMA NoMemTyped ==
  /\ NoMem \in Memory
  /\ \A op \in Ops : \A f \in Policies : [NoMem EXCEPT !.op = op, !.policy = f] \in Memory
<1>1. NoMem \in Memory
  BY DEF NoMem, Memory, Policies
<1>2. ASSUME NEW op \in Ops, NEW f \in Policies
      PROVE  [NoMem EXCEPT !.op = op, !.policy = f] \in Memory
  BY <1>1 DEF Memory
<1>. QED
  BY <1>1, <1>2

LEMMA AnswersTyped ==
  ASSUME NEW r, NEW a \in Answers(r)
  PROVE  a \in Answer
<1>1. Scores \subseteq Nat
  BY GeneralizationAssumption
<1>3. \/ a \in [kind : {"ok"}, score : IF r = "actor" THEN {0} ELSE Scores]
      \/ a \in [kind : {"unusable", "failed"}, score : {0}]
  BY Zenon DEF Answers
<1> DEFINE Possible == IF r = "actor" THEN {0} ELSE Scores
<1>4. Possible \subseteq Nat
  BY <1>1
<1> HIDE DEF Possible
<1>5. CASE a \in [kind : {"ok"}, score : Possible]
  BY <1>4, <1>5 DEF Answer
<1>6. CASE a \in [kind : {"unusable", "failed"}, score : {0}]
  BY <1>6 DEF Answer
<1>. QED
  BY <1>3, <1>5, <1>6 DEF Possible

LEMMA RecordsTyped ==
  /\ [state |-> "measuring", artifact |-> NoFile] \in Records
  /\ \A a \in Artifacts : [state |-> a.state, artifact |-> a] \in Records
  /\ \A a \in Artifacts : a.state \in Terminal
BY DEF Records, Artifacts

LEMMA NoneIsAbsent ==
  /\ \A r \in Records : r # NoFile
  /\ \A a \in Artifacts : a # NoFile
  /\ \A q \in Seq(Entries) : q # NoFile
  /\ \A f \in Failures : f # NoFile
BY GeneralizationAssumption

-----------------------------------------------------------------------------
(* What a step does to the commands: none but those of P moves.               *)
Still(P) == \A q \in Procs \ P : pc'[q] = pc[q] /\ mem'[q] = mem[q]

LEMMA GotoIs ==
  ASSUME CommandsTyped, NEW p \in Procs, NEW l \in Points, Goto(p, l)
  PROVE  /\ CommandsTyped' /\ Still({p}) /\ pc'[p] = l
         /\ l = "idle" => mem'[p] = NoMem
         /\ l # "idle" => mem'[p] = mem[p]
BY NoMemTyped DEF CommandsTyped, Goto, Still

LEMMA PutIs ==
  ASSUME CommandsTyped, NEW p \in Procs, NEW l \in Points, NEW k \in Memory,
         pc' = [pc EXCEPT ![p] = l], mem' = [mem EXCEPT ![p] = k]
  PROVE  CommandsTyped' /\ Still({p}) /\ pc'[p] = l /\ mem'[p] = k
BY DEF CommandsTyped, Still

Calm ==
  /\ consumption' = consumption /\ ledger' = ledger /\ artifact' = artifact
  /\ called' = called /\ series'.budget = series.budget
  /\ promotion = "applied" => promotion' = "applied"
  /\ series'.generalization = series.generalization \/ series'.generalization \notin Terminal

LEMMA OthersStay ==
  ASSUME NEW P, Still(P), NEW q \in Procs \ P
  PROVE  /\ Owner(q)' <=> Owner(q)
         /\ Fresh(q)' <=> Fresh(q)
BY DEF Still, Owner, Fresh

LEMMA OthersCommandInv ==
  ASSUME NEW P, Still(P), NEW q \in Procs \ P, CommandInv(q),
         series'.budget = series.budget, promotion = "applied" => promotion' = "applied",
         consumption # NoFile => consumption' # NoFile
  PROVE  CommandInv(q)'
<1>1. (Owner(q)' <=> Owner(q)) /\ (Fresh(q)' <=> Fresh(q))
  BY OthersStay
<1>2. pc'[q] = pc[q] /\ mem'[q] = mem[q]
  BY DEF Still
<1>. QED
  BY <1>1, <1>2 DEF CommandInv

(* A step that touches no file of the measurement keeps the invariant if it    *)
(* does for the command that moves.                                          *)
LEMMA CalmStep ==
  ASSUME MeasureInv, NEW P, P \subseteq Procs, FilesTyped', CommandsTyped', Still(P), Calm,
         \A p \in P : /\ CommandInv(p)'
                      /\ Owner(p)' => Owner(p) /\ MeasuringAt(p, Len(mem[p].calls))'
  PROVE  MeasureInv'
<1>1. \A q \in Procs : Owner(q)' => Owner(q)
  BY OthersStay
<1>2. OneOwner'
  BY <1>1 DEF MeasureInv, OneOwner
<1>3. CallsInv'
  BY DEF MeasureInv, CallsInv, Calm
<1>4. ArtifactInv'
  BY DEF MeasureInv, ArtifactInv, ScoresOf, Counted, Calm
<1>5. BoundInv'
  BY <1>1 DEF MeasureInv, BoundInv, Calm
<1>6. ASSUME NEW q \in Procs
      PROVE  CommandInv(q)' /\ (Owner(q)' => MeasuringAt(q, Len(mem[q].calls))')
  <2>1. CASE q \in P
    BY <2>1
  <2>2. CASE q \notin P
    <3>1. CommandInv(q)'
      BY <2>2, OthersCommandInv DEF MeasureInv, Calm
    <3>2. pc'[q] = pc[q] /\ mem'[q] = mem[q]
      BY <2>2 DEF Still
    <3>3. MeasuringAt(q, Len(mem[q].calls)) => MeasuringAt(q, Len(mem[q].calls))'
      BY <3>2 DEF MeasuringAt, ScoresOf, Counted, Calm
    <3>. QED
      BY <1>1, <3>1, <3>3 DEF MeasureInv
  <2>. QED
    BY <2>1, <2>2
<1>. QED
  BY <1>2, <1>3, <1>4, <1>5, <1>6 DEF MeasureInv

(* A step of the command that measures, or of the one that creates the         *)
(* consumption record.                                                      *)
LEMMA OwnStep ==
  ASSUME MeasureInv, NEW p \in Procs, FilesTyped', CommandsTyped', Still({p}),
         Owner(p) \/ consumption = NoFile, consumption' # NoFile,
         series' = series, promotion' = promotion,
         CommandInv(p)', Owner(p)' => MeasuringAt(p, Len(mem[p].calls))',
         CallsInv', ArtifactInv',
         consumption'.state \in Terminal => /\ artifact' # NoFile /\ consumption'.artifact = artifact'
                                           /\ consumption'.state = artifact'.state
  PROVE  MeasureInv'
<1>1. \A q \in Procs \ {p} : ~Owner(q)
  BY DEF MeasureInv, OneOwner, CommandInv
<1>2. \A q \in Procs \ {p} : ~Owner(q)'
  BY <1>1, OthersStay
<1>3. OneOwner'
  BY <1>2 DEF OneOwner
<1>4. series.generalization \notin Terminal
  BY DEF MeasureInv, BoundInv
<1>5. BoundInv'
  BY <1>4 DEF BoundInv
<1>6. ASSUME NEW q \in Procs
      PROVE  CommandInv(q)' /\ (Owner(q)' => MeasuringAt(q, Len(mem[q].calls))')
  <2>1. CASE q = p
    BY <2>1
  <2>2. CASE q # p
    BY <1>2, <2>2, OthersCommandInv DEF MeasureInv
  <2>. QED
    BY <2>1, <2>2
<1>. QED
  BY <1>3, <1>5, <1>6 DEF MeasureInv

-----------------------------------------------------------------------------
(* The steps that leave the files of the measurement alone.                   *)
Quiet == UNCHANGED <<series, profile, records, called>>

LEMMA QuietIsCalm ==
  ASSUME MeasureInv, Quiet, lock' \in Procs \cup {Dead, NoLock}
  PROVE  Calm /\ FilesTyped'
BY DEF Quiet, profile, records, Calm, MeasureInv, FilesTyped

LEMMA PointsAre ==
  /\ {"idle", "verify", "recover", "unlink", "lock", "preflight", "consume", "mark", "bind", "settle",
      "release", "stop", "reconcile", "calling", "asked", "answered", "writing", "relock"} = Points
  /\ Others = {"stop", "reconcile"} /\ Ops = {"stop", "reconcile", "generalize"}
BY DEF Points, Locked, Measuring, Others, Ops

(* A step to where a command is not, or no longer, its measurement's.          *)
LEMMA QuietGoto ==
  ASSUME MeasureInv, NEW p \in Procs, NEW l \in Points, Quiet, Goto(p, l),
         lock' \in Procs \cup {Dead, NoLock},
         pc[p] \in {"verify", "recover", "unlink", "lock", "preflight", "consume", "stop", "reconcile"}
           \/ l = "idle",
         l \in {"idle", "recover", "unlink", "lock", "preflight", "consume", "stop", "reconcile", "release"},
         l = "consume" => Eligible(p)
  PROVE  MeasureInv'
<1>1. /\ CommandsTyped' /\ Still({p}) /\ pc'[p] = l
      /\ l = "idle" => mem'[p] = NoMem
      /\ l # "idle" => mem'[p] = mem[p]
  BY GotoIs DEF MeasureInv
<1>2. Calm /\ FilesTyped'
  BY QuietIsCalm
<1>3. l # "idle" => Fresh(p) /\ mem[p].then = "idle" /\ mem[p].op \in Ops
  BY DEF MeasureInv, CommandInv, Fresh, Measuring
<1>4. ~Owner(p)'
  BY <1>1, <1>3 DEF Owner, Measuring
<1>5. Fresh(p)'
  BY <1>1, <1>3 DEF Fresh, NoMem
<1>6. l = "consume" => /\ Len(Schedule) <= series'.budget
                       /\ mem[p].policy = "candidate" => promotion' = "applied"
  BY ScheduleIs DEF Eligible, ExpectedPolicy, Quiet, profile
<1>7. CommandInv(p)'
  BY <1>1, <1>3, <1>4, <1>5, <1>6 DEF CommandInv
<1>. QED
  BY <1>1, <1>2, <1>4, <1>7, CalmStep

LEMMA OpenStep ==
  ASSUME MeasureInv, NEW p \in Procs, Open(p)
  PROVE  MeasureInv'
<1>1. PICK op \in Ops :
        /\ mem' = [mem EXCEPT ![p] = [NoMem EXCEPT !.op = op, !.policy = policy]]
        /\ pc' = [pc EXCEPT ![p] = CASE op = "generalize" -> "verify"
                                     [] op = "reconcile" -> "recover" [] OTHER -> "lock"]
  BY DEF Open, Ops
<1>2. Quiet /\ lock' = lock
  BY DEF Open, World, Quiet
<1>3. Calm /\ FilesTyped'
  BY <1>2, QuietIsCalm DEF MeasureInv, FilesTyped
<1> DEFINE k == [NoMem EXCEPT !.op = op, !.policy = policy]
<1>4. PICK l \in {"verify", "recover", "lock"} : pc' = [pc EXCEPT ![p] = l]
  BY <1>1
<1>5. k \in Memory
  BY NoMemTyped DEF MeasureInv, FilesTyped
<1>6. CommandsTyped' /\ Still({p}) /\ pc'[p] = l /\ mem'[p] = k
  BY <1>1, <1>4, <1>5, PutIs, PointsAre DEF MeasureInv
<1>7. /\ k.op \in Ops /\ k.calls = <<>> /\ k.scores = <<>> /\ k.failure = NoFile
      /\ k.then = "idle"
  BY DEF NoMem
<1> HIDE DEF k
<1>8. ~Owner(p)' /\ Fresh(p)'
  BY <1>6, <1>7 DEF Owner, Measuring, Fresh
<1>9. CommandInv(p)'
  BY <1>6, <1>7, <1>8 DEF CommandInv
<1>. QED
  BY <1>3, <1>6, <1>8, <1>9, CalmStep

LEMMA CommandStep ==
  ASSUME MeasureInv, NEW p \in Procs,
         Verify(p) \/ FindStale(p) \/ UnlinkStale(p) \/ Lock(p) \/ Preflight(p)
  PROVE  MeasureInv'
<1>0. lock \in Procs \cup {Dead, NoLock} /\ mem[p].op \in Ops \cup {"none"}
  BY DEF MeasureInv, FilesTyped, CommandsTyped, Memory
<1>1. CASE Verify(p)
  <2>1. Quiet /\ lock' = lock /\ pc[p] = "verify"
    BY <1>1 DEF Verify, World, Quiet
  <2>2. PICK l \in {"idle", "recover"} : Goto(p, l)
    BY <1>1 DEF Verify
  <2>. QED
    BY <1>0, <2>1, <2>2, QuietGoto, PointsAre
<1>2. CASE FindStale(p)
  <2>1. Quiet /\ lock' = lock /\ pc[p] = "recover"
    BY <1>2 DEF FindStale, World, Quiet
  <2>2. PICK l \in {"idle", "lock", "unlink"} : Goto(p, l)
    BY <1>2 DEF FindStale
  <2>. QED
    BY <1>0, <2>1, <2>2, QuietGoto, PointsAre
<1>3. CASE UnlinkStale(p)
  <2>1. Quiet /\ lock' = NoLock /\ pc[p] = "unlink" /\ Goto(p, "lock")
    BY <1>3 DEF UnlinkStale, World, Quiet
  <2>. QED
    BY <2>1, QuietGoto, PointsAre
<1>4. CASE Lock(p)
  <2>1. Quiet /\ pc[p] = "lock" /\ lock' \in {lock, p}
    BY <1>4 DEF Lock, TakeLock, Leave, World, Quiet
  <2>2. mem[p].op \in Ops
    BY <2>1 DEF MeasureInv, CommandInv
  <2>3. PICK l \in {"idle", "preflight", "stop", "reconcile"} : Goto(p, l)
    BY <1>4, <2>2, PointsAre DEF Lock, TakeLock, Leave
  <2>. QED
    BY <1>0, <2>1, <2>3, QuietGoto, PointsAre
<1>5. CASE Preflight(p)
  <2>1. Quiet /\ lock' = lock /\ pc[p] = "preflight"
    BY <1>5 DEF Preflight, World, Quiet
  <2>2. PICK l \in {"consume", "release"} : Goto(p, l) /\ (l = "consume" => Eligible(p))
    BY <1>5 DEF Preflight
  <2>. QED
    BY <1>0, <2>1, <2>2, QuietGoto, PointsAre
<1>. QED
  BY <1>1, <1>2, <1>3, <1>4, <1>5

LEMMA LeaveIs ==
  ASSUME MeasureInv, NEW p \in Procs, Leave(p)
  PROVE  /\ CommandsTyped' /\ Still({p}) /\ pc'[p] = "idle" /\ mem'[p] = NoMem
         /\ ~Owner(p)' /\ CommandInv(p)'
<1>1. CommandsTyped' /\ Still({p}) /\ pc'[p] = "idle" /\ mem'[p] = NoMem
  BY GotoIs, PointsAre DEF Leave, MeasureInv
<1>2. ~Owner(p)' /\ Fresh(p)'
  BY <1>1 DEF Owner, Measuring, Fresh, NoMem
<1>. QED
  BY <1>1, <1>2 DEF CommandInv

LEMMA ReleaseStep ==
  ASSUME MeasureInv, NEW p \in Procs, Release(p)
  PROVE  MeasureInv'
<1>1. /\ Quiet /\ lock' = NoLock /\ pc[p] = "release" /\ Goto(p, mem[p].then)
      /\ mem[p].then \in {"idle", "calling"}
  BY DEF Release, World, Quiet, MeasureInv, CommandsTyped, Memory
<1>2. Calm /\ FilesTyped'
  BY <1>1, QuietIsCalm
<1>3. CASE mem[p].then = "idle"
  <2>1. Leave(p)
    BY <1>1, <1>3 DEF Leave
  <2>. QED
    BY <1>2, <2>1, LeaveIs, CalmStep
<1>4. CASE mem[p].then = "calling"
  <2>1. CommandsTyped' /\ Still({p}) /\ pc'[p] = "calling" /\ mem'[p] = mem[p]
    BY <1>1, <1>4, GotoIs, PointsAre DEF MeasureInv
  <2>2. Owner(p) /\ Owner(p)' /\ CommandInv(p) /\ MeasuringAt(p, Len(mem[p].calls))
    BY <1>1, <1>4, <2>1 DEF Owner, Measuring, MeasureInv
  <2>3. Fresh(p) /\ Len(mem[p].calls) = 0 /\ Len(mem[p].scores) = 0 /\ mem[p].failure = NoFile
    BY <1>1, <2>2 DEF CommandInv, Fresh
  <2>4. CommandInv(p)'
    BY <1>1, <1>2, <2>1, <2>2 DEF CommandInv, Measuring, Calm
  <2>5. ledger = NoFile /\ called = <<>> /\ artifact = NoFile /\ consumption.state = "measuring"
    BY <1>1, <2>2 DEF MeasuringAt, MeasureInv, CallsInv
  <2>6. ScoresOf(mem[p].scores)'
    BY <1>2, <2>1, <2>3, <2>5 DEF ScoresOf, Calm
  <2>7. MeasuringAt(p, Len(mem[p].calls))'
    BY <1>2, <2>1, <2>3, <2>5, <2>6 DEF MeasuringAt, Calm
  <2>. QED
    BY <1>2, <2>1, <2>2, <2>4, <2>7, CalmStep
<1>. QED
  BY <1>1, <1>3, <1>4

LEMMA OtherCommandStep ==
  ASSUME MeasureInv, NEW p \in Procs, Stop(p) \/ Reconcile(p)
  PROVE  MeasureInv'
<1>1. /\ pc[p] \in {"stop", "reconcile"} /\ Goto(p, "release") /\ World /\ UNCHANGED <<lock, records>>
      /\ \/ series' = series
         \/ series' = [series EXCEPT !.state = "stopped"]
         \/ series' = [series EXCEPT !.attached = TRUE]
  BY DEF Stop, Reconcile
<1>2. Calm /\ FilesTyped'
  BY <1>1 DEF World, profile, records, Calm, FilesTyped, MeasureInv
<1>3. CommandsTyped' /\ Still({p}) /\ pc'[p] = "release" /\ mem'[p] = mem[p]
  BY <1>1, GotoIs, PointsAre DEF MeasureInv
<1>4. Fresh(p) /\ mem[p].then = "idle" /\ mem[p].op \in Ops
  BY <1>1 DEF MeasureInv, CommandInv, Fresh, Measuring
<1>5. ~Owner(p)' /\ Fresh(p)'
  BY <1>3, <1>4 DEF Owner, Measuring, Fresh
<1>6. CommandInv(p)'
  BY <1>3, <1>4, <1>5 DEF CommandInv
<1>. QED
  BY <1>2, <1>3, <1>5, <1>6, CalmStep

LEMMA MarkStep ==
  ASSUME MeasureInv, NEW p \in Procs, Mark(p)
  PROVE  MeasureInv'
<1> DEFINE k == [mem[p] EXCEPT !.then = "calling"]
<1>1. /\ pc[p] = "mark" /\ World /\ UNCHANGED <<lock, records>>
      /\ series' = [series EXCEPT !.generalization = "measuring"]
      /\ pc' = [pc EXCEPT ![p] = "release"] /\ mem' = [mem EXCEPT ![p] = k]
  BY DEF Mark
<1>2. Calm /\ FilesTyped'
  BY <1>1 DEF World, profile, records, Calm, FilesTyped, MeasureInv, Terminal
<1>3. mem[p] \in Memory /\ k \in Memory
  BY MemoryUpdates DEF MeasureInv, CommandsTyped
<1>4. CommandsTyped' /\ Still({p}) /\ pc'[p] = "release" /\ mem'[p] = k
  BY <1>1, <1>3, PutIs, PointsAre DEF MeasureInv
<1>5. /\ k.op = mem[p].op /\ k.calls = mem[p].calls /\ k.scores = mem[p].scores
      /\ k.failure = mem[p].failure /\ k.policy = mem[p].policy
  BY <1>3 DEF Memory
<1> HIDE DEF k
<1>6. Owner(p) /\ CommandInv(p) /\ Fresh(p) /\ MeasuringAt(p, Len(mem[p].calls))
  BY <1>1 DEF MeasureInv, Owner, CommandInv, Measuring
<1>7. Fresh(p)'
  BY <1>4, <1>5, <1>6 DEF Fresh
<1>8. CommandInv(p)'
  BY <1>1, <1>2, <1>4, <1>5, <1>6, <1>7 DEF CommandInv, Calm
<1>9. MeasuringAt(p, Len(mem[p].calls))'
  BY <1>1, <1>2, <1>4, <1>5, <1>6 DEF MeasuringAt, Calm, Measuring
<1>. QED
  BY <1>2, <1>4, <1>6, <1>8, <1>9, CalmStep

LEMMA RelockStep ==
  ASSUME MeasureInv, NEW p \in Procs, Relock(p)
  PROVE  MeasureInv'
<1>1. Quiet /\ pc[p] = "relock" /\ lock' \in {lock, p} /\ (Leave(p) \/ Goto(p, "bind"))
  BY DEF Relock, TakeLock, World, Quiet
<1>2. Calm /\ FilesTyped'
  BY <1>1, QuietIsCalm DEF MeasureInv, FilesTyped
<1>3. CASE Leave(p)
  BY <1>2, <1>3, LeaveIs, CalmStep
<1>4. CASE Goto(p, "bind")
  <2>1. CommandsTyped' /\ Still({p}) /\ pc'[p] = "bind" /\ mem'[p] = mem[p]
    BY <1>4, GotoIs, PointsAre DEF MeasureInv
  <2>2. Owner(p) /\ Owner(p)' /\ CommandInv(p) /\ MeasuringAt(p, Len(mem[p].calls))
    BY <1>1, <2>1 DEF Owner, Measuring, MeasureInv
  <2>3. CommandInv(p)'
    BY <1>1, <1>2, <2>1, <2>2 DEF CommandInv, Measuring, Calm
  <2>4. MeasuringAt(p, Len(mem[p].calls))'
    BY <1>1, <1>2, <2>1, <2>2 DEF MeasuringAt, Calm, Measuring
  <2>. QED
    BY <1>2, <2>1, <2>2, <2>3, <2>4, CalmStep
<1>. QED
  BY <1>1, <1>3, <1>4

LEMMA KillStep ==
  ASSUME MeasureInv, NEW p \in Procs, Kill(p)
  PROVE  MeasureInv'
<1>1. Quiet /\ Leave(p) /\ lock' \in {lock, Dead}
  BY DEF Kill, Quiet
<1>2. Calm /\ FilesTyped'
  BY <1>1, QuietIsCalm DEF MeasureInv, FilesTyped
<1>. QED
  BY <1>1, <1>2, LeaveIs, CalmStep

LEMMA PromotionStep ==
  ASSUME MeasureInv, Promotion
  PROVE  MeasureInv'
<1>1. /\ UNCHANGED <<series, lock, records, pc, mem, called>>
      /\ policy' \in Policies
      /\ promotion' \in {"none", "previewed", "applying", "recovered", "applied"}
      /\ promotion # "applied"
  BY DEF Promotion, BeginPromotion, ReplaceFiles, CommitPromotion, RecoverPromotion, MeasureInv,
         FilesTyped, Policies
<1>2. Calm /\ FilesTyped' /\ CommandsTyped' /\ Still({})
  BY <1>1 DEF Calm, FilesTyped, CommandsTyped, Still, MeasureInv, records
<1>. QED
  BY <1>2, CalmStep

-----------------------------------------------------------------------------
(* The running sums of a sequence.                                           *)
Running(f, values) ==
  /\ f \in [0..Len(values) -> Int] /\ f[0] = 0
  /\ \A n \in 1..Len(values) : f[n] = f[n - 1] + values[n]

LEMMA RunningExists ==
  ASSUME NEW values \in Seq(Int)
  PROVE  \E f : Running(f, values)
<1> DEFINE Upto(f, n) == /\ f \in [0..n -> Int] /\ f[0] = 0
                         /\ \A m \in 1..n : f[m] = f[m - 1] + values[m]
           Some(n) == n <= Len(values) => \E f : Upto(f, n)
           Good == {n \in Nat : Some(n)}
<1>1. 0 \in Good
  <2>1. Upto([m \in 0..0 |-> 0], 0)
    OBVIOUS
  <2>. QED
    BY <2>1
<1>2. ASSUME NEW n \in Nat, n \in Good PROVE n + 1 \in Good
  <2>1. Some(n)
    <3> HIDE DEF Some
    <3>. QED
      BY <1>2
  <2>2. ASSUME n + 1 <= Len(values) PROVE \E f : Upto(f, n + 1)
    <3>1. \E f : Upto(f, n)
      <4>1. n <= Len(values)
        BY <2>2
      <4> HIDE DEF Upto
      <4>. QED
        BY <2>1, <4>1
    <3>2. PICK f : Upto(f, n)
      <4> HIDE DEF Upto
      <4>. QED
        BY <3>1
    <3>3. values[n + 1] \in Int
      BY <2>2
    <3> DEFINE g == [m \in 0..n + 1 |-> IF m = n + 1 THEN f[n] + values[n + 1] ELSE f[m]]
    <3>4. g \in [0..n + 1 -> Int] /\ g[0] = 0
      BY <3>2, <3>3
    <3>5. ASSUME NEW m \in 1..n + 1 PROVE g[m] = g[m - 1] + values[m]
      BY <3>2
    <3>6. Upto(g, n + 1)
      BY <3>4, <3>5
    <3> HIDE DEF Upto, g
    <3>. QED
      BY <3>6
  <2>3. Some(n + 1)
    BY <2>2
  <2> HIDE DEF Some
  <2>. QED
    BY <2>3
<1>3. Nat \subseteq Good
  <2> HIDE DEF Good
  <2>. QED
    BY <1>1, <1>2, NatInSet
<1>4. Len(values) \in Nat
  OBVIOUS
<1>5. Some(Len(values))
  BY <1>3, <1>4
<1>. QED
  BY <1>4, <1>5 DEF Running

LEMMA WeightedSumIs ==
  ASSUME NEW values \in Seq(Int)
  PROVE  \E f : Running(f, values) /\ WeightedSum(values) = f[Len(values)]
<1> DEFINE Eq(f) == f = [n \in 0..Len(values) |-> IF n = 0 THEN 0 ELSE f[n - 1] + values[n]]
           sum == CHOOSE f : Eq(f)
<1>0. Len(values) \in Nat /\ \A n \in 1..Len(values) : values[n] \in Int
  OBVIOUS
<1>1. PICK f : Running(f, values)
  BY RunningExists
<1>2. Eq(f)
  BY <1>0, <1>1 DEF Running
<1>3. Eq(sum)
  BY <1>2
<1>4. WeightedSum(values) = sum[Len(values)]
  BY DEF WeightedSum
<1> HIDE DEF sum
<1>5. sum[0] = 0 /\ \A n \in 1..Len(values) : sum[n] = sum[n - 1] + values[n]
  BY <1>0, <1>3
<1> DEFINE Good == {n \in Nat : n <= Len(values) => sum[n] \in Int}
<1>6. 0 \in Good
  BY <1>5
<1>7. ASSUME NEW n \in Nat, n \in Good PROVE n + 1 \in Good
  <2> SUFFICES ASSUME n + 1 <= Len(values) PROVE sum[n + 1] \in Int
    OBVIOUS
  <2>1. sum[n + 1] = sum[n] + values[n + 1] /\ sum[n] \in Int /\ values[n + 1] \in Int
    BY <1>0, <1>5, <1>7
  <2>. QED
    BY <2>1
<1>8. Nat \subseteq Good
  <2> HIDE DEF Good
  <2>. QED
    BY <1>6, <1>7, NatInSet
<1>9. \A n \in 0..Len(values) : sum[n] \in Int
  BY <1>0, <1>8
<1>10. sum \in [0..Len(values) -> Int]
  BY <1>3, <1>9
<1>. QED
  BY <1>4, <1>5, <1>10 DEF Running

Gains(scores, n) == [i \in 1..n |-> Weight[Order[i]] * (scores[4 * i] - scores[4 * i - 2])]
Weights(n) == [i \in 1..n |-> Weight[Order[i]]]

LEMMA SequenceOfIntegers ==
  ASSUME NEW n \in Nat, NEW v, v = [i \in 1..n |-> v[i]], \A i \in 1..n : v[i] \in Int
  PROVE  v \in Seq(Int) /\ Len(v) = n
OBVIOUS

LEMMA WeightsAre ==
  ASSUME NEW i \in 1..Len(Order)
  PROVE  Weight[Order[i]] \in Int
BY GeneralizationAssumption

LEMMA SameAlong ==
  ASSUME NEW n, NEW f, f = [i \in 1..n |-> f[i]], NEW g, g = [i \in 1..n |-> g[i]],
         \A i \in 1..n : f[i] = g[i]
  PROVE  f = g
OBVIOUS

LEMMA GainIs ==
  ASSUME NEW scores \in Seq(Nat), Len(scores) <= Len(Schedule), NEW n, n = Matched(scores)
  PROVE  /\ n \in 0..Len(Order) /\ 4 * n <= Len(scores) /\ Len(scores) < 4 * n + 4
         /\ Gains(scores, n) \in Seq(Int) /\ Len(Gains(scores, n)) = n
         /\ Weights(n) \in Seq(Int) /\ Len(Weights(n)) = n
         /\ Gain(scores, n) = [sum |-> WeightedSum(Gains(scores, n)), weight |-> WeightedSum(Weights(n))]
         /\ Gain(scores, n) \in [sum : Int, weight : Int]
<1>1. Len(Order) \in Nat \ {0} /\ Len(Schedule) = 4 * Len(Order) /\ Len(scores) \in Nat
  <2> HIDE DEF Schedule
  <2>. QED
    BY ScheduleIs
<1>2. n = Len(scores) \div 4
  BY DEF Matched
<1>3. n \in 0..Len(Order) /\ 4 * n <= Len(scores) /\ Len(scores) < 4 * n + 4
  <2> HIDE DEF Schedule
  <2>. QED
    BY <1>1, <1>2, SMT
<1>0. n \in Nat
  BY <1>1, <1>3
<1>4. \A i \in 1..n : Weight[Order[i]] \in Int
  BY <1>1, <1>3, GeneralizationAssumption
<1>5. \A i \in 1..n : scores[4 * i] - scores[4 * i - 2] \in Int
  <2> SUFFICES ASSUME NEW i \in 1..n PROVE scores[4 * i] \in Nat /\ scores[4 * i - 2] \in Nat
    OBVIOUS
  <2>1. 4 * i \in 1..Len(scores) /\ 4 * i - 2 \in 1..Len(scores)
    BY <1>1, <1>3
  <2>. QED
    BY <2>1
<1>6. \A i \in 1..n : Weight[Order[i]] * (scores[4 * i] - scores[4 * i - 2]) \in Int
  <2> SUFFICES ASSUME NEW i \in 1..n
               PROVE  Weight[Order[i]] * (scores[4 * i] - scores[4 * i - 2]) \in Int
    OBVIOUS
  <2>1. PICK a \in Int : a = Weight[Order[i]]
    BY <1>4
  <2>2. PICK b \in Int : b = scores[4 * i] - scores[4 * i - 2]
    BY <1>5
  <2>3. a * b \in Int
    OBVIOUS
  <2>. QED
    BY <2>1, <2>2, <2>3
<1>7. Gains(scores, n) \in Seq(Int) /\ Len(Gains(scores, n)) = n
  <2>1. /\ Gains(scores, n) = [i \in 1..n |-> Gains(scores, n)[i]]
        /\ \A i \in 1..n : Gains(scores, n)[i] \in Int
    BY <1>6, Zenon DEF Gains
  <2>. QED
    BY <1>0, <2>1, SequenceOfIntegers
<1>8. Weights(n) \in Seq(Int) /\ Len(Weights(n)) = n
  <2>1. /\ Weights(n) = [i \in 1..n |-> Weights(n)[i]]
        /\ \A i \in 1..n : Weights(n)[i] \in Int
    BY <1>4, Zenon DEF Weights
  <2>. QED
    BY <1>0, <2>1, SequenceOfIntegers
<1>9. Gain(scores, n) = [sum |-> WeightedSum(Gains(scores, n)), weight |-> WeightedSum(Weights(n))]
  BY Zenon DEF Gain, Gains, Weights
<1>10. WeightedSum(Gains(scores, n)) \in Int /\ WeightedSum(Weights(n)) \in Int
  <2>1. \A v \in Seq(Int) : WeightedSum(v) \in Int
    <3> SUFFICES ASSUME NEW v \in Seq(Int) PROVE WeightedSum(v) \in Int
      OBVIOUS
    <3>1. PICK f : Running(f, v) /\ WeightedSum(v) = f[Len(v)]
      BY WeightedSumIs
    <3>2. Len(v) \in Nat /\ f \in [0..Len(v) -> Int]
      BY <3>1 DEF Running
    <3>. QED
      BY <3>1, <3>2
  <2>. QED
    BY <1>7, <1>8, <2>1
<1>11. Gain(scores, n) \in [sum : Int, weight : Int]
  BY <1>9, <1>10
<1>. QED
  BY <1>3, <1>7, <1>8, <1>9, <1>11

-----------------------------------------------------------------------------
(* The steps of the command that measures.                                   *)
LEMMA OwnerHas ==
  ASSUME MeasureInv, NEW p \in Procs, pc[p] \in {"mark", "bind", "settle"} \cup Measuring
  PROVE  /\ Owner(p) /\ CommandInv(p) /\ MeasuringAt(p, Len(mem[p].calls))
         /\ mem[p] \in Memory /\ mem[p].calls \in Seq(Entries) /\ mem[p].scores \in Seq(Nat)
         /\ consumption # NoFile /\ Len(mem[p].calls) \in Nat /\ Len(mem[p].scores) \in Nat
         /\ Len(called) \in Nat /\ Len(Schedule) \in Nat
<1>1. Owner(p) /\ CommandInv(p) /\ MeasuringAt(p, Len(mem[p].calls))
  BY DEF Owner, MeasureInv
<1>2. mem[p] \in Memory
  BY DEF MeasureInv, CommandsTyped
<1>3. mem[p].calls \in Seq(Entries) /\ mem[p].scores \in Seq(Nat)
  BY <1>2 DEF Memory
<1>4. consumption # NoFile
  BY <1>1 DEF CommandInv
<1>5. Len(called) \in Nat
  BY DEF MeasureInv, FilesTyped
<1>6. Len(Schedule) \in Nat
  BY ScheduleIs
<1>. QED
  BY <1>1, <1>2, <1>3, <1>4, <1>5, <1>6

LEMMA OwnerCommandInv ==
  ASSUME NEW p \in Procs, CommandInv(p), Owner(p), pc[p] # "idle", pc'[p] \in Measuring,
         mem'[p].op = mem[p].op, mem'[p].policy = mem[p].policy, promotion' = promotion,
         consumption' # NoFile
  PROVE  CommandInv(p)' /\ Owner(p)'
BY DEF CommandInv, Owner, Measuring

LEMMA ConsumeStep ==
  ASSUME MeasureInv, NEW p \in Procs, Consume(p)
  PROVE  MeasureInv'
<1>0. pc[p] = "consume" /\ UNCHANGED <<series, lock, ledger, artifact>> /\ World
  BY DEF Consume
<1>1. CASE consumption = NoFile
  <2> DEFINE r == [state |-> "measuring", artifact |-> NoFile]
  <2>1. consumption' = r /\ Goto(p, "mark")
    BY <1>1 DEF Consume, Unconsumed
  <2>2. r \in Records /\ r # NoFile /\ r.state = "measuring"
    BY RecordsTyped, NoneIsAbsent
  <2> HIDE DEF r
  <2>3. FilesTyped'
    BY <1>0, <2>1, <2>2 DEF MeasureInv, FilesTyped, World, profile
  <2>4. CommandsTyped' /\ Still({p}) /\ pc'[p] = "mark" /\ mem'[p] = mem[p]
    BY <2>1, GotoIs, PointsAre DEF MeasureInv
  <2>5. CommandInv(p) /\ Fresh(p) /\ Len(Schedule) <= series.budget
    BY <1>0 DEF MeasureInv, CommandInv, Measuring
  <2>6. ledger = NoFile /\ artifact = NoFile /\ called = <<>>
    BY <1>1 DEF MeasureInv, CallsInv
  <2>7. CommandInv(p)'
    BY <1>0, <2>1, <2>2, <2>4, <2>5 DEF CommandInv, Owner, Fresh, World, profile
  <2>8. MeasuringAt(p, Len(mem[p].calls))'
    BY <1>0, <2>1, <2>2, <2>4, <2>6 DEF MeasuringAt, Measuring, World
  <2>9. CallsInv' /\ ArtifactInv'
    BY <1>0, <2>1, <2>2, <2>5, <2>6 DEF MeasureInv, CallsInv, ArtifactInv, World
  <2>. QED
    BY <1>0, <1>1, <2>1, <2>2, <2>3, <2>4, <2>7, <2>8, <2>9, OwnStep DEF World, profile, Terminal
<1>2. CASE consumption # NoFile
  <2>1. Goto(p, "release") /\ consumption' = consumption
    BY <1>2 DEF Consume, Unconsumed
  <2>2. Quiet /\ lock' \in Procs \cup {Dead, NoLock}
    BY <1>0, <2>1 DEF Quiet, World, records, MeasureInv, FilesTyped
  <2>. QED
    BY <1>0, <2>1, <2>2, QuietGoto, PointsAre
<1>. QED
  BY <1>1, <1>2

(* A step that changes the calls leaves the rest: where its command then is,  *)
(* with k in its memory.                                                     *)
Kept(p, k) == k \in Memory /\ k.op = mem[p].op /\ k.policy = mem[p].policy
CallsOnly ==
  /\ UNCHANGED <<series, promotion, policy, consumption, artifact>>
  /\ lock' \in Procs \cup {Dead, NoLock} /\ ledger' \in Seq(Entries) \cup {NoFile}
  /\ called' \in Seq(Made)
Advanced(l, k, n) ==
  /\ l = "calling" => ledger' = k.calls /\ Len(called') = n /\ Len(k.scores) = n
  /\ l \in {"asked", "answered", "writing"} =>
       ledger' = k.calls /\ n > 0 /\ Len(k.scores) = n - 1
  /\ l = "asked" => Len(called') = n - 1 /\ ledger'[n].state = "started"
  /\ l = "answered" => /\ Len(called') = n /\ k.answer = called'[n].answer
                       /\ ledger'[n].state = "started"
  /\ k.failure = NoFile <=> l # "writing"

LEMMA CallsChange ==
  ASSUME MeasureInv, NEW p \in Procs, pc[p] \in {"calling", "asked", "answered"},
         NEW l \in {"calling", "asked", "answered", "writing"}, NEW k,
         pc' = [pc EXCEPT ![p] = l], mem' = [mem EXCEPT ![p] = k],
         Kept(p, k), CallsOnly, CallsInv', Advanced(l, k, Len(k.calls)), ScoresOf(k.scores)'
  PROVE  MeasureInv'
<1>1. CommandsTyped' /\ Still({p}) /\ pc'[p] = l /\ mem'[p] = k
  BY PutIs, PointsAre DEF MeasureInv, Kept
<1>2. /\ Owner(p) /\ CommandInv(p) /\ MeasuringAt(p, Len(mem[p].calls)) /\ consumption # NoFile
      /\ artifact = NoFile /\ consumption.state = "measuring"
  BY OwnerHas DEF Measuring, MeasuringAt
<1>3. FilesTyped'
  BY DEF MeasureInv, FilesTyped, CallsOnly
<1>4. CommandInv(p)'
  BY <1>1, <1>2, OwnerCommandInv DEF Measuring, Kept, CallsOnly
<1>5. MeasuringAt(p, Len(mem[p].calls))'
  BY <1>1, <1>2 DEF MeasuringAt, Measuring, Advanced, CallsOnly
<1>6. ArtifactInv'
  BY <1>2 DEF ArtifactInv, CallsOnly
<1>. QED
  BY <1>1, <1>2, <1>3, <1>4, <1>5, <1>6, OwnStep DEF Terminal, CallsOnly

LEMMA BeginStep ==
  ASSUME MeasureInv, NEW p \in Procs, Begin(p)
  PROVE  MeasureInv'
<1>n. PICK n : n = Len(mem[p].calls)
  OBVIOUS
<1>w. PICK new : new = [call |-> Coming(p), state |-> "started"]
  OBVIOUS
<1>c. PICK calls : calls = Append(mem[p].calls, new)
  OBVIOUS
<1>k. PICK k : k = [mem[p] EXCEPT !.calls = calls]
  OBVIOUS
<1>1. /\ pc[p] = "calling" /\ n < Len(Schedule)
      /\ mem' = [mem EXCEPT ![p] = k] /\ pc' = [pc EXCEPT ![p] = "asked"]
      /\ ledger' = calls /\ UNCHANGED <<consumption, artifact, series, lock>> /\ World
  BY <1>n, <1>w, <1>c, <1>k DEF Begin, Listed
<1>2. /\ MeasuringAt(p, n) /\ mem[p] \in Memory /\ mem[p].calls \in Seq(Entries)
      /\ n \in Nat /\ Len(mem[p].scores) \in Nat /\ Len(called) \in Nat /\ consumption # NoFile
      /\ Len(Schedule) \in Nat
  BY <1>n, <1>1, OwnerHas DEF Measuring
<1>3. /\ ledger = mem[p].calls \/ (ledger = NoFile /\ n = 0)
      /\ Len(called) = n /\ Len(mem[p].scores) = n
      /\ mem[p].failure = NoFile /\ ScoresOf(mem[p].scores)
  BY <1>1, <1>2 DEF MeasuringAt, Measuring
<1>4. Coming(p) = Schedule[n + 1] /\ n + 1 \in 1..Len(Schedule) /\ Coming(p) \in Range(Schedule)
  <2>1. n + 1 \in 1..Len(Schedule)
    BY <1>1, <1>2
  <2>. QED
    BY <1>n, <2>1, ScheduleIs DEF Coming
<1>5. new \in Entries /\ new.call = Schedule[n + 1] /\ new.state = "started"
  BY <1>w, <1>4, NewEntry
<1>6. /\ calls \in Seq(Entries) /\ Len(calls) = n + 1 /\ calls[n + 1] = new
      /\ \A i \in 1..n : calls[i] = mem[p].calls[i]
  BY <1>n, <1>c, <1>2, <1>5
<1>7. k \in Memory
  BY <1>k, <1>2, <1>6, MemoryUpdates
<1>8. /\ k.calls = calls /\ k.op = mem[p].op /\ k.policy = mem[p].policy
      /\ k.scores = mem[p].scores /\ k.failure = mem[p].failure
  BY <1>k, <1>2 DEF Memory
<1>9. calls # NoFile
  BY <1>6, NoneIsAbsent
<1>10. \A i \in 1..n : mem[p].calls[i].call = Schedule[i] /\ mem[p].calls[i] = ledger[i]
  BY <1>2, <1>3 DEF MeasureInv, CallsInv
<1>11. CallsInv'
  <2>1. \A i \in DOMAIN calls : calls[i].call = Schedule[i]
    BY <1>2, <1>5, <1>6, <1>10
  <2>2. Len(calls) \in Len(called)..Len(called) + 1 /\ Len(calls) <= Len(Schedule)
    BY <1>2, <1>3, <1>4, <1>6
  <2>3. ledger' = calls /\ called' = called /\ consumption' = consumption /\ series' = series
    BY <1>1 DEF World
  <2>. QED
    BY <1>2, <1>9, <2>1, <2>2, <2>3 DEF MeasureInv, CallsInv
<1>12. ScoresOf(k.scores)'
  <2>1. called' = called /\ ledger' = calls
    BY <1>1 DEF World
  <2>2. DOMAIN called = 1..n
    BY <1>3 DEF MeasureInv, FilesTyped
  <2>3. \A i \in DOMAIN called : Counted(i)' <=> Counted(i)
    BY <1>6, <1>10, <2>1, <2>2 DEF Counted
  <2>. QED
    BY <1>3, <1>8, <2>1, <2>3 DEF ScoresOf
<1>13. CallsOnly
  BY <1>1, <1>6 DEF World, profile, MeasureInv, FilesTyped, CallsOnly
<1>14. Kept(p, k)
  BY <1>7, <1>8 DEF Kept
<1>15. Advanced("asked", k, Len(k.calls))
  <2>1. ledger' = calls /\ called' = called
    BY <1>1 DEF World
  <2>. QED
    BY <1>2, <1>3, <1>5, <1>6, <1>8, <2>1 DEF Advanced
<1>. QED
  BY <1>1, <1>11, <1>12, <1>13, <1>14, <1>15, CallsChange

LEMMA CallStep ==
  ASSUME MeasureInv, NEW p \in Procs, Call(p)
  PROVE  MeasureInv'
<1>n. PICK n : n = Len(mem[p].calls)
  OBVIOUS
<1>1. /\ pc[p] = "asked" /\ pc' = [pc EXCEPT ![p] = "answered"]
      /\ UNCHANGED <<series, profile, lock, records>>
  BY DEF Call
<1>2. /\ MeasuringAt(p, n) /\ mem[p] \in Memory /\ mem[p].calls \in Seq(Entries)
      /\ n \in Nat /\ Len(mem[p].scores) \in Nat /\ Len(called) \in Nat /\ consumption # NoFile
      /\ Len(Schedule) \in Nat
  BY <1>n, <1>1, OwnerHas DEF Measuring
<1>3. /\ ledger = mem[p].calls /\ n > 0 /\ Len(mem[p].scores) = n - 1
      /\ Len(called) = n - 1 /\ ledger[n].state = "started"
      /\ mem[p].failure = NoFile /\ ScoresOf(mem[p].scores)
  BY <1>1, <1>2 DEF MeasuringAt, Measuring
<1>4. mem[p].calls[n] \in Entries /\ n \in 1..n
  BY <1>n, <1>2, <1>3
<1>5. PICK a \in Answer : /\ called' = Append(called, [call |-> mem[p].calls[n].call, answer |-> a])
                          /\ mem' = [mem EXCEPT ![p] = [mem[p] EXCEPT !.answer = a]]
  BY <1>n, AnswersTyped DEF Call
<1>k. PICK k : k = [mem[p] EXCEPT !.answer = a]
  OBVIOUS
<1>w. PICK new : new = [call |-> mem[p].calls[n].call, answer |-> a]
  OBVIOUS
<1>6. /\ k \in Memory /\ k.calls = mem[p].calls /\ k.op = mem[p].op /\ k.policy = mem[p].policy
      /\ k.scores = mem[p].scores /\ k.failure = mem[p].failure /\ k.answer = a
  BY <1>k, <1>2, MemoryUpdates DEF Memory
<1>7. new \in Made /\ new.answer = a /\ new.call = mem[p].calls[n].call
  BY <1>w, <1>4 DEF Entries, Made
<1>8. called \in Seq(Made)
  BY DEF MeasureInv, FilesTyped
<1>9. /\ called' \in Seq(Made) /\ Len(called') = n
      /\ called'[n] = new /\ \A i \in 1..n - 1 : called'[i] = called[i]
  BY <1>w, <1>2, <1>3, <1>5, <1>7, <1>8
<1>10. UNCHANGED <<series, promotion, policy, lock, consumption, ledger, artifact>>
  BY <1>1 DEF profile, records
<1>11. CallsInv'
  <2>1. ledger # NoFile
    BY <1>2, <1>3, NoneIsAbsent
  <2>2. n <= Len(Schedule) /\ \A i \in DOMAIN ledger : ledger[i].call = Schedule[i]
    BY <1>n, <1>3, <2>1 DEF MeasureInv, CallsInv
  <2>3. \A i \in 1..n - 1 : called[i].call = Schedule[i]
    BY <1>2, <1>3, <1>8 DEF MeasureInv, CallsInv
  <2>4. new.call = Schedule[n]
    BY <1>n, <1>2, <1>3, <1>4, <1>7, <2>2
  <2>5. \A i \in DOMAIN called' : called'[i].call = Schedule[i]
    BY <1>2, <1>9, <2>3, <2>4
  <2>6. n \in n..n + 1 /\ Len(ledger') = n
    BY <1>n, <1>2, <1>3, <1>10
  <2>7. consumption' = consumption /\ series' = series /\ artifact' = artifact /\ ledger' = ledger
    BY <1>10
  <2>. QED
    BY <1>2, <1>9, <2>1, <2>2, <2>5, <2>6, <2>7 DEF MeasureInv, CallsInv
<1>12. ScoresOf(k.scores)'
  <2>1. DOMAIN called' = 1..n /\ DOMAIN called = 1..n - 1 /\ DOMAIN mem[p].scores = 1..n - 1
    BY <1>1, <1>2, <1>3, <1>8, <1>9, OwnerHas DEF Measuring
  <2>2. ledger' = ledger
    BY <1>10
  <2>3. ~Counted(n)'
    BY <1>3, <2>2 DEF Counted
  <2>4. \A i \in 1..n - 1 : Counted(i)' <=> Counted(i)
    BY <1>9, <2>2 DEF Counted
  <2>5. \A i \in 1..n - 1 : Counted(i)' /\ mem[p].scores[i] = called'[i].answer.score
    <3> SUFFICES ASSUME NEW i \in 1..n - 1
                 PROVE  Counted(i)' /\ mem[p].scores[i] = called'[i].answer.score
      OBVIOUS
    <3>0. i \in DOMAIN called /\ i \in DOMAIN mem[p].scores /\ i <= Len(mem[p].scores)
      BY <1>2, <1>3, <2>1
    <3>1. called'[i] = called[i]
      BY <1>9
    <3>2. Counted(i) /\ mem[p].scores[i] = called[i].answer.score
      BY <1>3, <3>0 DEF ScoresOf
    <3>. QED
      BY <2>4, <3>1, <3>2
  <2>. QED
    BY <1>2, <1>3, <1>6, <1>9, <2>1, <2>3, <2>5 DEF ScoresOf
<1>13. CallsOnly
  BY <1>9, <1>10 DEF MeasureInv, FilesTyped, CallsOnly
<1>14. Kept(p, k)
  BY <1>6 DEF Kept
<1>15. Advanced("answered", k, Len(k.calls))
  <2>1. Len(k.calls) = n
    BY <1>n, <1>6
  <2>2. ledger' = ledger
    BY <1>10
  <2>. QED
    BY <1>2, <1>3, <1>6, <1>7, <1>9, <2>1, <2>2 DEF Advanced
<1>16. mem' = [mem EXCEPT ![p] = k]
  BY <1>k, <1>5
<1>. QED
  BY <1>1, <1>11, <1>12, <1>13, <1>14, <1>15, <1>16, CallsChange

(* The calls e are those listed, the last in another state.                   *)
Rewritten(e, calls) ==
  /\ e \in Seq(Entries) /\ Len(e) = Len(calls)
  /\ \A i \in DOMAIN calls : e[i].call = calls[i].call
  /\ \A i \in 1..Len(calls) - 1 : e[i] = calls[i]

LEMMA EndingOf ==
  ASSUME MeasureInv, NEW p \in Procs, pc[p] \in {"asked", "answered"},
         NEW s \in {"started", "succeeded", "failed"}, NEW e, e = Ending(p, s)
  PROVE  Rewritten(e, ledger) /\ e[Len(ledger)].state = s
<1>1. mem[p].calls \in Seq(Entries) /\ Len(mem[p].calls) > 0 /\ ledger = mem[p].calls
  BY OwnerHas DEF Measuring, MeasuringAt
<1>2. e = [mem[p].calls EXCEPT ![Len(mem[p].calls)].state = s]
  BY DEF Ending
<1>. QED
  BY <1>1, <1>2, EndingIs DEF Rewritten

(* What the invariant says of a ledger it says of it rewritten.               *)
LEMMA RewrittenCallsInv ==
  ASSUME MeasureInv, NEW e, ledger \in Seq(Entries), Rewritten(e, ledger), ledger' = e,
         consumption # NoFile, UNCHANGED <<series, consumption, artifact, called>>
  PROVE  CallsInv'
<1>1. ledger # NoFile /\ e # NoFile
  BY NoneIsAbsent DEF Rewritten
<1>2. DOMAIN e = DOMAIN ledger
  BY DEF Rewritten
<1>3. /\ Len(ledger) \in Len(called)..Len(called) + 1
      /\ Len(ledger) <= Len(Schedule)
      /\ \A i \in DOMAIN ledger : ledger[i].call = Schedule[i]
  BY <1>1 DEF MeasureInv, CallsInv
<1>4. \A i \in DOMAIN e : e[i].call = Schedule[i]
  BY <1>2, <1>3 DEF Rewritten
<1>5. /\ Len(e) \in Len(called)..Len(called) + 1
      /\ Len(e) <= Len(Schedule)
  BY <1>3 DEF Rewritten
<1>. QED
  BY <1>1, <1>4, <1>5 DEF MeasureInv, CallsInv

(* A measurement ends early: the last call does not count.                    *)
LEMMA EarlyEnd ==
  ASSUME MeasureInv, NEW p \in Procs, pc[p] \in {"asked", "answered"},
         NEW f \in Failures, NEW e, Rewritten(e, ledger),
         pc[p] = "answered" => ~(called[Len(ledger)].answer.kind = "ok" /\ e[Len(ledger)].state = "succeeded"),
         mem' = [mem EXCEPT ![p].failure = f, ![p].calls = e],
         pc' = [pc EXCEPT ![p] = "writing"], ledger' = e,
         UNCHANGED <<series, promotion, policy, consumption, artifact, called>>,
         lock' \in Procs \cup {Dead, NoLock}
  PROVE  MeasureInv'
<1>n. PICK n : n = Len(mem[p].calls)
  OBVIOUS
<1>k. PICK k : k = [mem[p] EXCEPT !.failure = f, !.calls = e]
  OBVIOUS
<1>1. /\ MeasuringAt(p, n) /\ mem[p] \in Memory /\ mem[p].calls \in Seq(Entries)
      /\ n \in Nat /\ Len(mem[p].scores) \in Nat /\ Len(called) \in Nat /\ consumption # NoFile
      /\ Len(Schedule) \in Nat /\ mem[p].scores \in Seq(Nat)
  BY <1>n, OwnerHas DEF Measuring
<1>2. /\ ledger = mem[p].calls /\ n > 0 /\ Len(mem[p].scores) = n - 1
      /\ pc[p] = "asked" => Len(called) = n - 1
      /\ pc[p] = "answered" => Len(called) = n
      /\ ScoresOf(mem[p].scores)
  BY <1>1 DEF MeasuringAt, Measuring
<1>3. Len(ledger) = n /\ ledger \in Seq(Entries)
  BY <1>n, <1>1, <1>2
<1>4. e \in Seq(Entries) /\ Len(e) = n /\ \A i \in 1..n - 1 : e[i] = ledger[i]
  BY <1>3 DEF Rewritten
<1>5. /\ k \in Memory /\ k.calls = e /\ k.op = mem[p].op /\ k.policy = mem[p].policy
      /\ k.scores = mem[p].scores /\ k.failure = f
  <2>1. k \in Memory
    BY <1>k, <1>1, <1>4, MemoryUpdates, Zenon
  <2>2. /\ k.calls = e /\ k.op = mem[p].op /\ k.policy = mem[p].policy
        /\ k.scores = mem[p].scores /\ k.failure = f
    BY <1>k, <1>1 DEF Memory
  <2>. QED
    BY <2>1, <2>2
<1>6. mem' = [mem EXCEPT ![p] = k]
  BY <1>k
<1>7. CallsInv'
  BY <1>1, <1>3, RewrittenCallsInv
<1>8. ScoresOf(k.scores)'
  <2>1. DOMAIN mem[p].scores = 1..n - 1 /\ called' = called
    BY <1>1, <1>2
  <2>2. \A i \in 1..n - 1 : Counted(i)' <=> Counted(i)
    BY <1>4, <2>1 DEF Counted
  <2>3. Len(called) = n => ~Counted(n)'
    BY <1>1, <1>2, <1>3, <2>1 DEF Counted
  <2>4. \A i \in 1..n - 1 : Counted(i)' /\ mem[p].scores[i] = called[i].answer.score
    BY <1>1, <1>2, <2>1, <2>2, <1>n DEF ScoresOf, MeasureInv, FilesTyped
  <2>5. DOMAIN called = 1..Len(called)
    BY DEF MeasureInv, FilesTyped
  <2>. QED
    BY <1>1, <1>2, <1>5, <2>1, <2>3, <2>4, <2>5 DEF ScoresOf
<1>9. CallsOnly
  BY <1>4 DEF MeasureInv, FilesTyped, CallsOnly
<1>10. Kept(p, k)
  BY <1>5 DEF Kept
<1>11. f # NoFile
  BY NoneIsAbsent
<1>12. Advanced("writing", k, Len(k.calls))
  BY <1>1, <1>2, <1>4, <1>5, <1>11 DEF Advanced
<1>. QED
  BY <1>6, <1>7, <1>8, <1>9, <1>10, <1>12, CallsChange

LEMMA EndedStep ==
  ASSUME MeasureInv, NEW p \in Procs, CallFailed(p) \/ SourceDrift(p) \/ Unusable(p)
  PROVE  MeasureInv'
<1>1. /\ pc[p] = "answered" /\ World /\ UNCHANGED <<series, lock>>
      /\ pc' = [pc EXCEPT ![p] = "writing"]
  BY DEF CallFailed, SourceDrift, Unusable, Fails
<1>2. /\ ledger = mem[p].calls /\ Len(ledger) > 0 /\ ledger[Len(ledger)].state = "started"
      /\ mem[p].answer = called[Len(ledger)].answer /\ ledger \in Seq(Entries)
  BY <1>1, OwnerHas DEF Measuring, MeasuringAt
<1>3. PICK e, f :
        /\ f \in Failures /\ Fails(p, f, e)
        /\ \/ e = Ending(p, "failed") /\ mem[p].answer.kind = "failed"
           \/ e = ledger
           \/ e = Ending(p, "succeeded") /\ mem[p].answer.kind = "unusable"
  <2>1. CASE CallFailed(p)
    BY <2>1 DEF CallFailed, Failures
  <2>2. CASE SourceDrift(p)
    BY <1>2, <2>2 DEF SourceDrift, Failures
  <2>3. CASE Unusable(p)
    BY <2>3 DEF Unusable, Failures
  <2>. QED
    BY <2>1, <2>2, <2>3
<1>7. /\ mem' = [mem EXCEPT ![p].failure = f, ![p].calls = e]
      /\ ledger' = e /\ UNCHANGED <<consumption, artifact>>
  BY <1>3 DEF Fails, Listed
<1>4. Rewritten(e, ledger)
  <2>1. Rewritten(ledger, ledger)
    BY <1>2 DEF Rewritten
  <2>. QED
    BY <1>1, <1>3, <2>1, EndingOf
<1>5. ~(called[Len(ledger)].answer.kind = "ok" /\ e[Len(ledger)].state = "succeeded")
  BY <1>2, <1>3
<1>6. /\ UNCHANGED <<series, promotion, policy, consumption, artifact, called>>
      /\ lock' \in Procs \cup {Dead, NoLock}
  BY <1>1, <1>7 DEF World, profile, MeasureInv, FilesTyped
<1>. QED
  BY <1>1, <1>3, <1>4, <1>5, <1>6, <1>7, EarlyEnd

LEMMA SucceedStep ==
  ASSUME MeasureInv, NEW p \in Procs, Succeed(p)
  PROVE  MeasureInv'
<1>n. PICK n : n = Len(mem[p].calls)
  OBVIOUS
<1>e. PICK e : e = Ending(p, "succeeded")
  OBVIOUS
<1>s. PICK scores : scores = Append(mem[p].scores, mem[p].answer.score)
  OBVIOUS
<1>k. PICK k : k = [mem[p] EXCEPT !.calls = e, !.scores = scores]
  OBVIOUS
<1>1. /\ pc[p] = "answered" /\ mem[p].answer.kind = "ok"
      /\ mem' = [mem EXCEPT ![p] = k] /\ pc' = [pc EXCEPT ![p] = "calling"]
      /\ ledger' = e /\ UNCHANGED <<consumption, artifact, series, lock>> /\ World
  BY <1>e, <1>s, <1>k DEF Succeed, Listed
<1>2. /\ MeasuringAt(p, n) /\ mem[p] \in Memory /\ mem[p].calls \in Seq(Entries)
      /\ n \in Nat /\ Len(mem[p].scores) \in Nat /\ Len(called) \in Nat /\ consumption # NoFile
      /\ Len(Schedule) \in Nat /\ mem[p].scores \in Seq(Nat)
  BY <1>n, <1>1, OwnerHas DEF Measuring
<1>3. /\ ledger = mem[p].calls /\ n > 0 /\ Len(mem[p].scores) = n - 1
      /\ Len(called) = n /\ mem[p].answer = called[n].answer
      /\ mem[p].failure = NoFile /\ ScoresOf(mem[p].scores)
  BY <1>1, <1>2 DEF MeasuringAt, Measuring
<1>4. Len(ledger) = n /\ ledger \in Seq(Entries) /\ ledger # NoFile
  BY <1>n, <1>2, <1>3, NoneIsAbsent
<1>5. Rewritten(e, ledger) /\ e[n].state = "succeeded"
  BY <1>1, <1>4, <1>e, EndingOf
<1>6. e \in Seq(Entries) /\ Len(e) = n /\ \A i \in 1..n - 1 : e[i] = ledger[i]
  BY <1>4, <1>5 DEF Rewritten
<1>7. called \in Seq(Made)
  BY DEF MeasureInv, FilesTyped
<1>8. called[n].answer \in Answer
  <2>1. n \in 1..Len(called)
    BY <1>2, <1>3
  <2>2. called[n] \in Made
    BY <1>7, <2>1
  <2>3. \A c \in Made : c.answer \in Answer
    BY DEF Made
  <2>. QED
    BY <2>2, <2>3, Zenon
<1>9. mem[p].answer.score \in Nat
  BY <1>3, <1>8 DEF Answer
<1>10. /\ scores \in Seq(Nat) /\ Len(scores) = n /\ scores[n] = called[n].answer.score
       /\ \A i \in 1..n - 1 : scores[i] = mem[p].scores[i]
  BY <1>s, <1>2, <1>3, <1>9
<1>11. /\ k \in Memory /\ k.calls = e /\ k.op = mem[p].op /\ k.policy = mem[p].policy
       /\ k.scores = scores /\ k.failure = NoFile
  <2>1. k \in Memory
    BY <1>k, <1>2, <1>6, <1>10, MemoryUpdates
  <2>2. /\ k.calls = e /\ k.op = mem[p].op /\ k.policy = mem[p].policy
        /\ k.scores = scores /\ k.failure = mem[p].failure
    BY <1>k, <1>2 DEF Memory
  <2>. QED
    BY <1>3, <2>1, <2>2
<1>12. UNCHANGED <<series, promotion, policy, lock, consumption, artifact, called>>
  BY <1>1 DEF World, profile
<1>13. CallsInv'
  BY <1>1, <1>2, <1>4, <1>5, <1>12, RewrittenCallsInv
<1>14. ScoresOf(k.scores)'
  <2>1. DOMAIN mem[p].scores = 1..n - 1 /\ DOMAIN scores = 1..n /\ DOMAIN called = 1..n
    BY <1>2, <1>3, <1>7, <1>10
  <2>2. called' = called /\ ledger' = e
    BY <1>1, <1>12
  <2>3. Counted(n)'
    BY <1>1, <1>3, <1>5, <2>2 DEF Counted
  <2>4. \A i \in 1..n - 1 : Counted(i)' <=> Counted(i)
    BY <1>6, <2>2 DEF Counted
  <2>5. \A i \in 1..n - 1 : Counted(i)' /\ mem[p].scores[i] = called[i].answer.score
    <3> SUFFICES ASSUME NEW i \in 1..n - 1
                 PROVE  Counted(i)' /\ mem[p].scores[i] = called[i].answer.score
      OBVIOUS
    <3>1. i \in DOMAIN called /\ i \in DOMAIN mem[p].scores /\ i <= Len(mem[p].scores)
      BY <1>2, <1>3, <2>1
    <3>2. Counted(i) /\ mem[p].scores[i] = called[i].answer.score
      BY <1>3, <3>1 DEF ScoresOf
    <3>. QED
      BY <2>4, <3>2
  <2>6. \A i \in 1..n : Counted(i)' /\ scores[i] = called[i].answer.score
    <3>1. \A i \in 1..n : i = n \/ i \in 1..n - 1
      BY <1>2
    <3>2. scores[n] = called[n].answer.score
      BY <1>10
    <3>3. \A i \in 1..n - 1 : scores[i] = mem[p].scores[i]
      BY <1>10
    <3>. QED
      BY <2>3, <2>5, <3>1, <3>2, <3>3, Zenon
  <2>. QED
    BY <1>2, <1>3, <1>10, <1>11, <2>1, <2>2, <2>6 DEF ScoresOf
<1>15. CallsOnly
  BY <1>1, <1>6, <1>12 DEF MeasureInv, FilesTyped, CallsOnly
<1>16. Kept(p, k)
  BY <1>11 DEF Kept
<1>17. Advanced("calling", k, Len(k.calls))
  BY <1>1, <1>2, <1>3, <1>6, <1>10, <1>11, <1>12 DEF Advanced
<1>. QED
  BY <1>1, <1>13, <1>14, <1>15, <1>16, <1>17, CallsChange

LEMMA WriteStep ==
  ASSUME MeasureInv, NEW p \in Procs, WriteArtifact(p)
  PROVE  MeasureInv'
<1>s. PICK scores : scores = mem[p].scores
  OBVIOUS
<1>n. PICK n : n = Matched(scores)
  OBVIOUS
<1>a. PICK a : a = [state |-> State(n), matched |-> n, calls |-> Len(mem[p].calls),
                    final |-> mem[p].policy, gain |-> Gain(scores, n), failure |-> mem[p].failure]
  OBVIOUS
<1>1. /\ pc[p] = "writing" \/ (pc[p] = "calling" /\ Len(mem[p].calls) = Len(Schedule))
      /\ artifact' = a /\ Goto(p, "relock")
      /\ UNCHANGED <<series, lock, consumption, ledger>> /\ World
  BY <1>s, <1>n, <1>a DEF WriteArtifact
<1>2. /\ Owner(p) /\ CommandInv(p) /\ MeasuringAt(p, Len(mem[p].calls)) /\ mem[p] \in Memory
      /\ Len(mem[p].calls) \in Nat /\ scores \in Seq(Nat)
      /\ Len(called) \in Nat /\ consumption # NoFile /\ Len(Schedule) \in Nat
  BY <1>1, <1>s, OwnerHas DEF Measuring
<1>3. /\ ScoresOf(scores) /\ consumption.state = "measuring"
      /\ (mem[p].failure = NoFile) <=> (pc[p] = "calling")
      /\ pc[p] = "calling" => /\ ledger = mem[p].calls \/ (ledger = NoFile /\ Len(mem[p].calls) = 0)
                             /\ Len(scores) = Len(mem[p].calls)
      /\ pc[p] = "writing" => ledger = mem[p].calls /\ Len(scores) = Len(mem[p].calls) - 1
  BY <1>1, <1>2, <1>s DEF MeasuringAt, Measuring
<1>4. Len(Order) \in Nat \ {0} /\ Len(Schedule) = 4 * Len(Order)
  <2> HIDE DEF Schedule
  <2>. QED
    BY ScheduleIs
<1>5. ledger = mem[p].calls /\ ledger # NoFile
  <2>1. pc[p] = "calling" => Len(mem[p].calls) > 0
    BY <1>1, <1>4
  <2>2. mem[p].calls \in Seq(Entries)
    BY <1>2 DEF Memory
  <2>. QED
    BY <1>1, <1>3, <2>1, <2>2, NoneIsAbsent
<1>6. Len(mem[p].calls) <= Len(Schedule) /\ Len(scores) <= Len(Schedule) /\ Len(scores) \in Nat
  <2>1. Len(ledger) <= Len(Schedule)
    BY <1>5 DEF MeasureInv, CallsInv
  <2>2. Len(scores) \in Nat
    BY <1>2
  <2>. QED
    BY <1>1, <1>2, <1>3, <1>5, <2>1, <2>2
<1>7. /\ n \in 0..Len(Order) /\ 4 * n <= Len(scores) /\ Len(scores) < 4 * n + 4
      /\ Gain(scores, n) \in [sum : Int, weight : Int]
  BY <1>2, <1>6, <1>n, GainIs
<1>8. pc[p] = "calling" <=> n = Len(Order)
  <2>1. CASE pc[p] = "calling"
    BY <1>1, <1>3, <1>4, <1>7, <2>1
  <2>2. CASE pc[p] = "writing"
    BY <1>2, <1>3, <1>4, <1>6, <1>7, <2>2
  <2>. QED
    BY <1>1, <2>1, <2>2
<1>9. State(n) \in Terminal /\ (State(n) = "measured" <=> n = Len(Order))
  BY DEF State, Terminal
<1>10. /\ a.state = State(n) /\ a.matched = n /\ a.calls = Len(mem[p].calls)
       /\ a.final = mem[p].policy /\ a.gain = Gain(scores, n) /\ a.failure = mem[p].failure
  BY <1>a
<1>11. mem[p].policy \in Policies /\ mem[p].failure \in Failures \cup {NoFile}
  BY <1>2 DEF Memory
<1>12. a \in Artifacts
  BY <1>a, <1>2, <1>7, <1>9, <1>11 DEF Artifacts
<1>13. a # NoFile
  BY <1>12, NoneIsAbsent
<1>14. UNCHANGED <<series, promotion, policy, lock, consumption, ledger, called>>
  BY <1>1 DEF World, profile
<1>15. CommandsTyped' /\ Still({p}) /\ pc'[p] = "relock" /\ mem'[p] = mem[p]
  BY <1>1, GotoIs, PointsAre DEF MeasureInv
<1>16. FilesTyped'
  BY <1>1, <1>12, <1>14 DEF MeasureInv, FilesTyped
<1>17. CommandInv(p)' /\ Owner(p)'
  BY <1>1, <1>2, <1>14, <1>15, OwnerCommandInv DEF Measuring
<1>18. MeasuringAt(p, Len(mem[p].calls))'
  BY <1>1, <1>3, <1>13, <1>14, <1>15 DEF MeasuringAt, Measuring
<1>19. CallsInv'
  BY <1>2, <1>14 DEF MeasureInv, CallsInv
<1>20. ArtifactInv'
  <2>1. ScoresOf(scores)'
    BY <1>3, <1>14 DEF ScoresOf, Counted
  <2>2. Len(scores) \in 0..Len(called)
    BY <1>3, <1>6, <1>2 DEF ScoresOf
  <2>3. scores = [i \in 1..Len(scores) |-> called[i].answer.score]
    BY <1>2, <1>3 DEF ScoresOf
  <2>4. a.final = "candidate" => promotion = "applied"
    BY <1>2, <1>10 DEF CommandInv
  <2>5. a.state = "measured" <=> a.failure = NoFile
    BY <1>3, <1>8, <1>9, <1>10
  <2>6. a.calls = Len(ledger) /\ a.state = State(a.matched)
    BY <1>5, <1>10
  <2>7. a.matched = Matched(scores) /\ a.gain = Gain(scores, Matched(scores))
    BY <1>n, <1>10
  <2>. QED
    BY <1>1, <1>5, <1>14, <2>1, <2>2, <2>3, <2>4, <2>5, <2>6, <2>7 DEF ArtifactInv
<1>. QED
  BY <1>2, <1>3, <1>14, <1>15, <1>16, <1>17, <1>18, <1>19, <1>20, OwnStep DEF Terminal

LEMMA BindStep ==
  ASSUME MeasureInv, NEW p \in Procs, Bind(p)
  PROVE  MeasureInv'
<1>r. PICK r : r = [state |-> artifact.state, artifact |-> artifact]
  OBVIOUS
<1>1. /\ pc[p] = "bind" /\ consumption' = r /\ Goto(p, "settle")
      /\ UNCHANGED <<series, lock, ledger, artifact>> /\ World
  BY <1>r DEF Bind
<1>2. Owner(p) /\ CommandInv(p) /\ MeasuringAt(p, Len(mem[p].calls)) /\ consumption # NoFile
  BY <1>1, OwnerHas
<1>3. artifact # NoFile /\ artifact \in Artifacts
  BY <1>1, <1>2 DEF MeasuringAt, MeasureInv, FilesTyped
<1>4. r \in Records /\ r # NoFile /\ r.state = artifact.state /\ r.artifact = artifact
  BY <1>r, <1>3, RecordsTyped, NoneIsAbsent
<1>5. UNCHANGED <<series, promotion, policy, lock, ledger, artifact, called>>
  BY <1>1 DEF World, profile
<1>6. CommandsTyped' /\ Still({p}) /\ pc'[p] = "settle" /\ mem'[p] = mem[p]
  BY <1>1, GotoIs, PointsAre DEF MeasureInv
<1>7. FilesTyped'
  BY <1>1, <1>4, <1>5 DEF MeasureInv, FilesTyped
<1>8. CommandInv(p)'
  BY <1>1, <1>2, <1>4, <1>5, <1>6 DEF CommandInv, Owner, Measuring
<1>9. MeasuringAt(p, Len(mem[p].calls))'
  <2>1. consumption'.state \in Terminal
    BY <1>1, <1>3, <1>4, RecordsTyped
  <2>. QED
    BY <1>3, <1>5, <1>6, <2>1 DEF MeasuringAt, Measuring
<1>10. CallsInv'
  BY <1>1, <1>2, <1>4, <1>5 DEF MeasureInv, CallsInv
<1>11. ArtifactInv'
  BY <1>5 DEF MeasureInv, ArtifactInv, ScoresOf, Counted
<1>. QED
  BY <1>1, <1>2, <1>3, <1>4, <1>5, <1>6, <1>7, <1>8, <1>9, <1>10, <1>11, OwnStep

LEMMA SettleStep ==
  ASSUME MeasureInv, NEW p \in Procs, Settle(p)
  PROVE  MeasureInv'
<1>k. PICK k : k = [mem[p] EXCEPT !.then = "idle"]
  OBVIOUS
<1>1. /\ pc[p] = "settle" /\ series' = [series EXCEPT !.generalization = artifact.state]
      /\ pc' = [pc EXCEPT ![p] = "release"] /\ mem' = [mem EXCEPT ![p] = k]
      /\ UNCHANGED <<lock, records>> /\ World
  BY <1>k DEF Settle
<1>2. /\ Owner(p) /\ CommandInv(p) /\ MeasuringAt(p, Len(mem[p].calls)) /\ consumption # NoFile
      /\ mem[p] \in Memory
  BY <1>1, OwnerHas
<1>3. artifact # NoFile /\ artifact \in Artifacts /\ consumption.state \in Terminal
  BY <1>1, <1>2 DEF MeasuringAt, MeasureInv, FilesTyped
<1>4. artifact.state \in Terminal /\ consumption.state = artifact.state /\ consumption.artifact = artifact
  BY <1>2, <1>3, RecordsTyped DEF MeasureInv, BoundInv
<1>5. k \in Memory /\ k.then = "idle" /\ k.op = mem[p].op
  BY <1>k, <1>2, MemoryUpdates DEF Memory
<1>6. CommandsTyped' /\ Still({p}) /\ pc'[p] = "release" /\ mem'[p] = k
  BY <1>1, <1>5, PutIs, PointsAre DEF MeasureInv
<1>7. /\ UNCHANGED <<promotion, policy, lock, consumption, ledger, artifact, called>>
      /\ series'.budget = series.budget /\ series'.generalization = artifact.state
  BY <1>1 DEF World, profile, records, MeasureInv, FilesTyped
<1>8. FilesTyped'
  BY <1>1, <1>4, <1>7 DEF MeasureInv, FilesTyped
<1>9. ~Owner(p)'
  BY <1>5, <1>6 DEF Owner, Measuring
<1>10. CommandInv(p)'
  BY <1>2, <1>5, <1>6, <1>9, <1>1 DEF CommandInv, Measuring
<1>11. \A q \in Procs : ~Owner(q)'
  <2> SUFFICES ASSUME NEW q \in Procs, q # p PROVE ~Owner(q)'
    BY <1>9
  <2>1. ~Owner(q)
    BY <1>2 DEF MeasureInv, OneOwner
  <2>. QED
    BY <1>6, <2>1, OthersStay
<1>12. OneOwner'
  BY <1>11 DEF OneOwner
<1>13. CallsInv'
  BY <1>7 DEF MeasureInv, CallsInv
<1>14. ArtifactInv'
  BY <1>7 DEF MeasureInv, ArtifactInv, ScoresOf, Counted
<1>15. BoundInv'
  BY <1>2, <1>3, <1>4, <1>7, <1>11 DEF BoundInv
<1>16. \A q \in Procs : CommandInv(q)'
  <2> SUFFICES ASSUME NEW q \in Procs, q # p PROVE CommandInv(q)'
    BY <1>10
  <2>. QED
    BY <1>2, <1>6, <1>7, OthersCommandInv DEF MeasureInv
<1>. QED
  BY <1>6, <1>8, <1>11, <1>12, <1>13, <1>14, <1>15, <1>16 DEF MeasureInv

LEMMA InterruptStep ==
  ASSUME MeasureInv, NEW p \in Procs, Interrupt(p)
  PROVE  MeasureInv'
<1>1. /\ UNCHANGED <<series, profile, called>> /\ lock' \in Procs \cup {Dead, NoLock}
      /\ pc[p] # "idle"
  BY DEF Interrupt, MeasureInv, FilesTyped
<1>2. CASE pc[p] # "asked"
  <2>1. Quiet /\ Leave(p)
    BY <1>1, <1>2 DEF Interrupt, Quiet
  <2>. QED
    BY <1>1, <2>1, QuietIsCalm, LeaveIs, CalmStep
<1>3. CASE pc[p] = "asked"
  <2>e. PICK e : e = Ending(p, "failed")
    OBVIOUS
  <2>1. /\ ledger' = e /\ UNCHANGED <<consumption, artifact>>
        /\ Rewritten(e, ledger) /\ UNCHANGED <<series, promotion, policy, called>>
    BY <1>1, <1>3, <2>e, EndingOf DEF Interrupt, Listed, profile
  <2>2. /\ Owner(p) /\ MeasuringAt(p, Len(mem[p].calls)) /\ consumption # NoFile
        /\ ledger \in Seq(Entries) /\ artifact = NoFile /\ consumption.state = "measuring"
    BY <1>3, OwnerHas DEF Measuring, MeasuringAt
  <2>3. CASE Drifted(p)
    <3>1. /\ mem' = [mem EXCEPT ![p].failure = "generalization_source_integrity", ![p].calls = e]
          /\ pc' = [pc EXCEPT ![p] = "writing"]
      BY <1>3, <2>3, <2>e DEF Interrupt
    <3>2. "generalization_source_integrity" \in Failures
      BY DEF Failures
    <3>. QED
      BY <1>1, <1>3, <2>1, <3>1, <3>2, EarlyEnd
  <2>4. CASE ~Drifted(p)
    <3>1. Leave(p)
      BY <1>3, <2>4 DEF Interrupt
    <3>2. CommandsTyped' /\ Still({p}) /\ ~Owner(p)' /\ CommandInv(p)'
      BY <3>1, LeaveIs
    <3>3. CallsInv'
      BY <2>1, <2>2, RewrittenCallsInv
    <3>4. ArtifactInv'
      BY <2>1, <2>2 DEF ArtifactInv
    <3>5. FilesTyped'
      BY <1>1, <2>1 DEF MeasureInv, FilesTyped, Rewritten
    <3>. QED
      BY <2>1, <2>2, <3>2, <3>3, <3>4, <3>5, OwnStep DEF Terminal
  <2>. QED
    BY <2>3, <2>4
<1>. QED
  BY <1>2, <1>3

-----------------------------------------------------------------------------
(* The invariant holds.                                                      *)
LEMMA InitMeasure == Init => MeasureInv
<1> SUFFICES ASSUME Init PROVE MeasureInv
  OBVIOUS
<1>1. FilesTyped
  BY DEF Init, FilesTyped, Policies
<1>2. CommandsTyped
  BY NoMemTyped, PointsAre DEF Init, CommandsTyped
<1>3. \A p \in Procs : ~Owner(p) /\ CommandInv(p)
  BY DEF Init, Owner, Measuring, CommandInv, Fresh, NoMem
<1>4. Len(Schedule) \in Nat
  BY ScheduleIs
<1>5. CallsInv /\ ArtifactInv /\ BoundInv
  BY <1>4 DEF Init, CallsInv, ArtifactInv, BoundInv, Terminal
<1>. QED
  BY <1>1, <1>2, <1>3, <1>5 DEF MeasureInv, OneOwner

LEMMA NextMeasure == MeasureInv /\ [Next]_vars => MeasureInv'
<1> SUFFICES ASSUME MeasureInv, [Next]_vars PROVE MeasureInv'
  OBVIOUS
<1>1. ASSUME NEW p \in Procs, Step(p) PROVE MeasureInv'
  BY <1>1, CommandStep, ReleaseStep, OtherCommandStep, ConsumeStep, MarkStep, BeginStep, CallStep,
     EndedStep, SucceedStep, WriteStep, RelockStep, BindStep, SettleStep DEF Step
<1>2. CASE UNCHANGED vars
  <2>1. Calm /\ FilesTyped' /\ CommandsTyped' /\ Still({})
    BY <1>2 DEF vars, profile, records, Calm, FilesTyped, CommandsTyped, Still, MeasureInv
  <2>. QED
    BY <2>1, CalmStep
<1>. QED
  BY <1>1, <1>2, PromotionStep, OpenStep, InterruptStep, KillStep DEF Next

LEMMA MeasureAlways == Spec => []MeasureInv
BY InitMeasure, NextMeasure, PTL DEF Spec

(* Every file holds what it is meant to: a consumption record that measures    *)
(* has no artifact and one that is over has its own, the ledger keeps to the    *)
(* budget that generalize_series checks, and an artifact is complete.          *)
THEOREM GeneralizationTyped == Spec => []TypeOK
<1>1. MeasureInv => TypeOK
  <2> SUFFICES ASSUME MeasureInv PROVE TypeOK
    OBVIOUS
  <2>1. ledger # NoFile => Len(ledger) <= series.budget
    <3> SUFFICES ASSUME ledger # NoFile PROVE Len(ledger) <= series.budget
      OBVIOUS
    <3>1. consumption # NoFile /\ Len(ledger) <= Len(Schedule) /\ Len(Schedule) <= series.budget
      BY DEF MeasureInv, CallsInv
    <3>2. Len(ledger) \in Nat /\ Len(Schedule) \in Nat /\ series.budget \in Nat
      <4>1. ledger \in Seq(Entries) /\ series.budget \in Budgets
        BY DEF MeasureInv, FilesTyped
      <4>2. Budgets \subseteq Nat
        BY GeneralizationAssumption
      <4>3. Len(Schedule) \in Nat
        BY ScheduleIs
      <4>4. Len(ledger) \in Nat
        BY <4>1
      <4>5. series.budget \in Nat
        BY <4>1, <4>2, Zenon
      <4>. QED
        BY <4>3, <4>4, <4>5
    <3>. QED
      BY <3>1, <3>2
  <2>. QED
    BY <2>1 DEF MeasureInv, FilesTyped, CommandsTyped, TypeOK
<1>. QED
  BY <1>1, MeasureAlways, PTL

(* The untouched cases are put to the providers once, in order, however many    *)
(* commands of the series overlap, hold its lock together, die or are          *)
(* interrupted: the record that generalize_series creates exclusively names    *)
(* one command, and its ledger lists every call it made.                      *)
THEOREM UntouchedCalledOnce == Spec => []CalledOnce
<1>1. MeasureInv => CalledOnce
  <2> SUFFICES ASSUME MeasureInv PROVE CalledOnce
    OBVIOUS
  <2>1. /\ Len(called) <= Len(Schedule) /\ Len(called) \in Nat /\ Len(Schedule) \in Nat
        /\ DOMAIN called = 1..Len(called)
        /\ \A i \in DOMAIN called : called[i].call = Schedule[i]
    BY ScheduleIs DEF MeasureInv, CallsInv, FilesTyped
  <2>2. \A i, j \in DOMAIN called : called[i].call = called[j].call => i = j
    <3> SUFFICES ASSUME NEW i \in DOMAIN called, NEW j \in DOMAIN called, called[i].call = called[j].call
                 PROVE  i = j
      OBVIOUS
    <3>1. i \in 1..Len(Schedule) /\ j \in 1..Len(Schedule) /\ Schedule[i] = Schedule[j]
      BY <2>1
    <3>. QED
      BY <3>1, ScheduleOnce
  <2>3. ASSUME called # <<>>
        PROVE  /\ consumption # NoFile /\ ledger # NoFile
               /\ Len(ledger) \in Len(called)..Len(called) + 1
               /\ \A i \in DOMAIN called : ledger[i].call = called[i].call
    <3>1. ledger # NoFile /\ consumption # NoFile
      BY <2>3 DEF MeasureInv, CallsInv
    <3>2. ledger \in Seq(Entries)
      BY <3>1 DEF MeasureInv, FilesTyped
    <3>3. /\ Len(ledger) \in Len(called)..Len(called) + 1
          /\ \A i \in DOMAIN ledger : ledger[i].call = Schedule[i]
      BY <3>1 DEF MeasureInv, CallsInv
    <3>4. \A i \in DOMAIN called : i \in DOMAIN ledger
      BY <2>1, <3>2, <3>3
    <3>. QED
      BY <2>1, <3>1, <3>3, <3>4
  <2>. QED
    BY <2>2, <2>3 DEF CalledOnce
<1>. QED
  BY <1>1, MeasureAlways, PTL

-----------------------------------------------------------------------------
(* What the artifact says is what the providers answered.                     *)
Place(m, side) == IF side = "initial" THEN 4 * m - 2 ELSE 4 * m
Evaluation(m, side) == [case |-> Order[m], step |-> [role |-> "evaluator", policy |-> side]]

LEMMA OnlyPlace ==
  ASSUME NEW m \in 1..Len(Order), NEW side \in Sides, NEW j \in 1..Len(Schedule)
  PROVE  /\ Place(m, side) \in 1..Len(Schedule)
         /\ Schedule[j] = Evaluation(m, side) <=> j = Place(m, side)
<1>1. Len(Order) \in Nat /\ Len(Schedule) = 4 * Len(Order)
  <2> HIDE DEF Schedule
  <2>. QED
    BY ScheduleIs
<1>p. PICK q : q = Place(m, side)
  OBVIOUS
<1>2. q \in 1..Len(Schedule) /\ (q - 1) \div 4 = m - 1 /\ (q - 1) % 4 = IF side = "initial" THEN 1 ELSE 3
  <2> HIDE DEF Schedule
  <2>1. q = 4 * m - 2 \/ q = 4 * m
    BY <1>p DEF Place
  <2>2. side = "initial" => q = 4 * m - 2
    BY <1>p DEF Place
  <2>3. side # "initial" => q = 4 * m
    BY <1>p DEF Place
  <2>4. m \in Nat /\ m >= 1 /\ m <= Len(Order)
    BY <1>1
  <2>5. (4 * m - 3) \div 4 = m - 1 /\ (4 * m - 3) % 4 = 1
    BY <2>4, SMT
  <2>6. (4 * m - 1) \div 4 = m - 1 /\ (4 * m - 1) % 4 = 3
    BY <2>4, SMT
  <2>7. CASE side = "initial"
    <3>1. q - 1 = 4 * m - 3 /\ q \in 1..Len(Schedule)
      BY <1>1, <2>2, <2>4, <2>7
    <3>. QED
      BY <2>5, <2>7, <3>1, Zenon
  <2>8. CASE side # "initial"
    <3>1. q - 1 = 4 * m - 1 /\ q \in 1..Len(Schedule)
      BY <1>1, <2>3, <2>4, <2>8
    <3>. QED
      BY <2>6, <2>8, <3>1, Zenon
  <2>. QED
    BY <2>7, <2>8
<1>3. Steps[2] = [role |-> "evaluator", policy |-> "initial"] /\ Steps[4] = [role |-> "evaluator", policy |-> "final"]
  BY DEF Steps
<1>4. Schedule[q] = [case |-> Order[m], step |-> Steps[(IF side = "initial" THEN 1 ELSE 3) + 1]]
  <2>1. Schedule[q] = [case |-> Order[((q - 1) \div 4) + 1], step |-> Steps[((q - 1) % 4) + 1]]
    BY <1>1, <1>2 DEF Schedule
  <2>2. (m - 1) + 1 = m
    BY <1>1
  <2>. QED
    BY <1>2, <2>1, <2>2
<1>5. Schedule[q] = Evaluation(m, side)
  <2>1. CASE side = "initial"
    BY <1>3, <1>4, <2>1 DEF Evaluation
  <2>2. CASE side = "final"
    BY <1>3, <1>4, <2>2 DEF Evaluation
  <2>. QED
    BY <2>1, <2>2 DEF Sides
<1>. QED
  BY <1>p, <1>2, <1>5, ScheduleOnce

LEMMA GivenIs ==
  ASSUME MeasureInv, NEW scores, DOMAIN scores = 1..Len(scores), Len(scores) \in Nat, ScoresOf(scores),
         NEW m \in 1..Len(Order), NEW side \in Sides
  PROVE  Given(Order[m], side) = IF Place(m, side) <= Len(scores) THEN {scores[Place(m, side)]} ELSE {}
<1>p. PICK q : q = Place(m, side)
  OBVIOUS
<1> DEFINE J == {j \in DOMAIN called :
                   /\ called[j].call = [case |-> Order[m], step |-> [role |-> "evaluator", policy |-> side]]
                   /\ called[j].answer.kind = "ok" /\ ledger[j].state = "succeeded"}
<1>1. /\ DOMAIN called = 1..Len(called) /\ Len(called) \in Nat /\ Len(called) <= Len(Schedule)
      /\ \A i \in DOMAIN called : called[i].call = Schedule[i] /\ i \in 1..Len(Schedule)
  BY ScheduleIs DEF MeasureInv, FilesTyped, CallsInv
<1>2. \A j \in DOMAIN called : j \in J <=> j = q /\ j <= Len(scores)
  BY <1>1, <1>p, OnlyPlace DEF ScoresOf, Counted, Evaluation
<1>3. q \in 1..Len(Schedule)
  <2>1. 1 \in 1..Len(Schedule)
    BY ScheduleIs
  <2>. QED
    BY <1>p, <2>1, OnlyPlace
<1>4. Given(Order[m], side) = {called[i].answer.score : i \in J}
  BY DEF Given
<1>5. CASE q <= Len(scores)
  <2>1. q \in DOMAIN called /\ q \in DOMAIN scores
    BY <1>1, <1>3, <1>5, ScheduleIs DEF ScoresOf
  <2>2. J = {q}
    BY <1>2, <1>5, <2>1
  <2>3. called[q].answer.score = scores[q]
    BY <2>1 DEF ScoresOf
  <2> HIDE DEF J
  <2>. QED
    BY <1>p, <1>4, <1>5, <2>2, <2>3
<1>6. CASE ~(q <= Len(scores))
  <2>1. J = {}
    BY <1>2, <1>6
  <2> HIDE DEF J
  <2>. QED
    BY <1>p, <1>4, <1>6, <2>1
<1>. QED
  BY <1>5, <1>6

LEMMA CasesDiffer ==
  ASSUME NEW i \in 1..Len(Order), NEW j \in 1..Len(Order), Order[i] = Order[j]
  PROVE  i = j
BY GeneralizationAssumption DEF IsInjective

(* A sum over the first n cases is the running sum in their order.            *)
LEMMA SumAlong ==
  ASSUME NEW n \in 0..Len(Order), NEW C, C = {Order[i] : i \in 1..n}, NEW values \in [C -> Int],
         NEW along, along = [i \in 1..n |-> values[Order[i]]]
  PROVE  SumOver(values) = WeightedSum(along) /\ IsFiniteSet(C) /\ Cardinality(C) = n
<1>0. n \in Nat /\ n <= Len(Order)
  BY ScheduleIs
<1> DEFINE f == [i \in 1..n |-> Order[i]]
<1>1. f \in Bijection(1..n, C)
  <2>1. f \in [1..n -> C] /\ \A c \in C : \E i \in 1..n : f[i] = c
    OBVIOUS
  <2>2. \A i, j \in 1..n : f[i] = f[j] => i = j
    BY <1>0, CasesDiffer, ScheduleIs
  <2>. QED
    BY <2>1, <2>2 DEF Bijection, Injection, Surjection, IsInjective
<1>2. IsFiniteSet(C) /\ Cardinality(C) = n
  <2>1. IsFiniteSet(1..n) /\ Cardinality(1..n) = n
    BY <1>0, FS_Interval
  <2>2. ExistsBijection(1..n, C)
    BY <1>1 DEF ExistsBijection
  <2>. QED
    BY <2>1, <2>2, FS_Bijection
<1>3. along \in Seq(Int) /\ Len(along) = n /\ \A i \in 1..n : along[i] = values[Order[i]] /\ values[Order[i]] \in Int
  <2>1. \A i \in 1..n : along[i] = values[Order[i]] /\ values[Order[i]] \in Int
    OBVIOUS
  <2>2. along = [i \in 1..n |-> along[i]]
    OBVIOUS
  <2>. QED
    BY <1>0, <2>1, <2>2, SequenceOfIntegers
<1>4. PICK g : Sums(g, values, C) /\ MapThenSumSet(LAMBDA c : values[c], C) = g[C]
  BY <1>2, SumOverSet
<1>s. \A U \in SUBSET C : \A u \in U : TakenFirst(g, values, U, u)
  <2>1. Sums(g, values, C)
    BY <1>4
  <2>2. IsFiniteSet(C)
    BY <1>2
  <2>. QED
    BY <2>1, <2>2, SumStep
<1>5. SumOver(values) = g[C]
  BY <1>4 DEF SumOver
<1>6. PICK run : Running(run, along) /\ WeightedSum(along) = run[Len(along)]
  BY <1>3, WeightedSumIs
<1> DEFINE First(k) == {Order[i] : i \in 1..k}
           Good == {k \in Nat : k <= n => g[First(k)] = run[k]}
<1>7. 0 \in Good
  <2>1. First(0) = {}
    OBVIOUS
  <2>. QED
    BY <1>4, <1>6, <2>1 DEF Sums, Running
<1>8. ASSUME NEW k \in Nat, k \in Good PROVE k + 1 \in Good
  <2> SUFFICES ASSUME k + 1 <= n PROVE g[First(k + 1)] = run[k + 1]
    OBVIOUS
  <2>1. Order[k + 1] \in First(k + 1) /\ First(k + 1) \in SUBSET C
    BY <1>0
  <2>2. First(k + 1) \ {Order[k + 1]} = First(k)
    <3>1. \A i \in 1..k : Order[i] # Order[k + 1]
      <4> SUFFICES ASSUME NEW i \in 1..k, Order[i] = Order[k + 1] PROVE FALSE
        OBVIOUS
      <4>1. i \in 1..Len(Order) /\ k + 1 \in 1..Len(Order) /\ i # k + 1
        BY <1>0, ScheduleIs
      <4>. QED
        BY <4>1, CasesDiffer
    <3>2. 1..k + 1 = 1..k \cup {k + 1}
      OBVIOUS
    <3>. QED
      BY <3>1, <3>2
  <2>3. g[First(k + 1)] = values[Order[k + 1]] + g[First(k)]
    <3>t. PICK T : T = First(k + 1)
      OBVIOUS
    <3>x. PICK x : x = Order[k + 1]
      OBVIOUS
    <3> HIDE DEF First
    <3>1. T \in SUBSET C
      BY <3>t, <2>1
    <3>4. x \in T
      BY <3>t, <3>x, <2>1
    <3>5. T \ {x} = First(k)
      BY <3>t, <3>x, <2>2
    <3>3. g[T] = values[x] + g[T \ {x}]
      BY <1>s, <3>1, <3>4 DEF TakenFirst
    <3>. QED
      BY <3>t, <3>x, <3>5, <3>3
  <2>4. g[First(k)] = run[k] /\ run[k + 1] = run[k] + along[k + 1] /\ run[k] \in Int
    <3>1. g[First(k)] = run[k]
      <4> HIDE DEF First
      <4>. QED
        BY <1>0, <1>8
    <3>2. /\ run \in [0..n -> Int] /\ \A j \in 1..n : run[j] = run[j - 1] + along[j]
      BY <1>3, <1>6 DEF Running
    <3>3. run[k + 1] = run[(k + 1) - 1] + along[k + 1] /\ (k + 1) - 1 = k /\ k \in 0..n
      <4>1. k + 1 \in 1..n /\ (k + 1) - 1 = k /\ k \in 0..n
        BY <1>0
      <4> HIDE DEF First
      <4>. QED
        BY <4>1, <3>2
    <3>. QED
      BY <3>1, <3>2, <3>3
  <2>5. along[k + 1] = values[Order[k + 1]] /\ values[Order[k + 1]] \in Int
    BY <1>0, <1>3
  <2> HIDE DEF First
  <2>. QED
    BY <2>3, <2>4, <2>5
<1>9. Nat \subseteq Good
  <2> HIDE DEF Good
  <2>. QED
    BY <1>7, <1>8, NatInSet
<1>10. g[First(n)] = run[n]
  <2>1. n \in Nat /\ n <= n
    BY <1>0
  <2> HIDE DEF First
  <2>. QED
    BY <1>9, <2>1
<1>. QED
  BY <1>2, <1>3, <1>5, <1>6, <1>10

FirstCases(n) == {Order[i] : i \in 1..n}
Along(values, n) == [i \in 1..n |-> values[Order[i]]]
LEMMA SumOfCases ==
  ASSUME NEW n \in 0..Len(Order), NEW values \in [FirstCases(n) -> Int]
  PROVE  SumOver(values) = WeightedSum(Along(values, n)) /\ Cardinality(FirstCases(n)) = n
<1>1. PICK C : C = FirstCases(n)
  OBVIOUS
<1>2. PICK along : along = Along(values, n)
  OBVIOUS
<1>3. C = {Order[i] : i \in 1..n} /\ along = [i \in 1..n |-> values[Order[i]]]
  BY <1>1, <1>2, Zenon DEF FirstCases, Along
<1>4. values \in [C -> Int]
  BY <1>1
<1>5. SumOver(values) = WeightedSum(along) /\ Cardinality(C) = n
  BY <1>3, <1>4, SumAlong
<1>. QED
  BY <1>1, <1>2, <1>5

-----------------------------------------------------------------------------
(* A command that is done with its measurement has bound an artifact that     *)
(* tells what the providers answered (docs/specs/0009 section 5).             *)
THEOREM MeasurementIsTrue == Spec => []MeasurementTrue
<1>1. ASSUME MeasureInv, series.generalization \in Terminal PROVE MeasurementTrue
  <2>1. /\ consumption # NoFile /\ consumption.state = series.generalization
        /\ artifact # NoFile /\ consumption.artifact = artifact
        /\ artifact.state = series.generalization
    BY <1>1 DEF MeasureInv, BoundInv
  <2>2. /\ ledger # NoFile /\ artifact.calls = Len(ledger)
        /\ artifact.state = "measured" <=> artifact.failure = NoFile
        /\ artifact.final = "candidate" => promotion = "applied"
        /\ \E k \in 0..Len(called) :
             LET scores == [i \in 1..k |-> called[i].answer.score]
             IN  /\ ScoresOf(scores) /\ artifact.matched = Matched(scores)
                 /\ artifact.gain = Gain(scores, Matched(scores))
    BY <1>1, <2>1 DEF MeasureInv, ArtifactInv
  <2>3. PICK k \in 0..Len(called) :
             LET scores == [i \in 1..k |-> called[i].answer.score]
             IN  /\ ScoresOf(scores) /\ artifact.matched = Matched(scores)
                 /\ artifact.gain = Gain(scores, Matched(scores))
    BY <2>2
  <2>4. PICK scores : scores = [i \in 1..k |-> called[i].answer.score]
    OBVIOUS
  <2>5. PICK n : n = Matched(scores)
    OBVIOUS
  <2>6. ScoresOf(scores) /\ artifact.matched = n /\ artifact.gain = Gain(scores, n)
    BY <2>3, <2>4, <2>5
  <2>7. /\ k \in Nat /\ k <= Len(called) /\ k <= Len(Schedule)
        /\ DOMAIN called = 1..Len(called) /\ called \in Seq(Made)
    <3>1. called \in Seq(Made) /\ Len(called) <= Len(Schedule)
      BY <1>1 DEF MeasureInv, FilesTyped, CallsInv
    <3>2. Len(called) \in Nat /\ Len(Schedule) \in Nat /\ DOMAIN called = 1..Len(called)
      BY <3>1, ScheduleIs
    <3>3. k \in Nat /\ k <= Len(called)
      BY <3>2
    <3>. QED
      BY <3>1, <3>2, <3>3
  <2>8. /\ Len(scores) = k /\ scores \in Seq(Nat) /\ DOMAIN scores = 1..k
        /\ \A i \in 1..k : scores[i] \in Nat
    <3>1. \A i \in 1..k : called[i].answer.score \in Nat
      <4> SUFFICES ASSUME NEW i \in 1..k PROVE called[i].answer.score \in Nat
        OBVIOUS
      <4>1. called[i] \in Made
        BY <2>7
      <4>. QED
        BY <4>1 DEF Made, Answer
    <3>. QED
      BY <2>4, <2>7, <3>1
  <2>9. /\ n = k \div 4 /\ n \in 0..Len(Order) /\ Len(Order) \in Nat
        /\ \A m \in 1..Len(Order) :
             /\ 4 * m <= k <=> m <= n
             /\ m <= n => 4 * m \in 1..k /\ 4 * m - 2 \in 1..k
    <3>1. n = k \div 4
      BY <2>5, <2>8 DEF Matched
    <3>2. k <= 4 * Len(Order) /\ Len(Order) \in Nat
      <4>1. Len(Schedule) = 4 * Len(Order) /\ Len(Order) \in Nat
        BY ScheduleIs
      <4>. QED
        BY <4>1, <2>7
    <3>. QED
      BY <2>7, <3>1, <3>2, SMT
  <2>10. ASSUME NEW m \in 1..Len(Order)
         PROVE  /\ Given(Order[m], "initial") = IF 4 * m - 2 <= k THEN {scores[4 * m - 2]} ELSE {}
                /\ Given(Order[m], "final") = IF 4 * m <= k THEN {scores[4 * m]} ELSE {}
    <3>1. DOMAIN scores = 1..Len(scores) /\ Len(scores) \in Nat /\ Len(scores) = k
      BY <2>7, <2>8
    <3>2. \A side \in Sides : Given(Order[m], side) = IF Place(m, side) <= k THEN {scores[Place(m, side)]} ELSE {}
      BY <1>1, <2>6, <3>1, GivenIs
    <3>3. "initial" \in Sides /\ "final" \in Sides
      BY DEF Sides
    <3>. QED
      BY <3>2, <3>3 DEF Place
  <2>c. PICK C : C = FirstCases(n)
    OBVIOUS
  <2>11. C = {Order[i] : i \in 1..n}
    BY <2>c DEF FirstCases
  <2>12. Compared = C
    <3>1. \A m \in 1..Len(Order) :
            Given(Order[m], "initial") # {} /\ Given(Order[m], "final") # {} <=> m <= n
      <4> SUFFICES ASSUME NEW m \in 1..Len(Order)
                   PROVE  Given(Order[m], "initial") # {} /\ Given(Order[m], "final") # {} <=> m <= n
        OBVIOUS
      <4>1. m <= n => 4 * m <= k /\ 4 * m - 2 <= k
        BY <2>7, <2>9
      <4>2. 4 * m <= k <=> m <= n
        BY <2>9
      <4>3. /\ m <= n => Given(Order[m], "initial") # {} /\ Given(Order[m], "final") # {}
            /\ ~(m <= n) => Given(Order[m], "final") = {}
        BY <4>1, <4>2, <2>10
      <4>. QED
        BY <4>3
    <3>2. Range(Order) = {Order[m] : m \in 1..Len(Order)}
      <4>1. DOMAIN Order = 1..Len(Order)
        BY <2>9, GeneralizationAssumption
      <4>. QED
        BY <4>1 DEF Range
    <3>3. \A m \in 1..Len(Order) : Order[m] \in C <=> m <= n
      <4>1. ASSUME NEW m \in 1..Len(Order), Order[m] \in C PROVE m <= n
        <5>1. PICK i \in 1..n : Order[m] = Order[i]
          BY <2>11, <4>1
        <5>2. i \in 1..Len(Order)
          BY <2>9
        <5>. QED
          BY <2>9, <5>1, <5>2, CasesDiffer
      <4>2. ASSUME NEW m \in 1..Len(Order), m <= n PROVE Order[m] \in C
        BY <2>9, <2>11, <4>2
      <4>. QED
        BY <4>1, <4>2
    <3>4. C \subseteq Range(Order)
      BY <2>9, <2>11, <3>2
    <3>5. \A c \in Range(Order) : c \in C <=> Given(c, "initial") # {} /\ Given(c, "final") # {}
      BY <3>1, <3>2, <3>3
    <3>. QED
      BY <3>4, <3>5 DEF Compared
  <2>13. \A i \in 1..n : /\ Weight[Order[i]] \in Int
                         /\ Given(Order[i], "final") = {scores[4 * i]}
                         /\ Given(Order[i], "initial") = {scores[4 * i - 2]}
                         /\ scores[4 * i] - scores[4 * i - 2] \in Int
    <3> SUFFICES ASSUME NEW i \in 1..n
                 PROVE  /\ Weight[Order[i]] \in Int
                        /\ Given(Order[i], "final") = {scores[4 * i]}
                        /\ Given(Order[i], "initial") = {scores[4 * i - 2]}
                        /\ scores[4 * i] - scores[4 * i - 2] \in Int
      OBVIOUS
    <3>1. i \in 1..Len(Order) /\ i <= n
      BY <2>9
    <3>2. 4 * i \in 1..k /\ 4 * i - 2 \in 1..k
      BY <2>9, <3>1
    <3>3. Weight[Order[i]] \in Int
      <4>1. i \in 1..Len(Order)
        BY <3>1
      <4>. QED
        BY <4>1, WeightsAre, Zenon
    <3>4. 4 * i <= k /\ 4 * i - 2 <= k
      BY <2>7, <3>2
    <3>5. /\ Given(Order[i], "final") = {scores[4 * i]}
          /\ Given(Order[i], "initial") = {scores[4 * i - 2]}
      <4>1. i \in 1..Len(Order)
        BY <3>1
      <4>2. /\ Given(Order[i], "initial") = IF 4 * i - 2 <= k THEN {scores[4 * i - 2]} ELSE {}
            /\ Given(Order[i], "final") = IF 4 * i <= k THEN {scores[4 * i]} ELSE {}
        BY <2>10, <4>1, Zenon
      <4>. QED
        BY <3>4, <4>2
    <3>6. scores[4 * i] - scores[4 * i - 2] \in Int
      BY <2>8, <3>2
    <3>. QED
      BY <3>3, <3>5, <3>6
  <2>14. \A x : The({x}) = x
    BY DEF The
  <2>15. PICK weights : weights = [c \in C |-> Weight[c]]
    OBVIOUS
  <2>16. PICK gains : gains = [c \in C |-> Weight[c] * (The(Given(c, "final")) - The(Given(c, "initial")))]
    OBVIOUS
  <2>17. \A i \in 1..n : /\ weights[Order[i]] = Weight[Order[i]]
                         /\ gains[Order[i]] = Weight[Order[i]] * (scores[4 * i] - scores[4 * i - 2])
    BY <2>11, <2>13, <2>14, <2>15, <2>16
  <2>18. weights \in [C -> Int] /\ gains \in [C -> Int]
    <3>1. \A i \in 1..n : weights[Order[i]] \in Int /\ gains[Order[i]] \in Int
      <4> SUFFICES ASSUME NEW i \in 1..n PROVE weights[Order[i]] \in Int /\ gains[Order[i]] \in Int
        OBVIOUS
      <4>1. PICK a \in Int : a = Weight[Order[i]]
        BY <2>13
      <4>2. PICK b \in Int : b = scores[4 * i] - scores[4 * i - 2]
        BY <2>13
      <4>3. a * b \in Int
        OBVIOUS
      <4>. QED
        BY <2>17, <4>1, <4>2, <4>3
    <3>2. \A c \in C : weights[c] \in Int /\ gains[c] \in Int
      BY <2>11, <3>1
    <3>. QED
      BY <2>15, <2>16, <3>2
  <2>19. /\ SumOver(weights) = WeightedSum(Weights(n))
         /\ Cardinality(C) = n
    <3>1. Weights(n) = Along(weights, n)
      <4>1. PICK f : f = Along(weights, n) /\ f = [i \in 1..n |-> weights[Order[i]]]
        BY DEF Along
      <4>2. \A i \in 1..n : Weights(n)[i] = f[i]
        BY <4>1, <2>17 DEF Weights
      <4>3. Weights(n) = [i \in 1..n |-> Weights(n)[i]]
        BY Zenon DEF Weights
      <4>. QED
        BY <4>1, <4>2, <4>3, SameAlong, Zenon
    <3>2. n \in 0..Len(Order)
      BY <2>9
    <3>3. weights \in [FirstCases(n) -> Int]
      BY <2>c, <2>18
    <3>. QED
      BY <2>c, <3>1, <3>2, <3>3, SumOfCases
  <2>20. SumOver(gains) = WeightedSum(Gains(scores, n))
    <3>1. Gains(scores, n) = Along(gains, n)
      <4>1. PICK f : f = Along(gains, n) /\ f = [i \in 1..n |-> gains[Order[i]]]
        BY DEF Along
      <4>2. \A i \in 1..n : Gains(scores, n)[i] = f[i]
        BY <4>1, <2>17 DEF Gains
      <4>3. Gains(scores, n) = [i \in 1..n |-> Gains(scores, n)[i]]
        BY Zenon DEF Gains
      <4>. QED
        BY <4>1, <4>2, <4>3, SameAlong, Zenon
    <3>2. n \in 0..Len(Order)
      BY <2>9
    <3>3. gains \in [FirstCases(n) -> Int]
      BY <2>c, <2>18
    <3>. QED
      BY <2>c, <3>1, <3>2, <3>3, SumOfCases
  <2>21. /\ artifact.gain.weight = WeightedSum(Weights(n))
         /\ artifact.gain.sum = WeightedSum(Gains(scores, n))
    BY <2>6 DEF Gain, Gains, Weights
  <2>22. promotion # "applied" => artifact.final = "initial"
    <3>1. artifact \in Artifacts
      BY <1>1, <2>1 DEF MeasureInv, FilesTyped
    <3>. QED
      BY <2>2, <3>1 DEF Artifacts, Policies
  <2>. QED
    <3>1. artifact.gain.weight = SumOver([c \in Compared |-> Weight[c]])
      BY <2>12, <2>15, <2>19, <2>21
    <3>2. artifact.gain.sum = SumOver([c \in Compared |->
                                Weight[c] * (The(Given(c, "final")) - The(Given(c, "initial")))])
      BY <2>12, <2>16, <2>20, <2>21
    <3>3. artifact.matched = Cardinality(Compared)
      BY <2>6, <2>12, <2>19
    <3>. QED
      BY <2>1, <2>2, <2>22, <3>1, <3>2, <3>3 DEF MeasurementTrue
<1>2. MeasureInv => MeasurementTrue
  <2>1. CASE series.generalization \in Terminal
    BY <1>1, <2>1
  <2>2. CASE series.generalization \notin Terminal
    BY <2>2 DEF MeasurementTrue
  <2>. QED
    BY <2>1, <2>2
<1>. QED
  BY <1>2, MeasureAlways, PTL

=============================================================================
