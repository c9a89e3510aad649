-------------------------- MODULE CampaignLoopProofs --------------------------
(***************************************************************************)
(* Proofs about CampaignLoop for any dataset, observers, gates, answers,     *)
(* candidates and budgets, and any number of failures, faults and deaths.   *)
(***************************************************************************)
EXTENDS CampaignLoop, FoldLemmas, SequenceTheorems

Stopped == {"summary", "write", "cleanup"}
Previewing == {"presummary", "bundle"}
Going == Working \cup Previewing \cup {"audit", "open", "iterate", "report"}

(* The shapes of campaign.json, in memory or on disk, and of the process.     *)
CampaignRecord(m) ==
  m = [state |-> m.state, iteration |-> m.iteration, rejected |-> m.rejected, audited |-> m.audited,
       candidate |-> m.candidate, report |-> m.report, aggregate |-> m.aggregate, summary |-> m.summary]
Memory(m) ==
  /\ CampaignRecord(m) /\ m.state \in {"running", "failed"} \cup Clean
  /\ m.iteration \in 0..MaxIterations + trouble.fault
  /\ m.rejected \in Seq(ToSet(m.rejected)) /\ Len(m.rejected) \in 0..MaxIterations
  /\ m.candidate \in Candidates \cup {NoFile}
IsLog(events) == \E S \in SUBSET Ids : events \in Logs(S)
IsReport(r) == \E S \in SUBSET Ids : r \in Reports(S)
IsSummary(s) == \E F \in SUBSET Findings : s \in Summaries(F)
RunRecord(r) ==
  r = [pc |-> r.pc, fresh |-> r.fresh, caught |-> r.caught, memory |-> r.memory, i |-> r.i,
       events |-> r.events, call |-> r.call, candidate |-> r.candidate, goal |-> r.goal]

RunTyped ==
  run # Idle =>
    /\ RunRecord(run) /\ run.pc \in {"audit", "open"} \cup Tried
    /\ Memory(run.memory) /\ run.i \in Nat \ {0} /\ IsLog(run.events)
    /\ run.goal \in Clean \cup {"failed"}

FilesTyped ==
  /\ campaign = Absent \/ Memory(campaign)
  /\ checkpoint = NoFile \/ IsLog(checkpoint)
  /\ report = NoFile \/ IsReport(report)
  /\ summary = NoFile \/ IsSummary(summary)
  /\ IsFiniteSet(DOMAIN differential) /\ DOMAIN differential \subseteq 0..MaxIterations - 1
  /\ \A n \in DOMAIN differential : differential[n] \in Findings
  /\ bundle = NoFile \/ /\ bundle.candidate \in Candidates /\ bundle # NoFile
                        /\ bundle = [candidate |-> bundle.candidate, report |-> bundle.report,
                                     summary |-> bundle.summary]
  /\ trouble.fault \in 0..MaxFaults /\ trouble.kill \in 0..MaxKills /\ trouble.lost \in Nat
  /\ trouble = [fault |-> trouble.fault, kill |-> trouble.kill, lost |-> trouble.lost]

-----------------------------------------------------------------------------
(* The cache and the call in flight.                                          *)
CacheTyped ==
  /\ IsFiniteSet(DOMAIN cache)
  /\ \A call \in DOMAIN cache :
       IF cache[call].ok THEN cache[call].value \in Answers(call) ELSE cache[call].value \in Failures
  /\ budget \in {NoFile} \cup 0..MaxCalls
  /\ budget = NoFile => trouble.lost = 0
InFlight ==
  run # Idle =>
    /\ run.call # <<>> => /\ run.pc \in Working /\ run.call \notin DOMAIN cache
                          /\ \E n \in DOMAIN Calls : Calls[n] = run.call
    /\ run.pc \in Working \cup {"iterate"} => budget # NoFile
    /\ run.fresh /\ run.pc \in {"audit", "open"} => budget = NoFile

(* The campaign, its process and the bundle.                                  *)
CourseInv ==
  /\ campaign = Absent => budget = NoFile /\ run = Idle /\ bundle = NoFile
  /\ run # Idle => /\ run.memory.rejected = campaign.rejected
                   /\ Len(run.memory.rejected) <= run.memory.iteration
                   /\ run.pc \in Working \cup Previewing => run.memory.iteration < MaxIterations
                   /\ run.pc \in Previewing => run.goal = "promotion_previewed"
                   /\ run.pc = "report" => run.goal \in Clean
                   /\ run.pc \in {"summary", "write"} => run.memory.state # "running"
                   /\ run.pc \in Going => /\ run.memory.iteration = campaign.iteration
                                          /\ campaign.state \in {"running", "failed"}
                                          /\ run.memory.state \in {"running", "failed"}
                                          /\ bundle = NoFile
  /\ campaign # Absent => Len(campaign.rejected) <= campaign.iteration
  /\ run # Idle /\ run.pc = "report" /\ run.goal = "promotion_previewed" =>
       run.memory.iteration < MaxIterations
IterationInv ==
  /\ bundle = NoFile => /\ campaign # Absent => campaign.iteration <= MaxIterations
                        /\ run # Idle => run.memory.iteration <= MaxIterations
  /\ bundle # NoFile => /\ campaign.state \in {"running", "failed"} =>
                             campaign.iteration < MaxIterations + trouble.fault
                        /\ run # Idle /\ run.memory.state \in {"running", "failed"} =>
                             run.memory.iteration < MaxIterations + trouble.fault

-----------------------------------------------------------------------------
(* What the gates were applied to is in the cache for good.                   *)
HasScores(case, policy) ==
  <<"evaluator", case, policy>> \in DOMAIN cache /\ cache[<<"evaluator", case, policy>>].ok
Judged(candidate) == \A case \in Cases : HasScores(case, Parent) /\ HasScores(case, candidate)
Found == {c \in Candidates : Judged(c) /\ ReachesAll(c)}
Refuted == {c \in Candidates : Judged(c) /\ ~ReachesAll(c)}
Covered(i, candidate) ==
  \A j \in 1..3 * Len(Rest) : j < i =>
    HasScores(Rest[((j - 1) \div 3) + 1], IF j % 3 = 2 THEN candidate ELSE Parent)
Finding == run # Idle /\ run.goal = "promotion_previewed" /\ run.pc \in {"report"} \cup Previewing
GateInv ==
  /\ campaign # Absent => /\ IsFiniteSet(Seen(campaign))
                          /\ Cardinality(Seen(campaign)) = Len(campaign.rejected)
                          /\ Seen(campaign) \subseteq Refuted
  /\ run # Idle /\ run.pc = "score" => /\ run.candidate \in Candidates \ Seen(campaign)
                                       /\ Covered(run.i, run.candidate)
  /\ Finding => run.candidate \in Found \ Seen(campaign)
  /\ bundle # NoFile => bundle.candidate \in Found \ Seen(campaign)
PreviewInv ==
  /\ campaign.state = "promotion_previewed" =>
       bundle # NoFile /\ campaign.candidate = bundle.candidate
  /\ run # Idle /\ run.memory.state = "promotion_previewed" =>
       bundle # NoFile /\ run.memory.candidate = bundle.candidate

(* A bundle is made of a report and a summary.                                *)
FiledInv ==
  run # Idle => /\ run.pc \in Previewing => report # NoFile
                /\ run.pc = "bundle" => summary # NoFile

LoopInv ==
  /\ FilesTyped /\ RunTyped /\ CacheTyped /\ CallsAccounted /\ InFlight
  /\ CourseInv /\ IterationInv /\ GateInv /\ PreviewInv /\ FiledInv

-----------------------------------------------------------------------------
(* The evaluations of an iteration come in one order, that its answers in the *)
(* cache decide: the train cases, and, if one is patchable, its analysis is   *)
(* settled and a new candidate is proposed, the gated cases under the parent  *)
(* and the candidate.                                                         *)
TrainItem(j) == <<Train[j], Parent>>
ScoreItem(j, candidate) == <<Rest[((j - 1) \div 3) + 1], IF j % 3 = 2 THEN candidate ELSE Parent>>
Evaluates(id) == EvaluationCalls(id[1], id[2])
TrainedUpTo(i) == \A j \in DOMAIN Train : j < i => Done(Evaluates(TrainItem(j)))
ScoredUpTo(i, candidate) ==
  \A j \in 1..3 * Len(Rest) : j < i => Done(Evaluates(ScoreItem(j, candidate)))
Diagnosed == (\A j \in DOMAIN Train : Done(Evaluates(TrainItem(j)))) /\ PatchableTrain # {}
Settled == Diagnosed /\ (Analysed \/ Failed(AnalysisCalls(Chosen)) # {})
Proposal == <<"proposer", Chosen, campaign.rejected, Analysed>>
Proposes(candidate) ==
  Settled /\ Answered(Proposal) /\ cache[Proposal].ok /\ cache[Proposal].value = candidate

(* An evaluation that the checkpoint lacks is the next one of the iteration:  *)
(* a resumed campaign that finds the cache as it was cannot pass it.          *)
Unlogged == IF checkpoint = NoFile THEN {} ELSE Evaluated \ DOMAIN checkpoint
InTrain(id, i) == \E j \in DOMAIN Train : i <= j /\ id = TrainItem(j) /\ TrainedUpTo(j)
InScore(id, i) ==
  \E candidate \in Candidates \ Seen(campaign), j \in 1..3 * Len(Rest) :
    i <= j /\ id = ScoreItem(j, candidate) /\ Proposes(candidate) /\ ScoredUpTo(j, candidate)
Pending(id) == campaign.iteration < MaxIterations /\ (InTrain(id, 1) \/ InScore(id, 1))
PendingInv == bundle = NoFile => \A id \in Unlogged : Pending(id)

(* An evaluation was asked after its output, and its observers in order.      *)
ObserverCall(id, o) == <<"observer", id[1], id[2], o>>
OrderInv ==
  /\ \A id \in Evaluated :
       id \in Ids /\ HasScores(id[1], id[2]) /\ Answered(<<"actor", id[1], id[2]>>)
  /\ \A id \in Ids, o \in Observers : Answered(ObserverCall(id, o)) =>
       \E k \in 1..Len(ObserverOrder) :
         ObserverOrder[k] = o /\ \A j \in 1..k : Answered(ObserverCall(id, ObserverOrder[j]))
CallInv ==
  run # Idle /\ run.call # <<>> =>
    \E n \in DOMAIN Calls :
      Calls[n] = run.call /\ \A j \in DOMAIN Calls : j < n => Answered(Calls[j]) /\ j \notin Failed(Calls)

(* An event of the checkpoint has every slot.                                 *)
LogInv ==
  checkpoint # NoFile =>
    /\ DOMAIN checkpoint \subseteq Evaluated
    /\ \A id \in DOMAIN checkpoint, o \in Observers :
         Answered(ObserverCall(id, o)) /\ checkpoint[id].observers[o] = Slot(id[1], id[2], o)

(* Where the process is in that order.                                        *)
PlaceInv ==
  run # Idle =>
    /\ bundle = NoFile => run.memory.iteration = campaign.iteration
    /\ run.pc \in {"audit", "open"} => run.events = Nothing
    /\ run.pc \in Working \cup {"iterate"} => checkpoint # NoFile /\ run.events = checkpoint
    /\ run.pc = "train" => /\ TrainedUpTo(run.i)
                           /\ \A id \in Unlogged : InTrain(id, run.i) \/ InScore(id, 1)
    /\ run.pc \in {"differential", "propose"} => Diagnosed /\ \A id \in Unlogged : InScore(id, 1)
    /\ run.pc = "propose" => Settled
    /\ run.pc = "score" => /\ Proposes(run.candidate) /\ ScoredUpTo(run.i, run.candidate)
                           /\ \A id \in Unlogged : InScore(id, run.i)

(* What the end files.                                                        *)
AllAnswered == \A id \in Evaluated, o \in Observers : Answered(ObserverCall(id, o))
LogComplete(events) ==
  /\ DOMAIN events = Evaluated
  /\ \A id \in Evaluated, o \in Observers : events[id].observers[o] = SlotFound(id, o)
Truthful(r, goal) ==
  /\ r # NoFile /\ LogComplete(r.events)
  /\ r.collection = IF goal = "budget_exhausted" THEN "budget_exhausted" ELSE "complete"
  /\ goal # "budget_exhausted" => AllAnswered
Filed(m) ==
  /\ Truthful(report, m.state) /\ m.report = report
  /\ m.aggregate = AgreementSummary(report.events, Dimensions)
Summed(m) == summary # NoFile /\ m.summary = summary /\ summary = Analyses
RecordInv ==
  /\ campaign.state \in Clean => Filed(campaign) /\ Summed(campaign)
  /\ bundle # NoFile => Truthful(bundle.report, "promotion_previewed") /\ bundle.summary = Analyses
EndInv ==
  run # Idle =>
    /\ run.pc = "report" => /\ LogComplete(run.events)
                            /\ run.goal # "budget_exhausted" => AllAnswered
    /\ run.pc \in Previewing => Truthful(report, "promotion_previewed")
    /\ run.pc = "bundle" => summary = Analyses
    /\ run.pc \in Stopped /\ run.memory.state \in Clean =>
         Filed(run.memory) /\ (run.pc # "summary" => Summed(run.memory))

EvidenceInv == PendingInv /\ OrderInv /\ CallInv /\ LogInv /\ PlaceInv /\ RecordInv /\ EndInv

-----------------------------------------------------------------------------
(* The calls of an evaluation.                                                *)
LEMMA Bounds ==
  /\ MaxCalls \in Nat \ {0} /\ MaxIterations \in Nat \ {0}
  /\ MaxFaults \in Nat /\ MaxKills \in Nat /\ NoFile \notin Nat
BY LoopAssumption, Zenon

LEMMA FourAreSome == \A a, b, c, d : <<a, b, c, d>> # <<>>
OBVIOUS

LEMMA ConcatIs ==
  ASSUME NEW S, NEW s \in Seq(S), NEW t \in Seq(S)
  PROVE  /\ s \o t \in Seq(S) /\ Len(s \o t) = Len(s) + Len(t)
         /\ \A i \in 1..Len(s) : (s \o t)[i] = s[i]
         /\ \A i \in 1..Len(t) : (s \o t)[i + Len(s)] = t[i]
<1>1. ASSUME NEW i \in 1..Len(t) PROVE (s \o t)[i + Len(s)] = t[i]
  <2>1. PICK j : j = i + Len(s)
    OBVIOUS
  <2>2. j \in 1..Len(s) + Len(t) /\ ~(j <= Len(s)) /\ j - Len(s) = i
    BY <2>1
  <2>3. (s \o t)[j] = t[j - Len(s)]
    BY <2>2
  <2>. QED
    BY <2>1, <2>2, <2>3
<1>. QED
  BY <1>1

LEMMA EvaluationCallsAre ==
  ASSUME NEW case, NEW policy
  PROVE  /\ DOMAIN EvaluationCalls(case, policy) = 1..2 + Len(ObserverOrder)
         /\ Len(ObserverOrder) \in Nat
         /\ EvaluationCalls(case, policy)[1] = <<"actor", case, policy>>
         /\ EvaluationCalls(case, policy)[2] = <<"evaluator", case, policy>>
         /\ \A i \in 1..Len(ObserverOrder) :
              EvaluationCalls(case, policy)[i + 2] = <<"observer", case, policy, ObserverOrder[i]>>
<1>1. PICK k \in Nat : k = Len(ObserverOrder) /\ DOMAIN ObserverOrder = 1..k
  <2>1. ObserverOrder \in Seq(Observers)
    BY LoopAssumption, Zenon
  <2>. QED
    BY <2>1
<1>2. PICK first : first = <<<<"actor", case, policy>>, <<"evaluator", case, policy>>>>
  OBVIOUS
<1>3. PICK others : others = [n \in DOMAIN ObserverOrder |-> <<"observer", case, policy, ObserverOrder[n]>>]
  OBVIOUS
<1>4. PICK S : S = {first[1], first[2]} \cup {others[n] : n \in 1..k}
  OBVIOUS
<1>5. others \in Seq(S) /\ Len(others) = k
  <2>1. others = [n \in 1..k |-> others[n]]
    BY <1>1, <1>3
  <2>2. \A n \in 1..k : others[n] \in S
    BY <1>4
  <2>3. others \in [1..k -> S]
    BY <2>1, <2>2
  <2>. QED
    BY <2>3
<1>6. first \in Seq(S) /\ Len(first) = 2
  BY <1>2, <1>4
<1>7. EvaluationCalls(case, policy) = first \o others
  BY <1>2, <1>3 DEF EvaluationCalls
<1>8. /\ DOMAIN (first \o others) = 1..2 + k
      /\ (first \o others)[1] = first[1] /\ (first \o others)[2] = first[2]
      /\ \A i \in 1..k : (first \o others)[i + 2] = others[i]
  <2>1. /\ first \o others \in Seq(S) /\ Len(first \o others) = Len(first) + Len(others)
        /\ \A i \in 1..Len(first) : (first \o others)[i] = first[i]
        /\ \A i \in 1..Len(others) : (first \o others)[i + Len(first)] = others[i]
    <3>1. first \in Seq(S)
      BY <1>6
    <3>2. others \in Seq(S)
      BY <1>5
    <3>. QED
      BY <3>1, <3>2, ConcatIs
  <2>2. DOMAIN (first \o others) = 1..Len(first \o others)
    BY <2>1
  <2>3. 1 \in 1..2 /\ 2 \in 1..2
    OBVIOUS
  <2>. QED
    BY <1>5, <1>6, <2>1, <2>2, <2>3
<1>9. first[1] = <<"actor", case, policy>> /\ first[2] = <<"evaluator", case, policy>>
  BY <1>2
<1>10. \A i \in 1..k : others[i] = <<"observer", case, policy, ObserverOrder[i]>>
  BY <1>1, <1>3
<1>. QED
  BY <1>1, <1>7, <1>8, <1>9, <1>10

LEMMA CallsAre ==
  /\ DOMAIN Calls \subseteq Nat
  /\ \A n \in DOMAIN Calls : Calls[n] # <<>>
  /\ run.pc \notin Working => Calls = <<>>
<1>1. ASSUME NEW case, NEW policy
      PROVE  /\ DOMAIN EvaluationCalls(case, policy) \subseteq Nat
             /\ \A n \in DOMAIN EvaluationCalls(case, policy) : EvaluationCalls(case, policy)[n] # <<>>
  <2>1. PICK k \in Nat : k = Len(ObserverOrder)
    BY EvaluationCallsAre
  <2>2. DOMAIN EvaluationCalls(case, policy) = 1..2 + k
    BY <2>1, EvaluationCallsAre
  <2>3. ASSUME NEW n \in 1..2 + k PROVE EvaluationCalls(case, policy)[n] # <<>>
    <3>1. CASE n = 1
      BY <3>1, EvaluationCallsAre
    <3>2. CASE n = 2
      BY <3>2, EvaluationCallsAre
    <3>3. CASE n > 2
      <4>1. PICK i \in 1..k : i = n - 2 /\ i + 2 = n
        BY <3>3
      <4>0. \A j \in 1..k :
              EvaluationCalls(case, policy)[j + 2] = <<"observer", case, policy, ObserverOrder[j]>>
        BY <2>1, EvaluationCallsAre, Zenon
      <4>2. EvaluationCalls(case, policy)[i + 2] = <<"observer", case, policy, ObserverOrder[i]>>
        BY <4>0, <4>1, Zenon
      <4>3. <<"observer", case, policy, ObserverOrder[i]>> # <<>>
        BY FourAreSome
      <4>. QED
        BY <4>1, <4>2, <4>3, Zenon
    <3>. QED
      BY <3>1, <3>2, <3>3
  <2>. QED
    BY <2>2, <2>3
<1>2. \A case : /\ DOMAIN AnalysisCalls(case) \subseteq Nat
                /\ \A n \in DOMAIN AnalysisCalls(case) : AnalysisCalls(case)[n] # <<>>
  BY DEF AnalysisCalls
<1>3. \A case, rejected, analysed :
        /\ DOMAIN ProposalCalls(case, rejected, analysed) \subseteq Nat
        /\ \A n \in DOMAIN ProposalCalls(case, rejected, analysed) :
             ProposalCalls(case, rejected, analysed)[n] # <<>>
  BY DEF ProposalCalls
<1>4. DOMAIN <<>> \subseteq Nat /\ \A n \in DOMAIN <<>> : <<>>[n] # <<>>
  OBVIOUS
<1>5. CASE run.pc = "train"
  <2>1. Calls = IF run.i \in DOMAIN Train THEN EvaluationCalls(Train[run.i], Parent) ELSE <<>>
    BY <1>5 DEF Calls, At
  <2>. QED
    BY <1>1, <1>4, <1>5, <2>1 DEF Working
<1>6. CASE run.pc = "differential"
  <2>1. Calls = AnalysisCalls(Chosen)
    BY <1>6 DEF Calls, At
  <2>. QED
    BY <1>2, <1>6, <2>1 DEF Working
<1>7. CASE run.pc = "propose"
  <2>1. Calls = ProposalCalls(Chosen, run.memory.rejected, Analysed)
    BY <1>7 DEF Calls, At
  <2>. QED
    BY <1>3, <1>7, <2>1 DEF Working
<1>8. CASE run.pc = "score"
  <2>1. Calls = IF run.i \in 1..3 * Len(Rest) THEN EvaluationCalls(ScoredCase, ScoredPolicy) ELSE <<>>
    BY <1>8 DEF Calls, At
  <2>. QED
    BY <1>1, <1>4, <1>8, <2>1 DEF Working
<1>9. CASE run.pc \notin Working
  <2>1. Calls = <<>>
    BY <1>9 DEF Calls, At, Working
  <2>. QED
    BY <1>4, <2>1
<1>. QED
  BY <1>5, <1>6, <1>7, <1>8, <1>9 DEF Working

(* The next call is the first one without an answer.                          *)
LEMMA NextCallIs ==
  ASSUME Due
  PROVE  /\ NextCall \in DOMAIN Calls /\ NextCall \in Nat /\ Calls[NextCall] \notin DOMAIN cache
         /\ Calls[NextCall] # <<>>
         /\ \A n \in DOMAIN Calls : n < NextCall => Calls[n] \in DOMAIN cache /\ n \notin Failed(Calls)
<1>1. PICK C : C = Calls
  OBVIOUS
<1>2. DOMAIN C \subseteq Nat /\ \A n \in DOMAIN C : C[n] # <<>>
  <2>1. DOMAIN Calls \subseteq Nat /\ \A n \in DOMAIN Calls : Calls[n] # <<>>
    BY CallsAre
  <2>. QED
    BY <1>1, <2>1
<1>3. Failed(C) = {} /\ Uncached(C) # {} /\ Uncached(C) \subseteq Nat
  BY <1>1, <1>2 DEF Due, Uncached
<1>4. PICK n \in Uncached(C) : n = Min(Uncached(C)) /\ \A k \in Uncached(C) : n <= k
  BY <1>3, MinOfNaturals
<1>5. n = NextCall
  BY <1>1, <1>4 DEF NextCall
<1>6. n \in DOMAIN C /\ C[n] \notin DOMAIN cache /\ n \in Nat
  BY <1>2, <1>4 DEF Uncached, Answered
<1>7. ASSUME NEW k \in DOMAIN C, k < n PROVE C[k] \in DOMAIN cache /\ k \notin Failed(C)
  <2>1. k \notin Uncached(C)
    BY <1>2, <1>4, <1>6, <1>7
  <2>. QED
    BY <1>3, <2>1 DEF Uncached, Answered
<1>. QED
  BY <1>1, <1>2, <1>5, <1>6, <1>7

(* No call is in flight where the calls have their answers or there are none. *)
LEMMA NothingInFlight ==
  ASSUME InFlight, run # Idle, Done(Calls) \/ DOMAIN Calls = {} \/ run.pc \notin Working
  PROVE  run.call = <<>>
<1> SUFFICES ASSUME run.call # <<>> PROVE FALSE
  OBVIOUS
<1>1. PICK n \in DOMAIN Calls : Calls[n] = run.call /\ run.call \notin DOMAIN cache
  BY DEF InFlight
<1>2. n \in Uncached(Calls)
  BY <1>1 DEF Uncached, Answered
<1>3. run.pc \in Working
  BY DEF InFlight
<1>. QED
  BY <1>1, <1>2, <1>3 DEF Done

-----------------------------------------------------------------------------
(* What an event of the agreement report holds.                               *)
LEMMA AnswersAre ==
  ASSUME CacheTyped, NEW call \in DOMAIN cache, cache[call].ok
  PROVE  /\ \A case \in AllCases, policy \in Policies :
              call = <<"evaluator", case, policy>> =>
                /\ cache[call].value.scores \in [Dimensions -> Int]
                /\ cache[call].value.signals \subseteq 0..8
         /\ \A case \in AllCases, policy \in Policies, o \in Observers :
              call = <<"observer", case, policy, o>> => cache[call].value \in [Dimensions -> Int]
<1>1. PICK v : v = cache[call].value /\ v \in Answers(call)
  BY DEF CacheTyped
<1>2. ASSUME NEW case \in AllCases, NEW policy \in Policies, call = <<"evaluator", case, policy>>
      PROVE  v.scores \in [Dimensions -> Int] /\ v.signals \subseteq 0..8
  <2>1. v \in Evaluations[<<case, policy>>]
    BY <1>1, <1>2 DEF Answers
  <2>2. PICK x \in Ids : x = <<case, policy>>
    BY DEF Ids
  <2>3. Evaluations[x] \subseteq [scores : [Dimensions -> Int], signals : SUBSET (0..8)]
    BY LoopAssumption, Zenon
  <2>4. v \in [scores : [Dimensions -> Int], signals : SUBSET (0..8)]
    BY <2>1, <2>2, <2>3
  <2>. QED
    BY <2>4
<1>3. ASSUME NEW case \in AllCases, NEW policy \in Policies, NEW o \in Observers,
             call = <<"observer", case, policy, o>>
      PROVE  v \in [Dimensions -> Int]
  <2>1. v \in Observations[<<o, case, policy>>]
    BY <1>1, <1>3 DEF Answers
  <2>0. PICK x \in Ids : x = <<case, policy>>
    BY DEF Ids
  <2>2. x[1] = case /\ x[2] = policy
    BY <2>0
  <2>3. Observations[<<o, x[1], x[2]>>] \subseteq [Dimensions -> Int]
    BY LoopAssumption, Zenon
  <2>. QED
    BY <2>1, <2>2, <2>3
<1>. QED
  BY <1>1, <1>2, <1>3

LEMMA EventIs ==
  ASSUME CacheTyped, NEW case \in AllCases, NEW policy \in Policies,
         NEW n \in 0..Len(ObserverOrder),
         <<"evaluator", case, policy>> \in DOMAIN cache, cache[<<"evaluator", case, policy>>].ok,
         \A i \in 1..n : <<"observer", case, policy, ObserverOrder[i]>> \in DOMAIN cache
  PROVE  EventUpTo(case, policy, n) \in Events
<1>1. PICK primary \in [Dimensions -> Int] : primary = Evaluation(case, policy).scores
  <2>1. PICK call : call = <<"evaluator", case, policy>>
    OBVIOUS
  <2>2. cache[call].value.scores \in [Dimensions -> Int]
    BY <2>1, AnswersAre
  <2>. QED
    BY <2>1, <2>2 DEF Evaluation
<1>2. PICK part \in Partitions \cup {"train"} :
        part = IF case \in Cases THEN PartitionOf[case] ELSE "train"
  BY GateAssumption
<1>3. ASSUME NEW o \in Observers, \E i \in 1..n : ObserverOrder[i] = o
      PROVE  Slot(case, policy, o) \in Slots
  <2>1. PICK call : call = <<"observer", case, policy, o>>
    OBVIOUS
  <2>2. call \in DOMAIN cache
    BY <1>3, <2>1
  <2>3. PICK a : a = cache[call]
    OBVIOUS
  <2>4. CASE a.ok
    <3>1. a.value \in [Dimensions -> Int]
      BY <2>1, <2>2, <2>3, <2>4, AnswersAre
    <3>. QED
      BY <2>1, <2>3, <2>4, <3>1 DEF Slot, Scored, Slots
  <2>5. CASE ~a.ok
    <3>1. a.value \in Failures
      BY <2>2, <2>3, <2>5 DEF CacheTyped
    <3>. QED
      BY <2>1, <2>3, <2>5, <3>1 DEF Slot, Missing, Slots
  <2>. QED
    BY <2>4, <2>5
<1>4. Missing("not_attempted_budget_exhausted") \in Slots
  BY DEF Missing, Slots
<1>5. PICK slots \in [Observers -> Slots] : slots =
        [o \in Observers |-> IF \E i \in 1..n : ObserverOrder[i] = o THEN Slot(case, policy, o)
                             ELSE Missing("not_attempted_budget_exhausted")]
  BY <1>3, <1>4
<1>6. EventUpTo(case, policy, n) = [partition |-> part, primary |-> primary, observers |-> slots]
  BY <1>1, <1>2, <1>5, Zenon DEF EventUpTo, Event
<1>. QED
  BY <1>1, <1>2, <1>5, <1>6 DEF Events

LEMMA LogWith ==
  ASSUME NEW events, IsLog(events), NEW case \in AllCases, NEW policy \in Policies, NEW e \in Events
  PROVE  IsLog(Put(events, <<case, policy>>, e))
<1>1. PICK S \in SUBSET Ids : events \in [S -> Events]
  BY DEF IsLog, Logs
<1>2. PICK id \in Ids : id = <<case, policy>>
  BY DEF Ids
<1>3. PICK T \in SUBSET Ids : T = S \cup {id}
  OBVIOUS
<1>4. Put(events, id, e) = [z \in T |-> IF z = id THEN e ELSE events[z]]
  BY <1>1, <1>3 DEF Put
<1>5. Put(events, id, e) \in [T -> Events]
  BY <1>1, <1>3, <1>4
<1>. QED
  BY <1>2, <1>5 DEF IsLog, Logs

LEMMA EmptyLog == IsLog(Nothing)
<1>1. Nothing \in [{} -> Events]
  BY DEF Nothing
<1>2. {} \in SUBSET Ids
  OBVIOUS
<1>. QED
  BY <1>1, <1>2 DEF IsLog, Logs

-----------------------------------------------------------------------------
(* The cache only grows, so a judgement on cached scores stays.               *)
Grown == DOMAIN cache \subseteq DOMAIN cache' /\ \A call \in DOMAIN cache : cache'[call] = cache[call]

LEMMA JudgementStays ==
  ASSUME Grown
  PROVE  Found \subseteq Found' /\ Refuted \subseteq Refuted'
<1>1. ASSUME NEW c, Judged(c)
      PROVE  /\ Judged(c)'
             /\ Scores(c)' = Scores(c) /\ Scores(Parent)' = Scores(Parent)
             /\ ReachesAll(c)' = ReachesAll(c)
  <2>1. Judged(c)'
    BY <1>1 DEF Judged, HasScores, Grown
  <2>2. \A case \in Cases : /\ Evaluation(case, c)' = Evaluation(case, c)
                            /\ Evaluation(case, Parent)' = Evaluation(case, Parent)
    BY <1>1 DEF Judged, HasScores, Grown, Evaluation
  <2>3. Scores(c)' = Scores(c) /\ Scores(Parent)' = Scores(Parent)
    BY <2>2 DEF Scores
  <2>. QED
    BY <2>1, <2>3 DEF ReachesAll
<1>. QED
  BY <1>1 DEF Found, Refuted

(* Every gated case has its scores under both policies once all are scored.   *)
LEMMA CoveredAll ==
  ASSUME NEW c \in Candidates, NEW i \in Nat, i > 3 * Len(Rest), Covered(i, c)
  PROVE  Judged(c)
<1>1. PICK n \in Nat : n = Len(Rest) /\ DOMAIN Rest = 1..n
  <2>1. Rest \in Seq(Cases)
    BY LoopAssumption, Zenon
  <2>. QED
    BY <2>1
<1>2. ASSUME NEW case \in Cases
      PROVE  HasScores(case, Parent) /\ HasScores(case, c)
  <2>1. PICK k \in 1..n : Rest[k] = case
    <3>1. ToSet(Rest) = Cases
      BY LoopAssumption, Zenon
    <3>. QED
      BY <1>1, <3>1 DEF ToSet
  <2>2. PICK q \in 0..n - 1 : q = k - 1
    OBVIOUS
  <2>3. PICK j \in 1..3 * n : j = 3 * q + 1
    OBVIOUS
  <2>4. j < i /\ ((j - 1) \div 3) + 1 = k /\ j % 3 # 2
    BY <1>1, <2>2, <2>3
  <2>5. PICK h \in 1..3 * n : h = 3 * q + 2
    OBVIOUS
  <2>6. h < i /\ ((h - 1) \div 3) + 1 = k /\ h % 3 = 2
    BY <1>1, <2>2, <2>5
  <2>7. HasScores(Rest[((j - 1) \div 3) + 1], IF j % 3 = 2 THEN c ELSE Parent)
    BY <1>1, <2>4, Zenon DEF Covered
  <2>8. HasScores(Rest[((h - 1) \div 3) + 1], IF h % 3 = 2 THEN c ELSE Parent)
    BY <1>1, <2>6, Zenon DEF Covered
  <2>. QED
    BY <2>1, <2>4, <2>6, <2>7, <2>8
<1>. QED
  BY <1>2 DEF Judged

-----------------------------------------------------------------------------
(* What every step shares.                                                    *)
MadeRun(p, k, m, i, e, l, c, g) ==
  [pc |-> p, fresh |-> run.fresh, caught |-> k, memory |-> m, i |-> i, events |-> e,
   call |-> l, candidate |-> c, goal |-> g]

(* A step that answers no call keeps the account, one that opens the budget   *)
(* starts it.                                                                 *)
LEMMA AccountsStay ==
  ASSUME FilesTyped, CacheTyped, CallsAccounted, InFlight, run # Idle, cache' = cache,
         budget' = budget \/ (budget = NoFile /\ budget' = 0), trouble'.lost = Lost,
         run' = Idle \/ run'.call = <<>>
  PROVE  CacheTyped' /\ CallsAccounted'
<1>1. budget = NoFile => run.call = <<>> /\ trouble'.lost = 0 /\ trouble.lost = 0
  BY DEF CacheTyped, InFlight, Lost
<1>2. CacheTyped'
  <2>1. budget' \in {NoFile} \cup 0..MaxCalls
    BY Bounds DEF CacheTyped
  <2>. QED
    BY <1>1, <2>1 DEF CacheTyped, Answers
<1>3. (IF run # Idle /\ run.call # <<>> THEN 1 ELSE 0)' = 0
  OBVIOUS
<1>4. CallsAccounted'
  <2>1. CASE budget = NoFile
    <3>1. cache = Nothing
      BY <2>1 DEF CallsAccounted
    <3>2. Cardinality(DOMAIN cache) = 0
      BY <3>1, FS_EmptySet DEF Nothing
    <3>3. CASE budget' = budget
      BY <2>1, <3>1, <3>3 DEF CallsAccounted
    <3>4. CASE budget' = 0
      <4>1. budget' # NoFile
        BY <3>4, Bounds
      <4>2. trouble'.lost = 0
        BY <1>1, <2>1
      <4>3. Cardinality(DOMAIN cache') = 0
        BY <3>2
      <4>4. budget' = Cardinality(DOMAIN cache') + trouble'.lost + 0
        BY <3>4, <4>2, <4>3
      <4>. QED
        BY <1>3, <4>1, <4>4 DEF CallsAccounted
    <3>. QED
      BY <3>3, <3>4
  <2>2. CASE budget # NoFile
    <3>1. Cardinality(DOMAIN cache) \in Nat /\ trouble.lost \in Nat
      BY FS_CardinalityType DEF CacheTyped, FilesTyped
    <3>2. budget = Cardinality(DOMAIN cache) + Lost
      BY <2>2, <3>1 DEF CallsAccounted, Lost
    <3>3. Cardinality(DOMAIN cache) + Lost = Cardinality(DOMAIN cache) + trouble'.lost + 0
      BY <3>1 DEF Lost
    <3>. QED
      BY <1>3, <2>2, <3>2, <3>3 DEF CallsAccounted
  <2>. QED
    BY <2>1, <2>2
<1>. QED
  BY <1>2, <1>4

LEMMA SameJudgement == ASSUME cache' = cache PROVE Found' = Found /\ Refuted' = Refuted
<1>1. \A x : Judged(x)' = Judged(x)
  BY DEF Judged, HasScores
<1>2. \A x : ReachesAll(x)' = ReachesAll(x)
  BY DEF ReachesAll, Scores, Evaluation
<1>. QED
  BY <1>1, <1>2 DEF Found, Refuted

(* The process moves on; campaign.json and the cache stay.                    *)
Ready(p, i, e, c, g) ==
  /\ p \in Going \ {"audit", "open"} /\ i \in Nat \ {0} /\ IsLog(e) /\ g \in Clean \cup {"failed"}
  /\ p \in Working \cup {"iterate"} => budget' # NoFile
  /\ p \in Working \cup Previewing => run.memory.iteration < MaxIterations
  /\ p \in Previewing => g = "promotion_previewed" /\ report' # NoFile
  /\ p = "bundle" => summary' # NoFile
  /\ p = "report" => g \in Clean
  /\ p = "report" /\ g = "promotion_previewed" => run.memory.iteration < MaxIterations
  /\ p = "score" => c \in Candidates \ Seen(campaign) /\ Covered(i, c)
  /\ p \in {"report"} \cup Previewing /\ g = "promotion_previewed" => c \in Found \ Seen(campaign)

LEMMA MoveStep ==
  ASSUME LoopInv, FilesTyped', run # Idle, run.pc \in Going, run.call = <<>>,
         UNCHANGED <<campaign, cache, bundle, trouble>>,
         budget' = budget \/ (budget = NoFile /\ budget' = 0),
         NEW p, NEW i, NEW e, NEW c, NEW g, NEW k, Ready(p, i, e, c, g),
         run' = MadeRun(p, k, run.memory, i, e, <<>>, c, g)
  PROVE  LoopInv'
<1> USE DEF Ready
<1>1. /\ run'.pc = p /\ run'.memory = run.memory /\ run'.call = <<>> /\ run'.i = i /\ run'.fresh = run.fresh
      /\ run'.events = e /\ run'.candidate = c /\ run'.goal = g /\ run' # Idle
  BY DEF MadeRun, Idle
<1>2. FilesTyped /\ RunTyped /\ CacheTyped /\ CallsAccounted
  BY DEF LoopInv
<1>3. InFlight /\ CourseInv /\ IterationInv /\ GateInv /\ PreviewInv
  BY DEF LoopInv
<1>4. RunTyped'
  <2>1. RunRecord(run)'
    BY <1>1 DEF RunRecord, MadeRun
  <2>2. Memory(run.memory)'
    BY <1>1, <1>2 DEF RunTyped, Memory, CampaignRecord
  <2>3. IsLog(run.events)'
    BY <1>1 DEF IsLog
  <2>4. p \in {"audit", "open"} \cup Tried
    BY DEF Going, Previewing, Tried
  <2>. QED
    BY <1>1, <2>1, <2>2, <2>3, <2>4 DEF RunTyped
<1>5. CacheTyped' /\ CallsAccounted'
  BY <1>1, <1>2, <1>3, AccountsStay DEF Lost
<1>7. InFlight'
  BY <1>1 DEF InFlight
<1>8. CourseInv'
  BY <1>1, <1>3 DEF CourseInv, Going, Previewing, Working
<1>9. IterationInv'
  BY <1>1, <1>3 DEF IterationInv
<1>10. GateInv'
  <2>1. Found' = Found /\ Refuted' = Refuted
    BY SameJudgement
  <2>2. p = "score" => Covered(run.i, run.candidate)'
    BY <1>1 DEF Covered, HasScores
  <2>3. Finding' => p \in {"report"} \cup Previewing /\ g = "promotion_previewed"
    BY <1>1 DEF Finding
  <2>. QED
    BY <1>1, <1>3, <2>1, <2>2, <2>3 DEF GateInv
<1>11. PreviewInv'
  BY <1>1, <1>3 DEF PreviewInv
<1>12. FiledInv'
  BY <1>1 DEF FiledInv
<1>. QED
  BY <1>4, <1>5, <1>7, <1>8, <1>9, <1>10, <1>11, <1>12 DEF LoopInv

(* A command that ends: its process is gone, with a call without an answer.   *)
LEMMA StopStep ==
  ASSUME LoopInv, FilesTyped', run # Idle, run' = Idle,
         UNCHANGED <<campaign, cache, budget, bundle>>,
         trouble'.fault = trouble.fault, trouble'.lost = Lost
  PROVE  LoopInv'
<1>1. FilesTyped /\ CacheTyped /\ CallsAccounted
  BY DEF LoopInv
<1>2. InFlight /\ CourseInv /\ IterationInv /\ GateInv /\ PreviewInv
  BY DEF LoopInv
<1>3. RunTyped' /\ InFlight'
  BY DEF RunTyped, InFlight
<1>4. CacheTyped' /\ CallsAccounted'
  BY <1>1, <1>2, AccountsStay
<1>6. CourseInv'
  BY <1>2 DEF CourseInv
<1>7. IterationInv'
  BY <1>2 DEF IterationInv
<1>8. GateInv'
  BY <1>2, SameJudgement DEF GateInv, Finding
<1>9. PreviewInv'
  BY <1>2 DEF PreviewInv
<1>10. FiledInv'
  BY DEF FiledInv
<1>. QED
  BY <1>3, <1>4, <1>6, <1>7, <1>8, <1>9, <1>10 DEF LoopInv

(* A command that fails: the failure is written after a summary or at once.   *)
LEMMA FailStep ==
  ASSUME LoopInv, FilesTyped', run # Idle,
         UNCHANGED <<campaign, cache, bundle>>,
         NEW p \in {"summary", "write"},
         run' = MadeRun(p, TRUE, [run.memory EXCEPT !.state = "failed"], run.i, run.events, <<>>,
                        run.candidate, run.goal),
         budget' = budget \/ (budget = NoFile /\ budget' = 0),
         trouble'.fault = trouble.fault + 1 \/ (trouble'.fault = trouble.fault /\ bundle = NoFile),
         trouble'.lost = Lost
  PROVE  LoopInv'
<1> DEFINE M == [run.memory EXCEPT !.state = "failed"]
<1>1. PICK m : m = M
  OBVIOUS
<1>2. FilesTyped /\ RunTyped /\ CacheTyped /\ CallsAccounted
  BY DEF LoopInv
<1>3. InFlight /\ CourseInv /\ IterationInv /\ GateInv /\ PreviewInv
  BY DEF LoopInv
<1>4. /\ m.state = "failed" /\ m.iteration = run.memory.iteration /\ m.rejected = run.memory.rejected
      /\ m.candidate = run.memory.candidate /\ CampaignRecord(m)
  BY <1>1, <1>2 DEF RunTyped, Memory, CampaignRecord
<1>5. /\ run' = MadeRun(p, TRUE, m, run.i, run.events, <<>>, run.candidate, run.goal)
      /\ run'.pc = p /\ run'.memory = m /\ run'.call = <<>> /\ run'.i = run.i
      /\ run'.events = run.events /\ run'.goal = run.goal /\ run' # Idle
  BY <1>1 DEF MadeRun, Idle
<1>6. trouble.fault \in Nat /\ trouble'.fault \in Nat /\ trouble'.fault >= trouble.fault
  BY <1>2 DEF FilesTyped
<1>7. RunTyped'
  <2>1. RunRecord(run)'
    BY <1>5 DEF RunRecord, MadeRun
  <2>2. Memory(run.memory)'
    <3>1. Memory(run.memory)
      BY <1>2 DEF RunTyped
    <3>2. m.iteration \in 0..MaxIterations + trouble'.fault
      BY <1>4, <1>6, <3>1, Bounds DEF Memory
    <3>3. run'.memory.state \in {"running", "failed"}
      BY <1>4, <1>5
    <3>4. CampaignRecord(run.memory)'
      BY <1>4, <1>5 DEF CampaignRecord
    <3>. QED
      BY <1>4, <1>5, <3>1, <3>2, <3>3, <3>4 DEF Memory
  <2>3. IsLog(run.events)' /\ run'.i \in Nat \ {0} /\ run'.goal \in Clean \cup {"failed"}
    BY <1>2, <1>5 DEF RunTyped, IsLog
  <2>4. p \in {"audit", "open"} \cup Tried
    BY DEF Tried
  <2>. QED
    BY <1>5, <2>1, <2>2, <2>3, <2>4 DEF RunTyped
<1>9. CacheTyped' /\ CallsAccounted'
  BY <1>2, <1>3, <1>5, AccountsStay
<1>11. InFlight'
  BY <1>5 DEF InFlight, Working
<1>12. CourseInv'
  <2>1. campaign # Absent
    BY <1>3 DEF CourseInv
  <2>. QED
    BY <1>3, <1>4, <1>5, <2>1 DEF CourseInv, Going, Previewing, Working
<1>13. IterationInv'
  <2>1. run.memory.iteration \in 0..MaxIterations + trouble.fault
    BY <1>2 DEF RunTyped, Memory
  <2>2. campaign.state \in {"running", "failed"} /\ bundle # NoFile =>
          campaign.iteration < MaxIterations + trouble'.fault
    <3>1. campaign # Absent
      BY <1>3 DEF CourseInv
    <3>2. campaign.iteration \in Nat
      BY <1>2, <3>1, <1>6, Bounds DEF FilesTyped, Memory
    <3>. QED
      BY <1>3, <1>6, <3>2, Bounds DEF IterationInv
  <2>3. bundle # NoFile => m.iteration < MaxIterations + trouble'.fault
    BY <1>4, <1>6, <2>1, Bounds
  <2>. QED
    BY <1>3, <1>4, <1>5, <2>2, <2>3 DEF IterationInv
<1>14. GateInv'
  BY <1>3, <1>5, SameJudgement DEF GateInv, Finding, Previewing
<1>15. PreviewInv'
  BY <1>3, <1>4, <1>5 DEF PreviewInv
<1>16. FiledInv'
  BY <1>5 DEF FiledInv, Previewing
<1>. QED
  BY <1>7, <1>9, <1>11, <1>12, <1>13, <1>14, <1>15, <1>16 DEF LoopInv

-----------------------------------------------------------------------------
(* The files of a step that leaves them alone or writes the checkpoint.       *)
LEMMA FilesStay ==
  ASSUME FilesTyped, UNCHANGED <<campaign, report, analyses, bundle>>,
         checkpoint' \in {checkpoint, NoFile} \/ IsLog(checkpoint'),
         NEW fault \in trouble.fault..MaxFaults, NEW kill \in 0..MaxKills, NEW lost \in Nat,
         trouble' = [fault |-> fault, kill |-> kill, lost |-> lost]
  PROVE  FilesTyped'
<1>1. trouble'.fault = fault /\ trouble'.kill = kill /\ trouble'.lost = lost
  OBVIOUS
<1>2. trouble.fault \in Nat /\ fault \in 0..MaxFaults /\ fault >= trouble.fault
  BY Bounds DEF FilesTyped
<1>3. campaign = Absent \/ Memory(campaign)'
  <2>1. CASE Memory(campaign)
    <3>1. campaign'.iteration \in 0..MaxIterations + fault
      BY <1>2, <2>1, Bounds DEF Memory
    <3>. QED
      BY <1>1, <2>1, <3>1 DEF Memory, CampaignRecord
  <2>. QED
    BY <2>1 DEF FilesTyped
<1>4. (checkpoint = NoFile \/ IsLog(checkpoint))'
  BY DEF FilesTyped, IsLog
<1>5. (report = NoFile \/ IsReport(report))' /\ (summary = NoFile \/ IsSummary(summary))'
  BY DEF FilesTyped, IsReport, IsSummary, analyses
<1>. QED
  BY <1>1, <1>2, <1>3, <1>4, <1>5 DEF FilesTyped, analyses

LEMMA FilesSame ==
  ASSUME FilesTyped, UNCHANGED <<campaign, report, analyses, bundle, trouble>>,
         checkpoint' \in {checkpoint, NoFile} \/ IsLog(checkpoint')
  PROVE  FilesTyped'
<1>1. /\ trouble' = [fault |-> trouble.fault, kill |-> trouble.kill, lost |-> trouble.lost]
      /\ trouble.fault \in trouble.fault..MaxFaults /\ trouble.kill \in 0..MaxKills /\ trouble.lost \in Nat
  BY Bounds DEF FilesTyped
<1>. QED
  BY <1>1, FilesStay

LEMMA FilesFaulted ==
  ASSUME FilesTyped, UNCHANGED <<campaign, agreement, analyses, bundle>>, trouble.fault < MaxFaults,
         NEW lost \in Nat, trouble' = [trouble EXCEPT !.fault = @ + 1, !.lost = lost]
  PROVE  FilesTyped' /\ trouble'.fault = trouble.fault + 1 /\ trouble'.lost = lost
<1>0. trouble' = [fault |-> trouble.fault + 1, kill |-> trouble.kill, lost |-> lost]
  BY DEF FilesTyped
<1>1. trouble.fault + 1 \in trouble.fault..MaxFaults /\ trouble.kill \in 0..MaxKills
  BY Bounds DEF FilesTyped
<1>2. UNCHANGED <<campaign, report, analyses, bundle>> /\ checkpoint' = checkpoint
  BY DEF agreement
<1>. QED
  BY <1>0, <1>1, <1>2, FilesStay

LEMMA LostIs == ASSUME FilesTyped PROVE Lost \in Nat
BY DEF FilesTyped, Lost

-----------------------------------------------------------------------------
(* The steps that fail the campaign.                                          *)
LEMMA FailsIs ==
  ASSUME RunTyped, run # Idle, NEW p, Fails(p)
  PROVE  run' = MadeRun(p, TRUE, [run.memory EXCEPT !.state = "failed"], run.i, run.events, <<>>,
                        run.candidate, run.goal)
<1>1. RunRecord(run) /\ CampaignRecord(run.memory)
  BY DEF RunTyped, Memory
<1>. QED
  BY <1>1 DEF Fails, MadeRun, RunRecord, CampaignRecord

LEMMA AuditFailsKeeps == ASSUME LoopInv, AuditFails, run # Idle PROVE LoopInv'
<1>1. FilesTyped /\ RunTyped /\ InFlight /\ CourseInv
  BY DEF LoopInv
<1>2. run.pc = "audit" /\ run.call = <<>> /\ bundle = NoFile
  BY <1>1 DEF AuditFails, At, InFlight, Working, CourseInv, Going
<1>3. FilesTyped' /\ trouble'.fault = trouble.fault + 1 /\ trouble'.lost = trouble.lost
  <2>1. trouble' = [trouble EXCEPT !.fault = @ + 1, !.lost = trouble.lost] /\ trouble.lost \in Nat
    BY <1>1 DEF AuditFails, FilesTyped
  <2>. QED
    BY <1>1, <2>1, FilesFaulted DEF AuditFails
<1>4. trouble'.lost = Lost
  BY <1>2, <1>3 DEF Lost
<1>5. Typed = "summary" /\ Fails(Typed) /\ UNCHANGED <<campaign, cache, bundle>> /\ budget' = budget
  BY DEF AuditFails, Typed, calls
<1>. QED
  BY <1>1, <1>2, <1>3, <1>4, <1>5, FailsIs, FailStep

LEMMA OpenFailsKeeps == ASSUME LoopInv, OpenFails, run # Idle PROVE LoopInv'
<1>1. FilesTyped /\ RunTyped /\ InFlight /\ CourseInv
  BY DEF LoopInv
<1>2. run.pc = "open" /\ run.call = <<>> /\ bundle = NoFile /\ budget = NoFile
  BY <1>1 DEF OpenFails, At, InFlight, Working, CourseInv, Going
<1>3. FilesTyped' /\ trouble'.fault = trouble.fault + 1 /\ trouble'.lost = trouble.lost
  <2>1. trouble' = [trouble EXCEPT !.fault = @ + 1, !.lost = trouble.lost] /\ trouble.lost \in Nat
    BY <1>1 DEF OpenFails, FilesTyped
  <2>. QED
    BY <1>1, <2>1, FilesFaulted DEF OpenFails
<1>4. trouble'.lost = Lost
  BY <1>2, <1>3 DEF Lost
<1>5. Typed = "summary" /\ Fails(Typed) /\ UNCHANGED <<campaign, cache, bundle>> /\ budget' = 0
  BY DEF OpenFails, Typed
<1>. QED
  BY <1>1, <1>2, <1>3, <1>4, <1>5, FailsIs, FailStep

LEMMA CallFailsKeeps == ASSUME LoopInv, CallFails, run # Idle PROVE LoopInv'
<1>1. FilesTyped /\ RunTyped /\ InFlight /\ CourseInv
  BY DEF LoopInv
<1>2. run.pc \in Working /\ run.call = <<>> /\ bundle = NoFile
  BY <1>1 DEF CallFails, At, InFlight, Working, CourseInv, Going
<1>3. FilesTyped' /\ trouble' = trouble /\ trouble'.lost = Lost
  BY <1>1, <1>2, FilesSame DEF CallFails, World, agreement, Lost
<1>5. Typed = "summary" /\ Fails(Typed) /\ UNCHANGED <<campaign, cache, bundle>> /\ budget' = budget
  BY DEF CallFails, Typed, calls, World
<1>. QED
  BY <1>1, <1>2, <1>3, <1>5, FailsIs, FailStep

LEMMA DraftRefusedKeeps == ASSUME LoopInv, DraftRefused, run # Idle PROVE LoopInv'
<1>1. FilesTyped /\ RunTyped /\ InFlight /\ CourseInv
  BY DEF LoopInv
<1>2. run.pc \in Working /\ bundle = NoFile
  BY <1>1 DEF DraftRefused, At, Working, CourseInv, Going
<1>3. run.call = <<>>
  BY <1>1, NothingInFlight DEF DraftRefused
<1>4. FilesTyped' /\ trouble' = trouble /\ trouble'.lost = Lost
  BY <1>1, <1>3, FilesSame DEF DraftRefused, World, agreement, Lost
<1>5. Bare = "write" /\ Fails(Bare) /\ UNCHANGED <<campaign, cache, bundle>> /\ budget' = budget
  BY DEF DraftRefused, Bare, calls, World
<1>. QED
  BY <1>1, <1>2, <1>4, <1>5, FailsIs, FailStep

LEMMA FaultKeeps == ASSUME LoopInv, Fault PROVE LoopInv'
<1>1. FilesTyped /\ RunTyped
  BY DEF LoopInv
<1>2. Lost \in Nat
  BY <1>1, LostIs
<1>3. FilesTyped' /\ trouble'.fault = trouble.fault + 1 /\ trouble'.lost = Lost
  BY <1>1, <1>2, FilesFaulted DEF Fault
<1>4. PICK p \in {"summary", "write"} : Fails(p)
  BY DEF Fault, Typed, Bare
<1>5. UNCHANGED <<campaign, cache, bundle>> /\ budget' = budget /\ run # Idle
  BY DEF Fault, calls
<1>. QED
  BY <1>1, <1>3, <1>4, <1>5, FailsIs, FailStep

(* The steps after which there is no process.                                 *)
LEMMA KillKeeps == ASSUME LoopInv, Kill PROVE LoopInv'
<1>1. FilesTyped
  BY DEF LoopInv
<1>2. Lost \in Nat
  BY <1>1, LostIs
<1>0. trouble' = [fault |-> trouble.fault, kill |-> trouble.kill + 1, lost |-> Lost]
  BY <1>1 DEF Kill, FilesTyped
<1>3. trouble.fault \in trouble.fault..MaxFaults /\ trouble.kill + 1 \in 0..MaxKills
  BY <1>1, Bounds DEF Kill, FilesTyped
<1>4. FilesTyped'
  BY <1>0, <1>1, <1>2, <1>3, FilesStay DEF Kill, agreement
<1>5. trouble'.fault = trouble.fault /\ trouble'.lost = Lost
  BY <1>0
<1>. QED
  BY <1>4, <1>5, StopStep DEF Kill, calls

LEMMA CleanupKeeps == ASSUME LoopInv, Cleanup, run # Idle PROVE LoopInv'
<1>1. FilesTyped /\ InFlight
  BY DEF LoopInv
<1>2. FilesTyped' /\ trouble' = trouble
  BY <1>1, FilesSame DEF Cleanup, World
<1>3. run.call = <<>>
  BY <1>1 DEF Cleanup, At, InFlight, Working
<1>4. trouble'.lost = Lost
  BY <1>2, <1>3 DEF Lost
<1>. QED
  BY <1>2, <1>4, StopStep DEF Cleanup, calls, World

-----------------------------------------------------------------------------
(* The steps in memory.                                                       *)
LEMMA RunIs ==
  ASSUME LoopInv, run # Idle
  PROVE  /\ RunRecord(run) /\ run.i \in Nat \ {0} /\ IsLog(run.events)
         /\ run.goal \in Clean \cup {"failed"}
         /\ run.pc \in Working => budget # NoFile
         /\ run.pc \in Going => bundle = NoFile
         /\ run.pc \in Working \cup Previewing => run.memory.iteration < MaxIterations
BY DEF LoopInv, RunTyped, InFlight, CourseInv

LEMMA OpenKeeps == ASSUME LoopInv, Open, run # Idle PROVE LoopInv'
<1>1. FilesTyped /\ RunTyped /\ InFlight /\ CourseInv
  BY DEF LoopInv
<1>2. run.pc = "open" /\ run.call = <<>> /\ run.pc \in Going /\ bundle = NoFile
  BY <1>1 DEF Open, At, InFlight, Working, CourseInv, Going
<1>3. /\ UNCHANGED <<campaign, cache, report, analyses, bundle, trouble>>
      /\ budget' = IF budget = NoFile THEN 0 ELSE budget
  BY DEF Open, World
<1>4. budget' = budget \/ (budget = NoFile /\ budget' = 0)
  BY <1>3
<1>5. CASE run.fresh \/ CheckpointLoads
  <2>1. PICK e : /\ run' = [run EXCEPT !.pc = "iterate", !.events = e] /\ IsLog(e)
                 /\ checkpoint' = checkpoint \/ IsLog(checkpoint')
    <3>1. CASE run.fresh
      <4>1. PersistCheckpoint(Nothing) /\ Goto("iterate")
        BY <3>1 DEF Open
      <4>2. run' = [run EXCEPT !.pc = "iterate", !.events = run.events]
        BY <1>1, <4>1 DEF Goto, RunTyped, RunRecord
      <4>. QED
        BY <1>1, <4>1, <4>2, EmptyLog DEF RunTyped, PersistCheckpoint
    <3>2. CASE ~run.fresh
      <4>1. run' = [run EXCEPT !.pc = "iterate", !.events = checkpoint] /\ checkpoint' = checkpoint
        BY <1>5, <3>2 DEF Open
      <4>2. IsLog(checkpoint)
        BY <1>1, <1>5, <3>2 DEF CheckpointLoads, FilesTyped
      <4>. QED
        BY <4>1, <4>2
    <3>. QED
      BY <3>1, <3>2
  <2>2. run' = MadeRun("iterate", run.caught, run.memory, run.i, e, <<>>, run.candidate, run.goal)
    BY <1>1, <1>2, <2>1, RunIs DEF MadeRun, RunRecord
  <2>3. FilesTyped'
    BY <1>1, <1>3, <2>1, FilesSame
  <2>4. run.i \in Nat \ {0} /\ run.goal \in Clean \cup {"failed"} /\ budget' # NoFile
    BY <1>3, Bounds, RunIs
  <2>5. Ready("iterate", run.i, e, run.candidate, run.goal)
    BY <2>1, <2>4 DEF Ready, Going, Working, Previewing
  <2>. QED
    BY <1>2, <1>3, <1>4, <2>2, <2>3, <2>5, MoveStep
<1>6. CASE ~(run.fresh \/ CheckpointLoads)
  <2>1. Fails(Typed) /\ checkpoint' = checkpoint
    BY <1>6 DEF Open
  <2>2. FilesTyped' /\ trouble'.fault = trouble.fault /\ trouble'.lost = Lost
    BY <1>1, <1>2, <1>3, <2>1, FilesSame DEF Lost
  <2>3. Typed = "summary"
    BY DEF Typed
  <2>. QED
    BY <1>1, <1>2, <1>3, <1>4, <2>1, <2>2, <2>3, FailsIs, FailStep
<1>. QED
  BY <1>5, <1>6

LEMMA DiagnoseKeeps == ASSUME LoopInv, Diagnose, run # Idle PROVE LoopInv'
<1>1. FilesTyped /\ InFlight
  BY DEF LoopInv
<1>2. /\ RunRecord(run) /\ run.i \in Nat \ {0} /\ IsLog(run.events) /\ budget # NoFile
      /\ run.pc = "train" /\ run.pc \in Going /\ run.memory.iteration < MaxIterations
  BY RunIs DEF Diagnose, At, Working, Going
<1>3. run.call = <<>>
  <2>1. run.i \notin DOMAIN Train
    <3>1. Train \in Seq(ToSet(Train))
      BY LoopAssumption, Zenon
    <3>2. DOMAIN Train = 1..Len(Train) /\ Len(Train) \in Nat
      BY <3>1
    <3>. QED
      BY <1>2, <3>2 DEF Diagnose
  <2>2. Calls = <<>>
    BY <1>2, <2>1 DEF Calls, At
  <2>3. DOMAIN Calls = {}
    BY <2>2
  <2>. QED
    BY <1>1, <2>3, NothingInFlight
<1>4. FilesTyped' /\ UNCHANGED <<campaign, cache, budget, bundle, trouble>>
  BY <1>1, FilesSame DEF Diagnose, World, agreement, calls
<1>5. PICK p \in {"report", "differential"}, g \in Clean \cup {"failed"} :
        /\ run' = MadeRun(p, run.caught, run.memory, run.i, run.events, <<>>, run.candidate, g)
        /\ p = "report" => g = "no_patchable_diagnosis"
  BY <1>2, <1>3, RunIs DEF Diagnose, Conclude, MadeRun, RunRecord, Clean
<1>6. Ready(p, run.i, run.events, run.candidate, g)
  <2>1. CASE p = "report"
    BY <1>2, <1>4, <1>5, <2>1 DEF Ready, Going, Working, Previewing, Clean
  <2>2. CASE p = "differential"
    BY <1>2, <1>4, <1>5, <2>2 DEF Ready, Going, Working, Previewing, Clean
  <2>. QED
    BY <2>1, <2>2
<1>. QED
  BY <1>2, <1>3, <1>4, <1>5, <1>6, MoveStep

LEMMA PassKeeps == ASSUME LoopInv, Pass, run # Idle PROVE LoopInv'
<1>1. FilesTyped /\ InFlight /\ GateInv
  BY DEF LoopInv
<1>2. /\ RunRecord(run) /\ run.i \in Nat \ {0} /\ IsLog(run.events) /\ budget # NoFile
      /\ run.pc = "score" /\ run.pc \in Going /\ run.memory.iteration < MaxIterations
  BY RunIs DEF Pass, At, Working, Going
<1>3. Len(Rest) \in Nat
  <2>1. Rest \in Seq(Cases)
    BY LoopAssumption, Zenon
  <2>. QED
    BY <2>1
<1>4. run.call = <<>>
  <2>1. run.i \notin 1..3 * Len(Rest)
    BY <1>2, <1>3 DEF Pass
  <2>2. Calls = <<>>
    BY <1>2, <2>1 DEF Calls, At
  <2>3. DOMAIN Calls = {}
    BY <2>2
  <2>. QED
    BY <1>1, <2>3, NothingInFlight
<1>5. FilesTyped' /\ UNCHANGED <<campaign, cache, budget, bundle, trouble>>
  BY <1>1, FilesSame DEF Pass, World, agreement, calls
<1>6. run' = MadeRun("report", run.caught, run.memory, run.i, run.events, <<>>, run.candidate,
                     "promotion_previewed")
  BY <1>2, <1>4 DEF Pass, Conclude, MadeRun, RunRecord
<1>7. run.candidate \in Found \ Seen(campaign)
  <2>1. run.candidate \in Candidates \ Seen(campaign) /\ Covered(run.i, run.candidate)
    BY <1>1, <1>2 DEF GateInv
  <2>2. Judged(run.candidate)
    <3>1. PICK c \in Candidates, i \in Nat : c = run.candidate /\ i = run.i
      BY <1>2, <2>1
    <3>2. i > 3 * Len(Rest) /\ Covered(i, c)
      BY <2>1, <3>1 DEF Pass
    <3>. QED
      BY <3>1, <3>2, CoveredAll
  <2>3. ReachesAll(run.candidate)
    BY DEF Pass, Passed, ReachesAll
  <2>. QED
    BY <2>1, <2>2, <2>3 DEF Found
<1>8. Ready("report", run.i, run.events, run.candidate, "promotion_previewed")
  BY <1>2, <1>7 DEF Ready, Going, Working, Previewing, Clean
<1>. QED
  BY <1>2, <1>4, <1>5, <1>6, <1>8, MoveStep

LEMMA ProposeKeeps == ASSUME LoopInv, Propose, run # Idle PROVE LoopInv'
<1>1. FilesTyped /\ InFlight /\ CourseInv /\ (campaign # Absent)
  BY DEF LoopInv, CourseInv
<1>2. /\ RunRecord(run) /\ run.i \in Nat \ {0} /\ IsLog(run.events) /\ budget # NoFile
      /\ run.pc = "propose" /\ run.pc \in Going /\ run.memory.iteration < MaxIterations
  BY RunIs DEF Propose, At, Working, Going
<1>3. run.call = <<>>
  BY <1>1, NothingInFlight DEF Propose
<1>4. FilesTyped' /\ UNCHANGED <<campaign, cache, budget, bundle, trouble>>
  BY <1>1, FilesSame DEF Propose, World, agreement, calls
<1>5. PICK c \in Candidates : c = cache[Calls[1]].value
  BY DEF Propose
<1>6. CASE c \in Seen(run.memory)
  <2>1. run' = MadeRun("report", run.caught, run.memory, run.i, run.events, <<>>, run.candidate,
                       "no_patchable_diagnosis")
    BY <1>2, <1>3, <1>5, <1>6 DEF Propose, Conclude, MadeRun, RunRecord
  <2>2. Ready("report", run.i, run.events, run.candidate, "no_patchable_diagnosis")
    BY <1>2 DEF Ready, Going, Working, Previewing, Clean
  <2>. QED
    BY <1>2, <1>3, <1>4, <2>1, <2>2, MoveStep
<1>7. CASE c \notin Seen(run.memory)
  <2>1. run' = MadeRun("score", run.caught, run.memory, 1, run.events, <<>>, c, run.goal)
    BY <1>2, <1>3, <1>5, <1>7 DEF Propose, MadeRun, RunRecord
  <2>3. run.goal \in Clean \cup {"failed"}
    BY RunIs
  <2>4. c \notin Seen(campaign)
    BY <1>1, <1>7 DEF CourseInv, Seen
  <2>5. Covered(1, c)
    BY DEF Covered
  <2>6. Ready("score", 1, run.events, c, run.goal)
    BY <1>2, <1>4, <2>3, <2>4, <2>5 DEF Ready, Going, Working, Previewing
  <2>. QED
    BY <1>2, <1>3, <1>4, <2>1, <2>6, MoveStep
<1>. QED
  BY <1>6, <1>7

(* A failure is a finding about its analysis.                                 *)
LEMMA AnalysisWritten ==
  ASSUME FilesTyped, UNCHANGED <<campaign, agreement, summary, bundle, trouble>>,
         NEW n \in 0..MaxIterations - 1, NEW result \in Findings, PersistAnalysis(n, result)
  PROVE  FilesTyped'
<1>1. PICK D : D = DOMAIN differential /\ IsFiniteSet(D) /\ D \subseteq 0..MaxIterations - 1
  BY DEF FilesTyped
<1>2. IsFiniteSet(D \cup {n})
  BY <1>1, FS_AddElement
<1>3. DOMAIN differential' = D \cup {n}
  BY <1>1 DEF PersistAnalysis, Put
<1>4. \A m \in DOMAIN differential' : differential'[m] \in Findings
  BY <1>1, <1>3 DEF PersistAnalysis, Put, FilesTyped
<1>5. (campaign = Absent \/ Memory(campaign))'
  BY DEF FilesTyped, Memory, CampaignRecord
<1>6. (checkpoint = NoFile \/ IsLog(checkpoint))' /\ (report = NoFile \/ IsReport(report))'
  BY DEF FilesTyped, IsLog, IsReport, agreement
<1>7. (summary = NoFile \/ IsSummary(summary))'
  BY DEF FilesTyped, IsSummary
<1>. QED
  BY <1>1, <1>2, <1>3, <1>4, <1>5, <1>6, <1>7 DEF FilesTyped

LEMMA AnalyseKeeps == ASSUME LoopInv, Analyse, run # Idle PROVE LoopInv'
<1>1. FilesTyped /\ RunTyped /\ CacheTyped
  BY DEF LoopInv
<1>2. /\ RunRecord(run) /\ run.i \in Nat \ {0} /\ IsLog(run.events) /\ budget # NoFile
      /\ run.pc = "differential" /\ run.pc \in Going /\ run.memory.iteration < MaxIterations
      /\ run.goal \in Clean \cup {"failed"} /\ run.call = <<>>
  BY RunIs DEF Analyse, At, Working, Going
<1>3. PICK result \in Findings : PersistAnalysis(run.memory.iteration, result)
  <2>1. CASE Done(Calls)
    BY <2>1 DEF Analyse, Findings
  <2>2. CASE ~Done(Calls)
    <3>1. PICK F : F = Failed(Calls)
      OBVIOUS
    <3>2. F # {} /\ F \subseteq Nat
      BY <2>2, <3>1, CallsAre DEF Analyse, Failed
    <3>3. Min(F) \in F
      BY <3>2, MinOfNaturals
    <3>4. PICK call : call = Calls[Min(F)]
      OBVIOUS
    <3>5. call \in DOMAIN cache /\ ~cache[call].ok
      BY <3>1, <3>3, <3>4 DEF Failed, Answered
    <3>6. cache[call].value \in Failures
      BY <1>1, <3>5 DEF CacheTyped
    <3>7. PersistAnalysis(run.memory.iteration, cache[call].value)
      BY <2>2, <3>1, <3>4 DEF Analyse
    <3>. QED
      BY <3>6, <3>7 DEF Findings
  <2>. QED
    BY <2>1, <2>2
<1>4. run.memory.iteration \in 0..MaxIterations - 1
  <2>1. run.memory.iteration \in 0..MaxIterations + trouble.fault
    BY <1>1 DEF RunTyped, Memory
  <2>. QED
    BY <1>1, <1>2, <2>1, Bounds DEF FilesTyped
<1>5. UNCHANGED <<campaign, agreement, cache, budget, summary, bundle, trouble>>
  BY DEF Analyse, World, calls
<1>6. FilesTyped'
  BY <1>1, <1>3, <1>4, <1>5, AnalysisWritten
<1>7. run' = MadeRun("propose", run.caught, run.memory, run.i, run.events, <<>>, run.candidate, run.goal)
  BY <1>2 DEF Analyse, Goto, MadeRun, RunRecord
<1>8. Ready("propose", run.i, run.events, run.candidate, run.goal)
  BY <1>2, <1>5 DEF Ready, Going, Working, Previewing
<1>. QED
  BY <1>2, <1>5, <1>6, <1>7, <1>8, MoveStep

-----------------------------------------------------------------------------
(* The evaluations.                                                           *)
LEMMA ScoredIs ==
  ASSUME NEW i \in 1..3 * Len(Rest)
  PROVE  Rest[((i - 1) \div 3) + 1] \in Cases
<1>1. PICK n \in Nat : n = Len(Rest) /\ Rest \in [1..n -> Cases]
  <2>1. Rest \in Seq(Cases)
    BY LoopAssumption, Zenon
  <2>. QED
    BY <2>1
<1>2. i \in Nat /\ ((i - 1) \div 3) + 1 \in 1..n
  BY <1>1
<1>. QED
  BY <1>1, <1>2

LEMMA EvaluationOf ==
  ASSUME LoopInv, run # Idle, run.pc \in {"train", "score"}, DOMAIN Calls # {}
  PROVE  \E case \in AllCases, policy \in Policies :
           /\ Calls = EvaluationCalls(case, policy)
           /\ case = Calls[1][2] /\ policy = Calls[1][3]
           /\ run.pc = "train" => case = Train[run.i] /\ policy = Parent
           /\ run.pc = "score" => /\ run.i \in 1..3 * Len(Rest)
                                  /\ case = ScoredCase /\ policy = ScoredPolicy
<1>1. PICK case \in AllCases, policy \in Policies :
        /\ Calls = EvaluationCalls(case, policy)
        /\ run.pc = "train" => case = Train[run.i] /\ policy = Parent
        /\ run.pc = "score" => /\ run.i \in 1..3 * Len(Rest)
                               /\ case = ScoredCase /\ policy = ScoredPolicy
  <2>1. CASE run.pc = "train"
    <3>1. Calls = IF run.i \in DOMAIN Train THEN EvaluationCalls(Train[run.i], Parent) ELSE <<>>
      BY <2>1 DEF Calls, At
    <3>2. run.i \in DOMAIN Train
      BY <3>1
    <3>3. Train[run.i] \in AllCases /\ Parent \in Policies
      BY <3>2 DEF AllCases, ToSet, Policies
    <3>. QED
      BY <2>1, <3>1, <3>2, <3>3
  <2>2. CASE run.pc = "score"
    <3>1. Calls = IF run.i \in 1..3 * Len(Rest) THEN EvaluationCalls(ScoredCase, ScoredPolicy) ELSE <<>>
      BY <2>2 DEF Calls, At
    <3>2. run.i \in 1..3 * Len(Rest)
      BY <3>1
    <3>3. ScoredCase \in AllCases
      BY <3>2, ScoredIs DEF ScoredCase, AllCases
    <3>4. ScoredPolicy \in Policies
      BY <2>2 DEF LoopInv, GateInv, ScoredPolicy, Policies
    <3>. QED
      BY <2>2, <3>1, <3>2, <3>3, <3>4
  <2>. QED
    BY <2>1, <2>2
<1>2. PICK call : call = Calls[1] /\ call = <<"actor", case, policy>>
  <2>1. EvaluationCalls(case, policy)[1] = <<"actor", case, policy>>
    BY EvaluationCallsAre
  <2>. QED
    BY <1>1, <2>1
<1>3. case = Calls[1][2] /\ policy = Calls[1][3]
  <2>1. call[2] = case /\ call[3] = policy
    BY <1>2
  <2>. QED
    BY <1>2, <2>1, Zenon
<1>. QED
  BY <1>1, <1>3

LEMMA EvaluationDone ==
  ASSUME CacheTyped, NEW case \in AllCases, NEW policy \in Policies,
         Calls = EvaluationCalls(case, policy), NEW n \in 0..Len(ObserverOrder),
         \A m \in 1..n + 2 : Calls[m] \in DOMAIN cache /\ m \notin Failed(Calls)
  PROVE  EventUpTo(case, policy, n) \in Events /\ HasScores(case, policy)
<1>1. /\ DOMAIN Calls = 1..2 + Len(ObserverOrder) /\ Len(ObserverOrder) \in Nat
      /\ Calls[2] = <<"evaluator", case, policy>>
      /\ \A i \in 1..Len(ObserverOrder) : Calls[i + 2] = <<"observer", case, policy, ObserverOrder[i]>>
  BY EvaluationCallsAre
<1>2. HasScores(case, policy)
  <2>1. 2 \in 1..n + 2 /\ 2 \in DOMAIN Calls
    BY <1>1
  <2>2. Calls[2] \in DOMAIN cache /\ 2 \notin Failed(Calls)
    BY <2>1
  <2>3. PICK call : call = Calls[2] /\ call = <<"evaluator", case, policy>>
    BY <1>1
  <2>4. call[1] # "observer"
    BY <2>3
  <2>5. cache[call].ok
    BY <2>1, <2>2, <2>3, <2>4 DEF Failed, Answered
  <2>. QED
    BY <2>2, <2>3, <2>5 DEF HasScores
<1>3. ASSUME NEW i \in 1..n PROVE <<"observer", case, policy, ObserverOrder[i]>> \in DOMAIN cache
  <2>1. i + 2 \in 1..n + 2 /\ i \in 1..Len(ObserverOrder)
    BY <1>1
  <2>2. Calls[i + 2] \in DOMAIN cache
    BY <2>1
  <2>3. Calls[i + 2] = <<"observer", case, policy, ObserverOrder[i]>>
    BY <1>1, <2>1
  <2>. QED
    BY <2>2, <2>3
<1>4. /\ <<"evaluator", case, policy>> \in DOMAIN cache
      /\ cache[<<"evaluator", case, policy>>].ok
  BY <1>2 DEF HasScores
<1>. QED
  BY <1>2, <1>3, <1>4, EventIs

LEMMA DoneIs ==
  ASSUME Done(Calls)
  PROVE  \A m \in DOMAIN Calls : Calls[m] \in DOMAIN cache /\ m \notin Failed(Calls)
BY DEF Done, Uncached, Answered

LEMMA RecordKeeps ==
  ASSUME LoopInv, run # Idle, run.pc \in {"train", "score"}, run.i \in DOMAIN Train \/ run.pc = "score",
         NEW case, NEW policy, Calls = EvaluationCalls(case, policy), Done(Calls), Record(case, policy)
  PROVE  LoopInv'
<1>1. FilesTyped /\ InFlight /\ CacheTyped /\ GateInv
  BY DEF LoopInv
<1>2. /\ RunRecord(run) /\ run.i \in Nat \ {0} /\ IsLog(run.events) /\ budget # NoFile
      /\ run.pc \in Going /\ run.memory.iteration < MaxIterations
      /\ run.goal \in Clean \cup {"failed"}
  BY RunIs DEF Working, Going
<1>3. run.call = <<>>
  BY <1>1, NothingInFlight
<1>4. /\ DOMAIN Calls = 1..2 + Len(ObserverOrder) /\ Len(ObserverOrder) \in Nat
      /\ Calls[1] = <<"actor", case, policy>>
  BY EvaluationCallsAre
<1>5. /\ case \in AllCases /\ policy \in Policies
      /\ run.pc = "score" => run.i \in 1..3 * Len(Rest) /\ case = ScoredCase /\ policy = ScoredPolicy
  <2>1. DOMAIN Calls # {}
    BY <1>4
  <2>2. PICK x \in AllCases, y \in Policies :
          /\ x = Calls[1][2] /\ y = Calls[1][3]
          /\ run.pc = "score" => run.i \in 1..3 * Len(Rest) /\ x = ScoredCase /\ y = ScoredPolicy
    BY <2>1, EvaluationOf
  <2>3. PICK call : call = Calls[1] /\ call = <<"actor", case, policy>>
    BY <1>4
  <2>4. call[2] = case /\ call[3] = policy
    BY <2>3
  <2>5. x = case /\ y = policy
    BY <2>2, <2>3, <2>4, Zenon
  <2>. QED
    BY <2>2, <2>5
<1>6. EventUpTo(case, policy, Len(ObserverOrder)) \in Events /\ HasScores(case, policy)
  <2>1. \A m \in 1..Len(ObserverOrder) + 2 : Calls[m] \in DOMAIN cache /\ m \notin Failed(Calls)
    BY <1>4, DoneIs
  <2>2. Len(ObserverOrder) \in 0..Len(ObserverOrder)
    BY <1>4
  <2>. QED
    BY <1>1, <1>5, <2>1, <2>2, EvaluationDone
<1>7. PICK e : /\ e = Put(run.events, <<case, policy>>, EventUpTo(case, policy, Len(ObserverOrder)))
               /\ IsLog(e)
  BY <1>2, <1>5, <1>6, LogWith
<1>8. run' = MadeRun(run.pc, run.caught, run.memory, run.i + 1, e, <<>>, run.candidate, run.goal)
  BY <1>2, <1>3, <1>7 DEF Record, MadeRun, RunRecord
<1>9. UNCHANGED <<campaign, cache, budget, report, analyses, bundle, trouble>>
  BY DEF Record, World, calls
<1>10. IsLog(checkpoint')
  <2>1. run'.events = e
    BY <1>8 DEF MadeRun
  <2>. QED
    BY <1>7, <2>1 DEF Record, PersistCheckpoint
<1>11. FilesTyped'
  BY <1>1, <1>9, <1>10, FilesSame
<1>12. Ready(run.pc, run.i + 1, e, run.candidate, run.goal)
  <2>1. run.i + 1 \in Nat \ {0}
    BY <1>2
  <2>2. CASE run.pc = "train"
    BY <1>2, <1>7, <1>9, <2>1, <2>2 DEF Ready, Previewing, Going
  <2>3. CASE run.pc = "score"
    <3>1. run.candidate \in Candidates \ Seen(campaign) /\ Covered(run.i, run.candidate)
      BY <1>1, <2>3 DEF GateInv
    <3>2. HasScores(Rest[((run.i - 1) \div 3) + 1], IF run.i % 3 = 2 THEN run.candidate ELSE Parent)
      BY <1>5, <1>6, <2>3 DEF ScoredCase, ScoredPolicy
    <3>3. ASSUME NEW j \in 1..3 * Len(Rest), j < run.i + 1
          PROVE  HasScores(Rest[((j - 1) \div 3) + 1], IF j % 3 = 2 THEN run.candidate ELSE Parent)
      <4>1. CASE j = run.i
        BY <3>2, <4>1
      <4>2. CASE j # run.i
        <5>1. j < run.i
          BY <1>2, <3>3, <4>2
        <5>. QED
          BY <3>1, <5>1 DEF Covered
      <4>. QED
        BY <4>1, <4>2
    <3>4. Covered(run.i + 1, run.candidate)
      BY <3>3 DEF Covered
    <3>. QED
      BY <1>2, <1>7, <1>9, <2>1, <2>3, <3>1, <3>4 DEF Ready, Previewing, Going
  <2>. QED
    BY <2>2, <2>3
<1>. QED
  BY <1>2, <1>3, <1>8, <1>9, <1>11, <1>12, MoveStep

LEMMA EvaluateTrainKeeps == ASSUME LoopInv, EvaluateTrain, run # Idle PROVE LoopInv'
<1>1. run.pc = "train" /\ Calls = EvaluationCalls(Train[run.i], Parent) /\ run.i \in DOMAIN Train
  BY DEF EvaluateTrain, At, Calls
<1>. QED
  BY <1>1, RecordKeeps DEF EvaluateTrain

LEMMA ScoreKeeps == ASSUME LoopInv, Score, run # Idle PROVE LoopInv'
<1>1. run.pc = "score" /\ Calls = EvaluationCalls(ScoredCase, ScoredPolicy)
  BY DEF Score, At, Calls
<1>. QED
  BY <1>1, RecordKeeps DEF Score

LEMMA ExhaustKeeps == ASSUME LoopInv, Exhaust, run # Idle PROVE LoopInv'
<1>1. FilesTyped /\ RunTyped /\ CacheTyped
  BY DEF LoopInv
<1>2. /\ RunRecord(run) /\ run.i \in Nat \ {0} /\ IsLog(run.events) /\ budget # NoFile
      /\ run.pc \in Working /\ run.pc \in Going /\ run.memory.iteration < MaxIterations
      /\ run.call = <<>> /\ Due
  BY RunIs DEF Exhaust, Due, Going
<1>3. UNCHANGED <<campaign, agreement, cache, budget, summary, bundle, trouble>>
  BY DEF Exhaust, World, calls
<1>4. FilesTyped'
  <2>1. CASE run.pc = "differential"
    <3>1. PersistAnalysis(run.memory.iteration, "budget_exhausted")
      BY <2>1 DEF Exhaust, At
    <3>2. run.memory.iteration \in 0..MaxIterations - 1
      <4>1. run.memory.iteration \in 0..MaxIterations + trouble.fault
        BY <1>1, <1>2 DEF RunTyped, Memory
      <4>. QED
        BY <1>1, <1>2, <4>1, Bounds DEF FilesTyped
    <3>3. "budget_exhausted" \in Findings
      BY DEF Findings
    <3>. QED
      BY <1>1, <1>3, <3>1, <3>2, <3>3, AnalysisWritten
  <2>2. CASE run.pc # "differential"
    <3>1. UNCHANGED analyses
      BY <1>3, <2>2 DEF Exhaust, At, analyses
    <3>. QED
      BY <1>1, <1>3, <3>1, FilesSame DEF agreement
  <2>. QED
    BY <2>1, <2>2
<1>5. PICK e : /\ IsLog(e)
               /\ run' = [run EXCEPT !.pc = "report", !.goal = "budget_exhausted", !.caught = TRUE,
                                     !.events = e]
  <2>1. CASE run.pc \in {"train", "score"} /\ NextCall > 2
    <3>1. /\ NextCall \in DOMAIN Calls /\ NextCall \in Nat
          /\ \A n \in DOMAIN Calls : n < NextCall => Calls[n] \in DOMAIN cache /\ n \notin Failed(Calls)
      BY <1>2, NextCallIs
    <3>2. PICK case \in AllCases, policy \in Policies :
            Calls = EvaluationCalls(case, policy) /\ case = Calls[1][2] /\ policy = Calls[1][3]
      BY <2>1, <3>1, EvaluationOf
    <3>3. DOMAIN Calls = 1..2 + Len(ObserverOrder) /\ Len(ObserverOrder) \in Nat
      BY <3>2, EvaluationCallsAre
    <3>4. PICK n : n = NextCall - 3 /\ n \in 0..Len(ObserverOrder)
      BY <2>1, <3>1, <3>3
    <3>5. \A m \in 1..n + 2 : Calls[m] \in DOMAIN cache /\ m \notin Failed(Calls)
      BY <3>1, <3>3, <3>4
    <3>6. EventUpTo(case, policy, n) \in Events
      BY <1>1, <3>2, <3>4, <3>5, EvaluationDone
    <3>7. PICK e : e = Put(run.events, <<case, policy>>, EventUpTo(case, policy, n)) /\ IsLog(e)
      BY <1>2, <3>6, LogWith
    <3>8. e = Put(run.events, <<Calls[1][2], Calls[1][3]>>,
                  EventUpTo(Calls[1][2], Calls[1][3], NextCall - 3))
      BY <3>2, <3>4, <3>7, Zenon
    <3>9. At("train") \/ At("score")
      BY <2>1 DEF At
    <3>. QED
      BY <2>1, <3>7, <3>8, <3>9 DEF Exhaust
  <2>2. CASE ~(run.pc \in {"train", "score"} /\ NextCall > 2)
    <3>1. ~((At("train") \/ At("score")) /\ NextCall > 2)
      BY <2>2 DEF At
    <3>. QED
      BY <1>2, <3>1 DEF Exhaust
  <2>. QED
    BY <2>1, <2>2
<1>6. run' = MadeRun("report", TRUE, run.memory, run.i, e, <<>>, run.candidate, "budget_exhausted")
  BY <1>2, <1>5 DEF MadeRun, RunRecord
<1>7. Ready("report", run.i, e, run.candidate, "budget_exhausted")
  BY <1>2, <1>5 DEF Ready, Going, Working, Previewing, Clean
<1>. QED
  BY <1>2, <1>3, <1>4, <1>6, <1>7, MoveStep

-----------------------------------------------------------------------------
(* The calls.                                                                 *)
LEMMA CountKeeps == ASSUME LoopInv, Count PROVE LoopInv'
<1>1. FilesTyped /\ RunTyped /\ CacheTyped /\ CallsAccounted
  BY DEF LoopInv
<1>2. InFlight /\ CourseInv /\ IterationInv /\ GateInv /\ PreviewInv
  BY DEF LoopInv
<1>3. Due /\ run # Idle /\ run.pc \in Working /\ run.call = <<>> /\ budget # NoFile /\ budget < MaxCalls
  BY <1>2 DEF Count, Due, InFlight
<1>4. PICK l : l = Calls[NextCall] /\ l # <<>> /\ l \notin DOMAIN cache /\ NextCall \in DOMAIN Calls
  BY <1>3, NextCallIs
<1>5. run' = MadeRun(run.pc, run.caught, run.memory, run.i, run.events, l, run.candidate, run.goal)
  BY <1>1, <1>3, <1>4 DEF Count, MadeRun, RunTyped, RunRecord
<1>6. /\ run'.pc = run.pc /\ run'.memory = run.memory /\ run'.call = l /\ run'.i = run.i
      /\ run'.fresh = run.fresh /\ run'.events = run.events /\ run'.candidate = run.candidate
      /\ run'.goal = run.goal /\ run'.caught = run.caught /\ run' # Idle
  BY <1>1, <1>3, <1>5 DEF MadeRun, Idle, Working
<1>7. UNCHANGED <<campaign, cache, checkpoint, report, analyses, bundle, trouble>> /\ budget' = budget + 1
  BY DEF Count, World, agreement
<1>8. FilesTyped'
  BY <1>1, <1>7, FilesSame
<1>9. RunTyped'
  <2>1. RunRecord(run)'
    BY <1>5, <1>6 DEF RunRecord, MadeRun
  <2>. QED
    BY <1>1, <1>3, <1>6, <1>7, <2>1 DEF RunTyped, Memory, CampaignRecord, IsLog
<1>10. budget \in Nat /\ budget' \in 0..MaxCalls
  BY <1>1, <1>3, <1>7, Bounds DEF CacheTyped
<1>11. budget' # NoFile
  BY <1>10, Bounds
<1>12. CacheTyped'
  BY <1>1, <1>7, <1>10, <1>11 DEF CacheTyped, Answers
<1>13. CallsAccounted'
  <2>1. PICK n \in Nat : n = Cardinality(DOMAIN cache)
    BY <1>1, FS_CardinalityType DEF CacheTyped
  <2>2. trouble.lost \in Nat
    BY <1>1 DEF FilesTyped
  <2>3. budget = n + trouble.lost
    BY <1>1, <1>3, <2>1, <2>2 DEF CallsAccounted
  <2>4. n = Cardinality(DOMAIN cache')
    BY <1>7, <2>1
  <2>5. (IF run # Idle /\ run.call # <<>> THEN 1 ELSE 0)' = 1
    BY <1>4, <1>6
  <2>6. budget' = Cardinality(DOMAIN cache') + trouble'.lost + 1
    BY <1>7, <2>2, <2>3, <2>4
  <2>. QED
    BY <1>11, <2>5, <2>6 DEF CallsAccounted
<1>14. InFlight'
  <2>1. Calls' = Calls
    <3>1. /\ Analysed' = Analysed /\ Chosen' = Chosen
      BY <1>7 DEF Analysed, Chosen, PatchableTrain, Evaluation, Done, Uncached, Failed, Answered
    <3>2. ScoredCase' = ScoredCase /\ ScoredPolicy' = ScoredPolicy
      BY <1>6 DEF ScoredCase, ScoredPolicy
    <3>3. \A w : At(w)' = At(w)
      BY <1>6 DEF At
    <3>. QED
      BY <1>6, <3>1, <3>2, <3>3 DEF Calls
  <2>2. \E n \in DOMAIN Calls' : Calls'[n] = l
    BY <1>4, <2>1
  <2>. QED
    BY <1>3, <1>4, <1>6, <1>7, <1>11, <2>2 DEF InFlight, Working
<1>15. CourseInv'
  <2>1. campaign # Absent
    BY <1>2, <1>3 DEF CourseInv
  <2>. QED
    BY <1>2, <1>6, <1>7, <1>3, <2>1 DEF CourseInv
<1>16. IterationInv'
  BY <1>2, <1>3, <1>6, <1>7 DEF IterationInv
<1>17. GateInv'
  <2>1. run.pc = "score" => Covered(run.i, run.candidate)'
    BY <1>2, <1>3, <1>6, <1>7 DEF GateInv, Covered, HasScores
  <2>2. Found' = Found /\ Refuted' = Refuted
    BY <1>7, SameJudgement
  <2>3. Finding' => Finding
    BY <1>3, <1>6 DEF Finding
  <2>. QED
    BY <1>2, <1>3, <1>6, <1>7, <2>1, <2>2, <2>3 DEF GateInv
<1>18. PreviewInv'
  BY <1>2, <1>3, <1>6, <1>7 DEF PreviewInv
<1>19. FiledInv'
  BY <1>3, <1>6 DEF FiledInv, Previewing, Working
<1>. QED
  BY <1>8, <1>9, <1>12, <1>13, <1>14, <1>15, <1>16, <1>17, <1>18, <1>19 DEF LoopInv

LEMMA AnswerKeeps == ASSUME LoopInv, Answer PROVE LoopInv'
<1>1. FilesTyped /\ RunTyped /\ CacheTyped /\ CallsAccounted
  BY DEF LoopInv
<1>2. InFlight /\ CourseInv /\ IterationInv /\ GateInv /\ PreviewInv
  BY DEF LoopInv
<1>3. /\ run # Idle /\ run.call # <<>> /\ run.pc \in Working /\ run.call \notin DOMAIN cache
      /\ budget # NoFile
  BY <1>2 DEF Answer, InFlight
<1>4. PICK a \in Outcomes(run.call) : cache' = Put(cache, run.call, a)
  BY DEF Answer
<1>5. run' = MadeRun(run.pc, run.caught, run.memory, run.i, run.events, <<>>, run.candidate, run.goal)
  BY <1>1, <1>3 DEF Answer, MadeRun, RunTyped, RunRecord
<1>6. /\ run'.pc = run.pc /\ run'.memory = run.memory /\ run'.call = <<>> /\ run'.i = run.i
      /\ run'.fresh = run.fresh /\ run'.events = run.events /\ run'.candidate = run.candidate
      /\ run'.goal = run.goal /\ run'.caught = run.caught /\ run' # Idle
  BY <1>1, <1>3, <1>5 DEF MadeRun, Idle, Working
<1>7. UNCHANGED <<campaign, budget, checkpoint, report, analyses, bundle, trouble>>
  BY DEF Answer, World, agreement
<1>8. FilesTyped'
  BY <1>1, <1>7, FilesSame
<1>9. RunTyped'
  <2>1. RunRecord(run)'
    BY <1>5, <1>6 DEF RunRecord, MadeRun
  <2>. QED
    BY <1>1, <1>3, <1>6, <1>7, <2>1 DEF RunTyped, Memory, CampaignRecord, IsLog
<1>10. /\ DOMAIN cache' = DOMAIN cache \cup {run.call} /\ cache'[run.call] = a
       /\ \A call \in DOMAIN cache : cache'[call] = cache[call]
  BY <1>3, <1>4 DEF Put
<1>11. IF a.ok THEN a.value \in Answers(run.call) ELSE a.value \in Failures
  BY <1>4 DEF Outcomes
<1>12. IsFiniteSet(DOMAIN cache') /\ Cardinality(DOMAIN cache') = Cardinality(DOMAIN cache) + 1
  BY <1>1, <1>3, <1>10, FS_AddElement DEF CacheTyped
<1>13. CacheTyped'
  <2>1. \A call : Answers(call)' = Answers(call)
    BY DEF Answers
  <2>2. ASSUME NEW call \in DOMAIN cache'
        PROVE  IF cache'[call].ok THEN cache'[call].value \in Answers(call)
               ELSE cache'[call].value \in Failures
    <3>1. CASE call = run.call
      BY <1>10, <1>11, <3>1
    <3>2. CASE call # run.call
      <4>1. call \in DOMAIN cache /\ cache'[call] = cache[call]
        BY <1>10, <3>2
      <4>. QED
        BY <1>1, <4>1 DEF CacheTyped
    <3>. QED
      BY <3>1, <3>2
  <2>. QED
    BY <1>1, <1>3, <1>7, <1>12, <2>1, <2>2 DEF CacheTyped
<1>14. CallsAccounted'
  <2>1. PICK n \in Nat : n = Cardinality(DOMAIN cache)
    BY <1>1, FS_CardinalityType DEF CacheTyped
  <2>2. trouble.lost \in Nat
    BY <1>1 DEF FilesTyped
  <2>3. budget = n + trouble.lost + 1
    BY <1>1, <1>3, <2>1, <2>2 DEF CallsAccounted
  <2>4. Cardinality(DOMAIN cache') = n + 1
    BY <1>12, <2>1
  <2>5. (IF run # Idle /\ run.call # <<>> THEN 1 ELSE 0)' = 0
    BY <1>6
  <2>6. budget' = Cardinality(DOMAIN cache') + trouble'.lost + 0
    BY <1>7, <2>2, <2>3, <2>4
  <2>7. budget' # NoFile
    BY <1>3, <1>7
  <2>. QED
    BY <2>5, <2>6, <2>7 DEF CallsAccounted
<1>15. InFlight'
  BY <1>3, <1>6, <1>7 DEF InFlight, Working
<1>16. CourseInv'
  <2>1. campaign # Absent
    BY <1>2, <1>3 DEF CourseInv
  <2>. QED
    BY <1>2, <1>3, <1>6, <1>7, <2>1 DEF CourseInv
<1>17. IterationInv'
  BY <1>2, <1>3, <1>6, <1>7 DEF IterationInv
<1>18. GateInv'
  <2>1. Grown
    BY <1>10 DEF Grown
  <2>2. Found \subseteq Found' /\ Refuted \subseteq Refuted'
    BY <2>1, JudgementStays
  <2>3. run.pc = "score" => Covered(run.i, run.candidate)'
    BY <1>2, <1>3, <1>6, <2>1 DEF GateInv, Covered, HasScores, Grown
  <2>4. Finding' => Finding
    BY <1>3, <1>6 DEF Finding
  <2>. QED
    BY <1>2, <1>3, <1>6, <1>7, <2>2, <2>3, <2>4 DEF GateInv
<1>19. PreviewInv'
  BY <1>2, <1>3, <1>6, <1>7 DEF PreviewInv
<1>20. FiledInv'
  BY <1>3, <1>6 DEF FiledInv, Previewing, Working
<1>. QED
  BY <1>8, <1>9, <1>13, <1>14, <1>15, <1>16, <1>17, <1>18, <1>19, <1>20 DEF LoopInv

-----------------------------------------------------------------------------
(* The steps that write campaign.json before the end.                         *)
LEMMA SyncStep ==
  ASSUME LoopInv, run # Idle, run.pc \in Going, run.call = <<>>,
         UNCHANGED <<calls, agreement, analyses, bundle, trouble>>,
         NEW m, campaign' = m, Memory(m), m.state \in {"running", "failed"},
         Len(m.rejected) <= m.iteration, m.iteration <= MaxIterations,
         IsFiniteSet(Seen(m)), Cardinality(Seen(m)) = Len(m.rejected), Seen(m) \subseteq Refuted,
         NEW p \in {"open", "train", "iterate"}, NEW i \in Nat \ {0},
         p = "open" => run.pc = "audit", p # "open" => budget # NoFile,
         p = "train" => m.iteration < MaxIterations,
         run' = MadeRun(p, run.caught, m, i, run.events, <<>>, run.candidate, run.goal)
  PROVE  LoopInv'
<1>1. FilesTyped /\ RunTyped /\ CacheTyped /\ CallsAccounted
  BY DEF LoopInv
<1>2. InFlight /\ CourseInv /\ IterationInv /\ GateInv /\ PreviewInv /\ bundle = NoFile
  BY DEF LoopInv, CourseInv
<1>3. /\ run'.pc = p /\ run'.memory = m /\ run'.call = <<>> /\ run'.i = i /\ run'.fresh = run.fresh
      /\ run'.events = run.events /\ run'.candidate = run.candidate /\ run'.goal = run.goal /\ run' # Idle
  BY DEF MadeRun, Idle
<1>4. UNCHANGED <<cache, budget, checkpoint, report, differential, summary, bundle, trouble>>
  BY DEF calls, agreement, analyses
<1>5. Memory(m)' /\ campaign' # Absent
  BY <1>4 DEF Memory, Absent
<1>6. FilesTyped'
  <2>1. /\ (checkpoint = NoFile \/ IsLog(checkpoint))' /\ (report = NoFile \/ IsReport(report))'
        /\ (summary = NoFile \/ IsSummary(summary))'
    BY <1>1, <1>4 DEF FilesTyped, IsLog, IsReport, IsSummary
  <2>2. Memory(campaign)'
    BY <1>5 DEF Memory, CampaignRecord
  <2>. QED
    BY <1>1, <1>4, <2>1, <2>2 DEF FilesTyped
<1>7. RunTyped'
  <2>1. RunRecord(run)'
    BY <1>3 DEF RunRecord, MadeRun
  <2>2. Memory(run.memory)'
    BY <1>3, <1>5 DEF Memory, CampaignRecord
  <2>3. IsLog(run.events)' /\ run.goal \in Clean \cup {"failed"}
    BY <1>1, <1>3 DEF RunTyped, IsLog
  <2>4. p \in {"audit", "open"} \cup Tried
    BY DEF Tried, Working
  <2>. QED
    BY <1>3, <2>1, <2>2, <2>3, <2>4 DEF RunTyped
<1>8. CacheTyped' /\ CallsAccounted'
  BY <1>1, <1>2, <1>3, <1>4, AccountsStay DEF Lost
<1>9. InFlight'
  BY <1>2, <1>3, <1>4 DEF InFlight, Working
<1>10. CourseInv'
  BY <1>2, <1>3, <1>4, <1>5 DEF CourseInv, Going, Previewing, Working
<1>11. IterationInv'
  BY <1>2, <1>3, <1>4 DEF IterationInv
<1>12. GateInv'
  <2>1. Refuted' = Refuted
    BY <1>4, SameJudgement
  <2>2. ~Finding' /\ run'.pc # "score"
    BY <1>3 DEF Finding, Previewing
  <2>. QED
    BY <1>2, <1>4, <2>1, <2>2 DEF GateInv
<1>13. PreviewInv'
  BY <1>3 DEF PreviewInv
<1>14. FiledInv'
  BY <1>3 DEF FiledInv, Previewing
<1>. QED
  BY <1>6, <1>7, <1>8, <1>9, <1>10, <1>11, <1>12, <1>13, <1>14 DEF LoopInv

(* What the process remembers, before it ends.                                *)
LEMMA MemoryIs ==
  ASSUME LoopInv, run # Idle, run.pc \in Going
  PROVE  /\ Memory(run.memory) /\ run.memory.state \in {"running", "failed"}
         /\ run.memory.rejected = campaign.rejected /\ Seen(run.memory) = Seen(campaign)
         /\ Len(run.memory.rejected) <= run.memory.iteration
         /\ run.memory.iteration <= MaxIterations /\ bundle = NoFile /\ campaign # Absent
         /\ IsFiniteSet(Seen(campaign)) /\ Cardinality(Seen(campaign)) = Len(campaign.rejected)
         /\ Seen(campaign) \subseteq Refuted
<1>1. CourseInv /\ IterationInv /\ RunTyped /\ GateInv
  BY DEF LoopInv
<1>2. campaign # Absent /\ bundle = NoFile
  BY <1>1 DEF CourseInv
<1>3. /\ Memory(run.memory) /\ run.memory.rejected = campaign.rejected
      /\ run.memory.state \in {"running", "failed"}
  BY <1>1 DEF RunTyped, CourseInv
<1>4. Seen(run.memory) = Seen(campaign)
  BY <1>3 DEF Seen
<1>. QED
  BY <1>1, <1>2, <1>3, <1>4 DEF CourseInv, IterationInv, GateInv

LEMMA AuditKeeps == ASSUME LoopInv, Audit, run # Idle PROVE LoopInv'
<1>1. run.pc = "audit" /\ run.pc \in Going
  BY DEF Audit, At, Going
<1>2. RunRecord(run) /\ run.i \in Nat \ {0}
  BY RunIs
<1>3. run.call = <<>>
  BY <1>1 DEF LoopInv, InFlight, Working
<1>4. PICK m : m = [run.memory EXCEPT !.audited = TRUE]
  OBVIOUS
<1>5. Memory(run.memory) /\ CampaignRecord(run.memory)
  BY <1>1, MemoryIs DEF Memory
<1>6. /\ m.state = run.memory.state /\ m.iteration = run.memory.iteration
      /\ m.rejected = run.memory.rejected /\ m.candidate = run.memory.candidate /\ CampaignRecord(m)
  BY <1>4, <1>5 DEF CampaignRecord
<1>7. Memory(m) /\ Seen(m) = Seen(run.memory)
  BY <1>5, <1>6 DEF Memory, Seen
<1>8. run' = MadeRun("open", run.caught, m, run.i, run.events, <<>>, run.candidate, run.goal)
  BY <1>2, <1>3, <1>4 DEF Audit, MadeRun, RunRecord
<1>9. campaign' = m /\ UNCHANGED <<calls, agreement, analyses, bundle, trouble>>
  <2>1. run'.memory = m
    BY <1>8 DEF MadeRun
  <2>2. campaign' = run'.memory /\ UNCHANGED <<calls, agreement, analyses>> /\ World
    BY DEF Audit
  <2>. QED
    BY <2>1, <2>2 DEF World
<1>10. /\ m.state \in {"running", "failed"} /\ Len(m.rejected) <= m.iteration
       /\ m.iteration <= MaxIterations
       /\ IsFiniteSet(Seen(m)) /\ Cardinality(Seen(m)) = Len(m.rejected) /\ Seen(m) \subseteq Refuted
  BY <1>1, <1>6, <1>7, MemoryIs
<1>. QED
  BY <1>1, <1>2, <1>3, <1>7, <1>8, <1>9, <1>10, SyncStep

LEMMA IterateKeeps == ASSUME LoopInv, Iterate, run # Idle PROVE LoopInv'
<1>1. run.pc = "iterate" /\ run.pc \in Going
  BY DEF Iterate, At, Going
<1>2. /\ RunRecord(run) /\ run.i \in Nat \ {0} /\ IsLog(run.events)
      /\ run.goal \in Clean \cup {"failed"} /\ run.caught = run.caught
  BY RunIs
<1>3. run.call = <<>> /\ budget # NoFile /\ FilesTyped
  BY <1>1 DEF LoopInv, InFlight, Working
<1>4. UNCHANGED <<calls, agreement, analyses, bundle, trouble>>
  BY DEF Iterate, World
<1>5. CASE run.memory.iteration < MaxIterations
  <2>1. PICK m : m = [run.memory EXCEPT !.state = "running"]
    OBVIOUS
  <2>2. Memory(run.memory) /\ CampaignRecord(run.memory)
    BY <1>1, MemoryIs DEF Memory
  <2>3. /\ m.state = "running" /\ m.iteration = run.memory.iteration
        /\ m.rejected = run.memory.rejected /\ m.candidate = run.memory.candidate /\ CampaignRecord(m)
    BY <2>1, <2>2 DEF CampaignRecord
  <2>4. Memory(m) /\ Seen(m) = Seen(run.memory)
    BY <2>2, <2>3 DEF Memory, Seen
  <2>5. run' = MadeRun("train", run.caught, m, 1, run.events, <<>>, run.candidate, run.goal)
    BY <1>2, <1>3, <1>5, <2>1 DEF Iterate, MadeRun, RunRecord
  <2>6. campaign' = m
    BY <1>5, <2>5 DEF Iterate, MadeRun
  <2>7. /\ m.state \in {"running", "failed"} /\ Len(m.rejected) <= m.iteration
        /\ m.iteration <= MaxIterations /\ m.iteration < MaxIterations
        /\ IsFiniteSet(Seen(m)) /\ Cardinality(Seen(m)) = Len(m.rejected) /\ Seen(m) \subseteq Refuted
    BY <1>1, <1>5, <2>3, <2>4, MemoryIs
  <2>8. 1 \in Nat \ {0}
    OBVIOUS
  <2>. QED
    BY <1>1, <1>3, <1>4, <2>4, <2>5, <2>6, <2>7, <2>8, SyncStep
<1>6. CASE ~(run.memory.iteration < MaxIterations)
  <2>1. run' = MadeRun("report", run.caught, run.memory, run.i, run.events, <<>>, run.candidate,
                       "budget_exhausted")
    BY <1>2, <1>3, <1>6 DEF Iterate, Conclude, MadeRun, RunRecord
  <2>2. UNCHANGED <<campaign, cache, budget, report, checkpoint, bundle, trouble>>
    BY <1>4, <1>6 DEF Iterate, calls, agreement
  <2>3. FilesTyped'
    BY <1>3, <1>4, <2>2, FilesSame
  <2>4. Ready("report", run.i, run.events, run.candidate, "budget_exhausted")
    BY <1>2 DEF Ready, Going, Working, Previewing, Clean
  <2>. QED
    BY <1>1, <1>3, <2>1, <2>2, <2>3, <2>4, MoveStep
<1>. QED
  BY <1>5, <1>6

LEMMA Appended ==
  ASSUME NEW S, NEW s \in Seq(S), NEW x
  PROVE  /\ Append(s, x) \in Seq(ToSet(Append(s, x))) /\ Len(Append(s, x)) = Len(s) + 1
         /\ Len(s) \in Nat /\ \A i \in 1..Len(s) : Append(s, x)[i] = s[i]
         /\ Append(s, x)[Len(s) + 1] = x /\ DOMAIN Append(s, x) = 1..Len(s) + 1 /\ DOMAIN s = 1..Len(s)
<1>1. PICK T : T = S \cup {x}
  OBVIOUS
<1>2. s \in Seq(T) /\ x \in T
  BY <1>1
<1>3. PICK t \in Seq(T) : t = Append(s, x)
  <2>1. Append(s, x) \in Seq(T)
    BY <1>2, AppendProperties
  <2>. QED
    BY <2>1
<1>4. t \in Seq(ToSet(t))
  <2>1. t = [i \in 1..Len(t) |-> t[i]] /\ Len(t) \in Nat /\ DOMAIN t = 1..Len(t)
    <3>1. \E k \in Nat : t \in [1..k -> T] /\ k = Len(t)
      OBVIOUS
    <3>. QED
      BY <3>1
  <2>2. \A i \in 1..Len(t) : t[i] \in ToSet(t)
    BY <2>1 DEF ToSet
  <2>3. t \in [1..Len(t) -> ToSet(t)]
    BY <2>1, <2>2
  <2>. QED
    BY <2>1, <2>3
<1>5. Len(t) = Len(s) + 1 /\ t[Len(s) + 1] = x /\ \A i \in 1..Len(s) : t[i] = s[i]
  BY <1>2, <1>3
<1>6. Len(s) \in Nat /\ DOMAIN s = 1..Len(s) /\ DOMAIN t = 1..Len(t)
  BY <1>2, <1>3
<1>. QED
  BY <1>3, <1>4, <1>5, <1>6

LEMMA RejectKeeps == ASSUME LoopInv, Reject, run # Idle PROVE LoopInv'
<1>1. run.pc = "score" /\ run.pc \in Going
  BY DEF Reject, At, Going, Working
<1>2. /\ RunRecord(run) /\ run.i \in Nat \ {0} /\ budget # NoFile
      /\ run.memory.iteration < MaxIterations
  BY <1>1, RunIs DEF Working
<1>3. run.call = <<>>
  <2>1. Len(Rest) \in Nat
    <3>1. Rest \in Seq(Cases)
      BY LoopAssumption, Zenon
    <3>. QED
      BY <3>1
  <2>2. run.i \notin 1..3 * Len(Rest)
    BY <1>2, <2>1 DEF Reject
  <2>3. Calls = <<>>
    BY <1>1, <2>2 DEF Calls, At
  <2>4. DOMAIN Calls = {} /\ InFlight
    BY <2>3 DEF LoopInv
  <2>. QED
    BY <2>4, NothingInFlight
<1>4. run.candidate \in Refuted \ Seen(campaign)
  <2>1. run.candidate \in Candidates \ Seen(campaign) /\ Covered(run.i, run.candidate)
    BY <1>1 DEF LoopInv, GateInv
  <2>2. PICK c \in Candidates, i \in Nat : c = run.candidate /\ i = run.i
    BY <1>2, <2>1
  <2>3. i > 3 * Len(Rest) /\ Covered(i, c)
    BY <2>1, <2>2 DEF Reject
  <2>4. Judged(c)
    BY <2>2, <2>3, CoveredAll
  <2>5. ~ReachesAll(c)
    BY <2>2 DEF Reject, Passed, ReachesAll
  <2>. QED
    BY <2>1, <2>2, <2>4, <2>5 DEF Refuted
<1>5. /\ Memory(run.memory) /\ CampaignRecord(run.memory) /\ run.memory.state \in {"running", "failed"}
      /\ run.memory.rejected = campaign.rejected /\ Seen(run.memory) = Seen(campaign)
      /\ Len(run.memory.rejected) <= run.memory.iteration
      /\ IsFiniteSet(Seen(campaign)) /\ Cardinality(Seen(campaign)) = Len(campaign.rejected)
      /\ Seen(campaign) \subseteq Refuted
  BY <1>1, MemoryIs DEF Memory
<1>6. PICK s, t : /\ s = run.memory.rejected /\ t = Append(s, Rejection)
                  /\ s \in Seq(ToSet(s))
  BY <1>5 DEF Memory
<1>7. /\ t \in Seq(ToSet(t)) /\ Len(t) = Len(s) + 1 /\ Len(s) \in Nat
      /\ \A i \in 1..Len(s) : t[i] = s[i]
      /\ t[Len(s) + 1] = Rejection /\ DOMAIN t = 1..Len(s) + 1 /\ DOMAIN s = 1..Len(s)
  BY <1>6, Appended
<1>8. PICK m : m = [run.memory EXCEPT !.iteration = @ + 1, !.rejected = t]
  OBVIOUS
<1>9. /\ m.state = run.memory.state /\ m.iteration = run.memory.iteration + 1
      /\ m.rejected = t /\ m.candidate = run.memory.candidate /\ CampaignRecord(m)
  BY <1>5, <1>8 DEF CampaignRecord
<1>10. run.memory.iteration \in Nat /\ m.iteration \in 0..MaxIterations + trouble.fault /\ m.iteration <= MaxIterations
  <2>1. trouble.fault \in Nat
    BY Bounds DEF LoopInv, FilesTyped
  <2>2. run.memory.iteration \in 0..MaxIterations + trouble.fault
    BY <1>5 DEF Memory
  <2>. QED
    BY <1>2, <1>9, <2>1, <2>2, Bounds
<1>11. Len(m.rejected) <= m.iteration /\ Len(m.rejected) \in 0..MaxIterations
  BY <1>5, <1>6, <1>7, <1>9, <1>10, Bounds
<1>12. Memory(m)
  BY <1>5, <1>7, <1>9, <1>10, <1>11 DEF Memory
<1>13. Seen(m) = Seen(campaign) \cup {run.candidate}
  <2>1. Seen(run.memory) = {s[i].candidate : i \in 1..Len(s)}
    BY <1>6, <1>7 DEF Seen
  <2>2. Seen(m) = {t[i].candidate : i \in 1..Len(s) + 1}
    BY <1>7, <1>9 DEF Seen
  <2>3. 1..Len(s) + 1 = 1..Len(s) \cup {Len(s) + 1}
    BY <1>7
  <2>4. t[Len(s) + 1].candidate = run.candidate
    BY <1>7 DEF Rejection
  <2>5. \A i \in 1..Len(s) : t[i].candidate = s[i].candidate
    BY <1>7
  <2>. QED
    BY <1>5, <2>1, <2>2, <2>3, <2>4, <2>5
<1>14. IsFiniteSet(Seen(m)) /\ Cardinality(Seen(m)) = Len(m.rejected) /\ Seen(m) \subseteq Refuted
  <2>1. IsFiniteSet(Seen(m)) /\ Cardinality(Seen(m)) = Cardinality(Seen(campaign)) + 1
    BY <1>4, <1>5, <1>13, FS_AddElement
  <2>. QED
    BY <1>4, <1>5, <1>6, <1>7, <1>9, <1>13, <2>1
<1>15. run' = MadeRun("iterate", run.caught, m, run.i, run.events, <<>>, run.candidate, run.goal)
  BY <1>2, <1>3, <1>6, <1>8 DEF Reject, MadeRun, RunRecord
<1>16. campaign' = m /\ UNCHANGED <<calls, agreement, analyses, bundle, trouble>>
  <2>1. run'.memory = m
    BY <1>15 DEF MadeRun
  <2>2. campaign' = run'.memory /\ UNCHANGED <<calls, agreement, analyses>> /\ World
    BY DEF Reject
  <2>. QED
    BY <2>1, <2>2 DEF World
<1>. QED
  BY <1>1, <1>2, <1>3, <1>5, <1>9, <1>10, <1>11, <1>12, <1>14, <1>15, <1>16, SyncStep

-----------------------------------------------------------------------------
(* The commands.                                                              *)
LEMMA BeginStep ==
  ASSUME LoopInv, run = Idle, bundle = NoFile,
         UNCHANGED <<calls, agreement, analyses, bundle, trouble>>,
         NEW m, campaign' = m, Memory(m), m.state \in {"running", "failed"},
         Len(m.rejected) <= m.iteration, m.iteration <= MaxIterations,
         IsFiniteSet(Seen(m)), Cardinality(Seen(m)) = Len(m.rejected), Seen(m) \subseteq Refuted,
         NEW new, new => budget = NoFile, run' = Process(m, new)
  PROVE  LoopInv'
<1>1. FilesTyped /\ CacheTyped /\ CallsAccounted
  BY DEF LoopInv
<1>2. /\ run'.pc = "audit" /\ run'.memory = m /\ run'.call = <<>> /\ run'.i = 1 /\ run'.fresh = new
      /\ run'.events = Nothing /\ run'.goal = "failed" /\ run' # Idle
  BY DEF Process, Idle
<1>3. UNCHANGED <<cache, budget, checkpoint, report, differential, summary, bundle, trouble>>
  BY DEF calls, agreement, analyses
<1>4. Memory(m)' /\ campaign' # Absent
  BY <1>3 DEF Memory, Absent
<1>5. FilesTyped'
  <2>1. /\ (checkpoint = NoFile \/ IsLog(checkpoint))' /\ (report = NoFile \/ IsReport(report))'
        /\ (summary = NoFile \/ IsSummary(summary))'
    BY <1>1, <1>3 DEF FilesTyped, IsLog, IsReport, IsSummary
  <2>2. Memory(campaign)'
    BY <1>4 DEF Memory, CampaignRecord
  <2>. QED
    BY <1>1, <1>3, <2>1, <2>2 DEF FilesTyped
<1>6. RunTyped'
  <2>1. RunRecord(run)'
    BY DEF RunRecord, Process
  <2>2. Memory(run.memory)'
    BY <1>2, <1>4 DEF Memory, CampaignRecord
  <2>3. IsLog(run.events)'
    BY <1>2, EmptyLog DEF IsLog
  <2>. QED
    BY <1>2, <2>1, <2>2, <2>3 DEF RunTyped
<1>7. CacheTyped'
  BY <1>1, <1>3 DEF CacheTyped, Answers
<1>8. CallsAccounted'
  BY <1>1, <1>2, <1>3 DEF CallsAccounted
<1>9. InFlight'
  BY <1>2, <1>3 DEF InFlight, Working
<1>10. CourseInv'
  BY <1>2, <1>3, <1>4 DEF CourseInv, Going, Previewing, Working
<1>11. IterationInv'
  BY <1>2, <1>3 DEF IterationInv
<1>12. GateInv'
  <2>1. Refuted' = Refuted
    BY <1>3, SameJudgement
  <2>2. ~Finding' /\ run'.pc # "score"
    BY <1>2 DEF Finding, Previewing
  <2>. QED
    BY <1>3, <2>1, <2>2 DEF GateInv
<1>13. PreviewInv' /\ FiledInv'
  BY <1>2 DEF PreviewInv, FiledInv, Previewing
<1>. QED
  BY <1>5, <1>6, <1>7, <1>8, <1>9, <1>10, <1>11, <1>12, <1>13 DEF LoopInv

LEMMA StartKeeps == ASSUME LoopInv, Start PROVE LoopInv'
<1>1. bundle = NoFile /\ budget = NoFile /\ run = Idle
  BY DEF LoopInv, CourseInv, Start
<1>2. UNCHANGED <<calls, agreement, analyses, bundle, trouble>> /\ campaign' = New
  BY DEF Start, World
<1>3. trouble.fault \in Nat
  BY Bounds DEF LoopInv, FilesTyped
<1>4. New.rejected = <<>> /\ New.iteration = 0 /\ New.state = "running" /\ New.candidate = NoFile /\ CampaignRecord(New)
  BY DEF New, CampaignRecord
<1>5. Memory(New)
  <2>1. <<>> \in Seq(ToSet(<<>>)) /\ Len(<<>>) = 0
    OBVIOUS
  <2>2. 0 \in 0..MaxIterations /\ 0 \in 0..MaxIterations + trouble.fault
    BY <1>3, Bounds
  <2>. QED
    BY <1>4, <2>1, <2>2 DEF Memory
<1>6. Seen(New) = {}
  BY <1>4 DEF Seen
<1>7. /\ IsFiniteSet(Seen(New)) /\ Cardinality(Seen(New)) = Len(New.rejected) /\ Seen(New) \subseteq Refuted
      /\ Len(New.rejected) <= New.iteration /\ New.iteration <= MaxIterations
  BY <1>4, <1>6, FS_EmptySet, Bounds
<1>8. run' = Process(New, TRUE) /\ New.state \in {"running", "failed"}
  BY <1>4 DEF Start
<1>. QED
  BY <1>1, <1>2, <1>5, <1>7, <1>8, BeginStep

LEMMA ResumeKeeps == ASSUME LoopInv, Resume PROVE LoopInv'
<1>1. bundle = NoFile /\ run = Idle /\ campaign.state = "failed" /\ campaign # Absent
  BY DEF Resume, Absent
<1>2. UNCHANGED <<calls, agreement, analyses, bundle, trouble>> /\ campaign' = campaign
  BY DEF Resume, World
<1>3. /\ Memory(campaign) /\ Len(campaign.rejected) <= campaign.iteration
      /\ campaign.iteration <= MaxIterations
      /\ IsFiniteSet(Seen(campaign)) /\ Cardinality(Seen(campaign)) = Len(campaign.rejected)
      /\ Seen(campaign) \subseteq Refuted
  BY <1>1 DEF LoopInv, FilesTyped, CourseInv, IterationInv, GateInv
<1>4. PICK m : m = campaign
  OBVIOUS
<1>5. /\ Memory(m) /\ Len(m.rejected) <= m.iteration /\ m.iteration <= MaxIterations
      /\ IsFiniteSet(Seen(m)) /\ Cardinality(Seen(m)) = Len(m.rejected) /\ Seen(m) \subseteq Refuted
      /\ m.state \in {"running", "failed"} /\ campaign' = m /\ run' = Process(m, FALSE)
  BY <1>1, <1>2, <1>3, <1>4 DEF Resume
<1>. QED
  BY <1>1, <1>2, <1>5, BeginStep

LEMMA ResumePreviewKeeps == ASSUME LoopInv, ResumePreview PROVE LoopInv'
<1>1. FilesTyped /\ CacheTyped /\ CallsAccounted
  BY DEF LoopInv
<1>2. /\ run = Idle /\ bundle # NoFile /\ campaign.state \in {"running", "failed"} /\ campaign # Absent
  BY DEF ResumePreview, Absent
<1>3. /\ Memory(campaign) /\ CampaignRecord(campaign) /\ Len(campaign.rejected) <= campaign.iteration
      /\ campaign.iteration < MaxIterations + trouble.fault
      /\ IsFiniteSet(Seen(campaign)) /\ Cardinality(Seen(campaign)) = Len(campaign.rejected)
      /\ Seen(campaign) \subseteq Refuted /\ bundle.candidate \in Found \ Seen(campaign)
      /\ bundle.candidate \in Candidates
  BY <1>2 DEF LoopInv, FilesTyped, CourseInv, IterationInv, GateInv, Memory
<1>4. trouble.fault \in Nat /\ campaign.iteration \in Nat
  BY <1>1, <1>3, Bounds DEF FilesTyped, Memory
<1>5. PICK m : m = campaign'
  OBVIOUS
<1>6. /\ m.state = "promotion_previewed" /\ m.iteration = campaign.iteration + 1
      /\ m.rejected = campaign.rejected /\ m.candidate = bundle.candidate /\ CampaignRecord(m)
  BY <1>3, <1>5 DEF ResumePreview, CampaignRecord
<1>7. Memory(m)
  <2>1. m.iteration \in 0..MaxIterations + trouble.fault
    BY <1>3, <1>4, <1>6, Bounds
  <2>. QED
    BY <1>3, <1>6, <2>1 DEF Memory, Clean
<1>8. Seen(m) = Seen(campaign) /\ Len(m.rejected) <= m.iteration /\ m # Absent
  <2>1. Len(campaign.rejected) \in Nat
    BY <1>3, Bounds DEF Memory
  <2>. QED
    BY <1>3, <1>4, <1>6, <2>1 DEF Seen, Absent
<1>9. run' = [pc |-> "cleanup", fresh |-> FALSE, caught |-> TRUE, memory |-> m, i |-> 1, events |-> Nothing,
              call |-> <<>>, candidate |-> NoFile, goal |-> "failed"]
  BY <1>5 DEF ResumePreview, Process
<1>10. /\ run'.pc = "cleanup" /\ run'.memory = m /\ run'.call = <<>> /\ run'.i = 1 /\ run'.fresh = FALSE
       /\ run'.events = Nothing /\ run'.goal = "failed" /\ run' # Idle
  BY <1>9 DEF Idle
<1>11. UNCHANGED <<cache, budget, checkpoint, report, differential, summary, bundle, trouble>>
  BY DEF ResumePreview, World, calls, agreement, analyses
<1>12. Memory(m)' /\ campaign' = m
  BY <1>5, <1>7, <1>11 DEF Memory
<1>13. FilesTyped'
  <2>1. /\ (checkpoint = NoFile \/ IsLog(checkpoint))' /\ (report = NoFile \/ IsReport(report))'
        /\ (summary = NoFile \/ IsSummary(summary))'
    BY <1>1, <1>11 DEF FilesTyped, IsLog, IsReport, IsSummary
  <2>2. Memory(campaign)'
    BY <1>12 DEF Memory, CampaignRecord
  <2>. QED
    BY <1>1, <1>11, <2>1, <2>2 DEF FilesTyped
<1>14. RunTyped'
  <2>1. RunRecord(run)'
    BY <1>9, <1>10 DEF RunRecord
  <2>2. Memory(run.memory)'
    BY <1>10, <1>12 DEF Memory, CampaignRecord
  <2>3. IsLog(run.events)'
    BY <1>10, EmptyLog DEF IsLog
  <2>. QED
    BY <1>10, <2>1, <2>2, <2>3 DEF RunTyped, Tried
<1>15. CacheTyped'
  BY <1>1, <1>11 DEF CacheTyped, Answers
<1>16. CallsAccounted'
  BY <1>1, <1>2, <1>10, <1>11 DEF CallsAccounted
<1>17. InFlight'
  BY <1>10, <1>11 DEF InFlight, Working
<1>18. CourseInv'
  BY <1>8, <1>10, <1>12 DEF CourseInv, Going, Previewing, Working
<1>19. IterationInv'
  BY <1>2, <1>6, <1>10, <1>11, <1>12 DEF IterationInv
<1>20. GateInv'
  <2>1. Refuted' = Refuted /\ Found' = Found
    BY <1>11, SameJudgement
  <2>2. ~Finding' /\ run'.pc # "score"
    BY <1>10 DEF Finding, Previewing
  <2>3. Seen(campaign)' = Seen(campaign)
    BY <1>6, <1>12 DEF Seen
  <2>. QED
    BY <1>3, <1>6, <1>11, <1>12, <2>1, <2>2, <2>3 DEF GateInv
<1>21. PreviewInv' /\ FiledInv'
  BY <1>2, <1>6, <1>10, <1>11, <1>12 DEF PreviewInv, FiledInv, Previewing
<1>. QED
  BY <1>13, <1>14, <1>15, <1>16, <1>17, <1>18, <1>19, <1>20, <1>21 DEF LoopInv

-----------------------------------------------------------------------------
(* The end of a campaign.                                                     *)
LEMMA ReportIs == ASSUME IsLog(run.events) PROVE IsReport(Report) /\ Report # NoFile
<1>1. PICK S \in SUBSET Ids : run.events \in Logs(S)
  BY DEF IsLog
<1>2. Report \in Reports(S)
  BY <1>1 DEF Report, Reports
<1>3. \A T \in SUBSET Ids : NoFile \notin Logs(T) \cup Reports(T)
  BY LoopAssumption, Zenon
<1>. QED
  BY <1>1, <1>2, <1>3 DEF IsReport

LEMMA AnalysesAre == ASSUME FilesTyped PROVE IsSummary(Analyses) /\ Analyses # NoFile
<1>1. PICK D : D = DOMAIN differential /\ IsFiniteSet(D) /\ \A n \in D : differential[n] \in Findings
  BY DEF FilesTyped
<1>2. \A k : Cardinality({n \in D : differential[n] = k}) \in Nat
  <2>1. ASSUME NEW k PROVE Cardinality({n \in D : differential[n] = k}) \in Nat
    <3>1. {n \in D : differential[n] = k} \subseteq D
      OBVIOUS
    <3>2. IsFiniteSet({n \in D : differential[n] = k})
      BY <1>1, <3>1, FS_Subset
    <3>. QED
      BY <3>2, FS_CardinalityType
  <2>. QED
    BY <2>1
<1>3. Cardinality(D) \in Nat
  BY <1>1, FS_CardinalityType
<1>4. PICK F : F = {differential[n] : n \in D} \ {"available"} /\ F \in SUBSET Findings
  BY <1>1
<1>5. PICK f \in [F -> Nat] : f = [k \in F |-> Cardinality({n \in D : differential[n] = k})]
  BY <1>2
<1>6. Analyses = [attempted |-> Cardinality(D),
                  available |-> Cardinality({n \in D : differential[n] = "available"}), failures |-> f]
  BY <1>1, <1>4, <1>5, Zenon DEF Analyses
<1>7. Analyses \in Summaries(F)
  BY <1>2, <1>3, <1>5, <1>6 DEF Summaries
<1>8. \A G \in SUBSET Findings : NoFile \notin Summaries(G)
  BY LoopAssumption, Zenon
<1>. QED
  BY <1>4, <1>7, <1>8 DEF IsSummary

(* The process goes on to the summary or to the last write.                   *)
LEMMA EndStep ==
  ASSUME LoopInv, FilesTyped', IterationInv', PreviewInv', run # Idle, run.call = <<>>,
         UNCHANGED <<campaign, calls, trouble>>,
         bundle' # NoFile => bundle'.candidate \in Found \ Seen(campaign),
         NEW m, Memory(m), m.state # "running", m.rejected = run.memory.rejected,
         m.iteration >= run.memory.iteration,
         NEW p \in {"summary", "write"}, NEW g \in Clean \cup {"failed"},
         run' = MadeRun(p, run.caught, m, run.i, run.events, <<>>, run.candidate, g)
  PROVE  LoopInv'
<1>1. FilesTyped /\ RunTyped /\ CacheTyped /\ CallsAccounted
  BY DEF LoopInv
<1>2. InFlight /\ CourseInv /\ GateInv
  BY DEF LoopInv
<1>3. /\ run'.pc = p /\ run'.memory = m /\ run'.call = <<>> /\ run'.i = run.i /\ run'.events = run.events
      /\ run'.goal = g /\ run' # Idle
  BY DEF MadeRun, Idle
<1>4. cache' = cache /\ budget' = budget
  BY DEF calls
<1>5. RunTyped'
  <2>1. RunRecord(run)'
    BY <1>3 DEF RunRecord, MadeRun
  <2>2. Memory(run.memory)'
    BY <1>3 DEF Memory, CampaignRecord
  <2>3. IsLog(run.events)' /\ run'.i \in Nat \ {0}
    BY <1>1, <1>3 DEF RunTyped, IsLog
  <2>4. p \in {"audit", "open"} \cup Tried
    BY DEF Tried
  <2>. QED
    BY <1>3, <2>1, <2>2, <2>3, <2>4 DEF RunTyped
<1>6. CacheTyped' /\ CallsAccounted'
  BY <1>1, <1>2, <1>3, <1>4, AccountsStay DEF Lost
<1>7. InFlight'
  BY <1>3 DEF InFlight, Working
<1>8. CourseInv'
  <2>1. campaign # Absent
    BY <1>2 DEF CourseInv
  <2>2. /\ run.memory.rejected = campaign.rejected /\ Len(run.memory.rejected) <= run.memory.iteration
        /\ Len(campaign.rejected) <= campaign.iteration
    BY <1>2, <2>1 DEF CourseInv
  <2>3. run.memory.iteration \in Nat /\ m.iteration \in Nat /\ Len(run.memory.rejected) \in Nat
    <3>1. trouble.fault \in Nat /\ Memory(run.memory)
      BY <1>1, Bounds DEF FilesTyped, RunTyped
    <3>. QED
      BY <3>1, Bounds DEF Memory
  <2>4. Len(m.rejected) <= m.iteration /\ m.rejected = campaign.rejected
    BY <2>2, <2>3
  <2>. QED
    BY <1>3, <2>1, <2>2, <2>4 DEF CourseInv, Going, Previewing, Working
<1>9. GateInv'
  BY <1>2, <1>3, <1>4, SameJudgement DEF GateInv, Finding, Previewing
<1>10. FiledInv'
  BY <1>3 DEF FiledInv, Previewing
<1>. QED
  BY <1>5, <1>6, <1>7, <1>8, <1>9, <1>10 DEF LoopInv

LEMMA PersistReportKeeps == ASSUME LoopInv, PersistReport, run # Idle PROVE LoopInv'
<1>1. FilesTyped /\ RunTyped /\ InFlight /\ CourseInv /\ IterationInv /\ GateInv
  BY DEF LoopInv
<1>2. run.pc = "report" /\ run.pc \in Going /\ run.goal \in Clean
  BY <1>1 DEF PersistReport, At, Going, CourseInv
<1>3. RunRecord(run) /\ run.i \in Nat \ {0} /\ IsLog(run.events)
  BY RunIs
<1>4. run.call = <<>>
  BY <1>1, <1>2 DEF InFlight, Working
<1>5. report' = Report /\ IsReport(report') /\ report' # NoFile
  BY <1>3, ReportIs DEF PersistReport
<1>6. UNCHANGED <<campaign, cache, budget, checkpoint, differential, summary, bundle, trouble>>
  BY DEF PersistReport, World, calls, analyses
<1>7. FilesTyped'
  <2>1. (checkpoint = NoFile \/ IsLog(checkpoint))' /\ (summary = NoFile \/ IsSummary(summary))'
    BY <1>1, <1>6 DEF FilesTyped, IsLog, IsSummary
  <2>2. IsReport(report)'
    BY <1>5 DEF IsReport
  <2>3. (campaign = Absent \/ Memory(campaign))'
    BY <1>1, <1>6 DEF FilesTyped, Memory, CampaignRecord
  <2>. QED
    BY <1>1, <1>6, <2>1, <2>2, <2>3 DEF FilesTyped
<1>8. CASE run.goal = "promotion_previewed"
  <2>1. run' = MadeRun("presummary", run.caught, run.memory, run.i, run.events, <<>>, run.candidate, run.goal)
    BY <1>3, <1>4, <1>8 DEF PersistReport, MadeRun, RunRecord
  <2>2. run.candidate \in Found \ Seen(campaign) /\ run.memory.iteration < MaxIterations
    BY <1>1, <1>2, <1>8 DEF GateInv, Finding, CourseInv
  <2>3. Ready("presummary", run.i, run.events, run.candidate, run.goal)
    BY <1>2, <1>3, <1>5, <1>8, <2>2 DEF Ready, Going, Working, Previewing
  <2>. QED
    BY <1>2, <1>4, <1>6, <1>7, <2>1, <2>3, MoveStep
<1>9. CASE run.goal # "promotion_previewed"
  <2>1. PICK m : m = Ended(run.memory)
    OBVIOUS
  <2>2. /\ Memory(run.memory) /\ CampaignRecord(run.memory)
        /\ run.memory.iteration <= MaxIterations /\ bundle = NoFile
    BY <1>2, MemoryIs DEF Memory
  <2>3. /\ m.state = run.goal /\ m.iteration = run.memory.iteration
        /\ m.rejected = run.memory.rejected /\ m.candidate = run.memory.candidate /\ CampaignRecord(m)
    BY <2>1, <2>2 DEF Ended, CampaignRecord
  <2>4. Memory(m)
    BY <1>2, <2>2, <2>3 DEF Memory
  <2>5. run' = MadeRun("summary", run.caught, m, run.i, run.events, <<>>, run.candidate, run.goal)
    BY <1>3, <1>4, <1>9, <2>1 DEF PersistReport, MadeRun, RunRecord
  <2>6. run'.memory = m /\ run' # Idle
    BY <2>5 DEF MadeRun, Idle
  <2>7. IterationInv'
    BY <1>1, <1>6, <2>2, <2>3, <2>6 DEF IterationInv
  <2>8. PreviewInv'
    <3>1. campaign.state # "promotion_previewed"
      BY <1>1, <1>2 DEF CourseInv
    <3>. QED
      BY <1>6, <1>9, <2>3, <2>6, <3>1 DEF PreviewInv
  <2>9. m.state # "running" /\ m.iteration >= run.memory.iteration
    <3>1. run.memory.iteration \in 0..MaxIterations + trouble.fault
      BY <2>2 DEF Memory
    <3>. QED
      BY <1>2, <2>3, <3>1 DEF Clean
  <2>10. bundle' = NoFile /\ UNCHANGED <<campaign, calls, trouble>>
    BY <1>6, <2>2 DEF calls
  <2>. QED
    BY <1>2, <1>4, <1>7, <2>3, <2>4, <2>5, <2>7, <2>8, <2>9, <2>10, EndStep
<1>. QED
  BY <1>8, <1>9

LEMMA PersistSummaryKeeps == ASSUME LoopInv, PersistSummary, run # Idle PROVE LoopInv'
<1>1. FilesTyped /\ RunTyped /\ InFlight /\ CourseInv /\ IterationInv
  BY DEF LoopInv
<1>a. GateInv /\ PreviewInv /\ FiledInv
  BY DEF LoopInv
<1>2. run.pc \in {"presummary", "summary"}
  BY DEF PersistSummary, At
<1>3. RunRecord(run) /\ run.i \in Nat \ {0} /\ IsLog(run.events) /\ run.goal \in Clean \cup {"failed"}
  BY RunIs
<1>4. run.call = <<>>
  BY <1>1, <1>2 DEF InFlight, Working
<1>5. summary' = Analyses /\ IsSummary(summary') /\ summary' # NoFile
  BY <1>1, AnalysesAre DEF PersistSummary
<1>6. UNCHANGED <<campaign, cache, budget, checkpoint, report, differential, bundle, trouble>>
  BY DEF PersistSummary, World, calls, agreement
<1>7. FilesTyped'
  <2>1. (checkpoint = NoFile \/ IsLog(checkpoint))' /\ (report = NoFile \/ IsReport(report))'
    BY <1>1, <1>6 DEF FilesTyped, IsLog, IsReport
  <2>2. IsSummary(summary)'
    BY <1>5 DEF IsSummary
  <2>3. (campaign = Absent \/ Memory(campaign))'
    BY <1>1, <1>6 DEF FilesTyped, Memory, CampaignRecord
  <2>. QED
    BY <1>1, <1>6, <2>1, <2>2, <2>3 DEF FilesTyped
<1>8. CASE run.pc = "presummary"
  <2>1. run' = MadeRun("bundle", run.caught, run.memory, run.i, run.events, <<>>, run.candidate, run.goal)
    BY <1>3, <1>4, <1>8 DEF PersistSummary, At, MadeRun, RunRecord
  <2>2. run.pc \in Going /\ run.pc \in Previewing
    BY <1>8 DEF Going, Previewing
  <2>3. /\ run.goal = "promotion_previewed" /\ run.memory.iteration < MaxIterations
        /\ run.candidate \in Found \ Seen(campaign) /\ report # NoFile
    BY <1>1, <1>a, <2>2 DEF GateInv, Finding, CourseInv, FiledInv
  <2>4. Ready("bundle", run.i, run.events, run.candidate, run.goal)
    BY <1>3, <1>5, <1>6, <2>3 DEF Ready, Going, Working, Previewing
  <2>. QED
    BY <1>4, <1>6, <1>7, <2>1, <2>2, <2>4, MoveStep
<1>9. CASE run.pc = "summary"
  <2>1. PICK m : m = [run.memory EXCEPT !.summary = summary']
    OBVIOUS
  <2>2. Memory(run.memory) /\ CampaignRecord(run.memory) /\ run.memory.state # "running"
    BY <1>1, <1>9 DEF RunTyped, CourseInv, Memory
  <2>3. /\ m.state = run.memory.state /\ m.iteration = run.memory.iteration
        /\ m.rejected = run.memory.rejected /\ m.candidate = run.memory.candidate /\ CampaignRecord(m)
    BY <2>1, <2>2 DEF CampaignRecord
  <2>4. Memory(m)
    BY <2>2, <2>3 DEF Memory
  <2>5. run' = MadeRun("write", run.caught, m, run.i, run.events, <<>>, run.candidate, run.goal)
    BY <1>3, <1>4, <1>9, <2>1 DEF PersistSummary, At, MadeRun, RunRecord
  <2>6. run'.memory = m /\ run' # Idle
    BY <2>5 DEF MadeRun, Idle
  <2>7. IterationInv'
    BY <1>1, <1>6, <2>3, <2>6 DEF IterationInv
  <2>8. PreviewInv'
    BY <1>a, <1>6, <2>3, <2>6 DEF PreviewInv
  <2>9. m.state # "running" /\ m.iteration >= run.memory.iteration
    <3>1. run.memory.iteration \in 0..MaxIterations + trouble.fault
      BY <2>2 DEF Memory
    <3>. QED
      BY <2>2, <2>3, <3>1
  <2>10. UNCHANGED <<campaign, calls, trouble>> /\ (bundle' # NoFile => bundle'.candidate \in Found \ Seen(campaign))
    BY <1>6, <1>a DEF calls, GateInv
  <2>. QED
    BY <1>3, <1>4, <1>7, <2>3, <2>4, <2>5, <2>7, <2>8, <2>9, <2>10, EndStep
<1>. QED
  BY <1>2, <1>8, <1>9

LEMMA InstallBundleKeeps == ASSUME LoopInv, InstallBundle, run # Idle PROVE LoopInv'
<1>1. FilesTyped /\ RunTyped /\ InFlight /\ CourseInv
  BY DEF LoopInv
<1>2. run.pc = "bundle" /\ run.pc \in Going /\ run.pc \in Previewing
  BY DEF InstallBundle, At, Going, Previewing
<1>3. RunRecord(run) /\ run.i \in Nat \ {0} /\ IsLog(run.events) /\ run.goal \in Clean \cup {"failed"}
  BY RunIs
<1>4. run.call = <<>>
  BY <1>1, <1>2 DEF InFlight, Working
<1>5. /\ run.goal = "promotion_previewed" /\ run.memory.iteration < MaxIterations
      /\ run.candidate \in Found \ Seen(campaign) /\ report # NoFile /\ summary # NoFile
      /\ campaign.state \in {"running", "failed"} /\ campaign.iteration = run.memory.iteration
      /\ run.candidate \in Candidates
  BY <1>1, <1>2 DEF LoopInv, GateInv, Finding, CourseInv, FiledInv, Found
<1>6. UNCHANGED <<campaign, cache, budget, checkpoint, report, differential, summary, trouble>>
  BY DEF InstallBundle, calls, analyses
<1>7. /\ bundle' = [candidate |-> run.candidate, report |-> report, summary |-> summary]
      /\ bundle'.candidate = run.candidate /\ bundle' # NoFile
  <2>1. bundle' = [candidate |-> run.candidate, report |-> report, summary |-> summary]
    BY DEF InstallBundle
  <2>2. PICK S \in SUBSET Ids : report \in Reports(S)
    BY <1>1, <1>5 DEF FilesTyped, IsReport
  <2>3. PICK F \in SUBSET Findings : summary \in Summaries(F)
    BY <1>1, <1>5 DEF FilesTyped, IsSummary
  <2>4. bundle' \in Bundles(S, F)
    BY <1>5, <2>1, <2>2, <2>3 DEF Bundles
  <2>5. \A T \in SUBSET Ids, G \in SUBSET Findings : NoFile \notin Bundles(T, G)
    BY LoopAssumption, Zenon
  <2>6. bundle' # NoFile
    BY <2>4, <2>5
  <2>. QED
    BY <2>1, <2>6
<1>8. FilesTyped'
  <2>1. /\ (checkpoint = NoFile \/ IsLog(checkpoint))' /\ (report = NoFile \/ IsReport(report))'
        /\ (summary = NoFile \/ IsSummary(summary))'
    BY <1>1, <1>6 DEF FilesTyped, IsLog, IsReport, IsSummary
  <2>2. (campaign = Absent \/ Memory(campaign))'
    BY <1>1, <1>6 DEF FilesTyped, Memory, CampaignRecord
  <2>. QED
    BY <1>1, <1>5, <1>6, <1>7, <2>1, <2>2 DEF FilesTyped
<1>9. PICK m : m = [Ended(run.memory) EXCEPT !.iteration = @ + 1, !.candidate = run.candidate]
  OBVIOUS
<1>10. Memory(run.memory) /\ CampaignRecord(run.memory)
  BY <1>1 DEF RunTyped, Memory
<1>11. /\ m.state = "promotion_previewed" /\ m.iteration = run.memory.iteration + 1
       /\ m.rejected = run.memory.rejected /\ m.candidate = run.candidate /\ CampaignRecord(m)
  BY <1>5, <1>9, <1>10 DEF Ended, CampaignRecord
<1>12. trouble.fault \in Nat /\ run.memory.iteration \in Nat
  <2>1. trouble.fault \in Nat
    BY <1>1, Bounds DEF FilesTyped
  <2>. QED
    BY <1>10, <2>1, Bounds DEF Memory
<1>13. Memory(m)
  <2>1. m.iteration \in 0..MaxIterations + trouble.fault
    BY <1>5, <1>11, <1>12, Bounds
  <2>. QED
    BY <1>5, <1>10, <1>11, <2>1 DEF Memory, Clean
<1>14. run' = MadeRun("summary", run.caught, m, run.i, run.events, <<>>, run.candidate, run.goal)
  <2>1. run' = [run EXCEPT !.pc = "summary", !.memory = m]
    BY <1>9 DEF InstallBundle
  <2>. QED
    BY <1>3, <1>4, <2>1 DEF MadeRun, RunRecord
<1>15. run'.memory = m /\ run' # Idle
  BY <1>14 DEF MadeRun, Idle
<1>16. IterationInv'
  <2>1. campaign.iteration < MaxIterations + trouble.fault
    BY <1>5, <1>12, Bounds
  <2>. QED
    BY <1>6, <1>7, <1>11, <1>15, <2>1 DEF IterationInv
<1>17. PreviewInv'
  BY <1>5, <1>6, <1>7, <1>11, <1>15 DEF PreviewInv
<1>18. /\ m.state # "running" /\ m.iteration >= run.memory.iteration
       /\ bundle'.candidate \in Found \ Seen(campaign) /\ UNCHANGED <<campaign, calls, trouble>>
  BY <1>5, <1>6, <1>7, <1>11, <1>12 DEF calls
<1>. QED
  BY <1>3, <1>4, <1>8, <1>11, <1>13, <1>14, <1>16, <1>17, <1>18, EndStep

LEMMA WriteKeeps == ASSUME LoopInv, Write, run # Idle PROVE LoopInv'
<1>1. FilesTyped /\ RunTyped /\ CacheTyped /\ CallsAccounted
  BY DEF LoopInv
<1>2. InFlight /\ CourseInv /\ IterationInv /\ GateInv /\ PreviewInv
  BY DEF LoopInv
<1>3. run.pc = "write" /\ run.call = <<>> /\ run.memory.state # "running"
  BY <1>2 DEF Write, At, InFlight, Working, CourseInv
<1>4. PICK m : m = run.memory
  OBVIOUS
<1>5. /\ Memory(m) /\ CampaignRecord(m) /\ m.rejected = campaign.rejected /\ Seen(m) = Seen(campaign)
      /\ Len(m.rejected) <= m.iteration /\ campaign # Absent /\ m # Absent
  <2>1. Memory(m) /\ m.rejected = campaign.rejected /\ Len(m.rejected) <= m.iteration /\ campaign # Absent
    BY <1>1, <1>2, <1>4 DEF RunTyped, CourseInv
  <2>2. m # Absent
    BY <2>1 DEF Memory, Absent, Clean
  <2>3. Seen(m) = Seen(campaign) /\ CampaignRecord(m)
    BY <2>1 DEF Seen, Memory
  <2>. QED
    BY <2>1, <2>2, <2>3
<1>6. /\ UNCHANGED <<cache, budget, checkpoint, report, differential, summary, bundle, trouble>>
      /\ campaign' = m
  BY <1>4 DEF Write, World, calls, agreement, analyses
<1>7. run' = Idle \/ (/\ run' = [run EXCEPT !.pc = "cleanup"]
                      /\ run'.pc = "cleanup" /\ run'.memory = m /\ run'.call = <<>> /\ run'.i = run.i
                      /\ run'.events = run.events /\ run'.goal = run.goal)
  BY <1>1, <1>3, <1>4 DEF Write, RunTyped, RunRecord
<1>8. Memory(m)'
  BY <1>5, <1>6 DEF Memory
<1>9. FilesTyped'
  <2>1. /\ (checkpoint = NoFile \/ IsLog(checkpoint))' /\ (report = NoFile \/ IsReport(report))'
        /\ (summary = NoFile \/ IsSummary(summary))'
    BY <1>1, <1>6 DEF FilesTyped, IsLog, IsReport, IsSummary
  <2>2. Memory(campaign)'
    BY <1>6, <1>8 DEF Memory, CampaignRecord
  <2>. QED
    BY <1>1, <1>6, <2>1, <2>2 DEF FilesTyped
<1>10. RunTyped'
  <2>1. CASE run' = Idle
    BY <2>1 DEF RunTyped
  <2>2. CASE run' # Idle
    <3>1. RunRecord(run)'
      BY <1>1, <1>7, <2>2 DEF RunTyped, RunRecord
    <3>2. Memory(run.memory)'
      BY <1>7, <1>8, <2>2 DEF Memory, CampaignRecord
    <3>3. IsLog(run.events)' /\ run'.i \in Nat \ {0} /\ run'.goal \in Clean \cup {"failed"}
      BY <1>1, <1>7, <2>2 DEF RunTyped, IsLog
    <3>. QED
      BY <1>7, <2>2, <3>1, <3>2, <3>3 DEF RunTyped, Tried
  <2>. QED
    BY <2>1, <2>2
<1>11. CacheTyped' /\ CallsAccounted'
  BY <1>1, <1>2, <1>3, <1>6, <1>7, AccountsStay DEF Lost
<1>12. InFlight'
  BY <1>7 DEF InFlight, Working
<1>13. CourseInv'
  BY <1>5, <1>6, <1>7 DEF CourseInv, Going, Previewing, Working
<1>14. IterationInv'
  BY <1>2, <1>4, <1>6, <1>7 DEF IterationInv
<1>15. GateInv'
  <2>1. Refuted' = Refuted /\ Found' = Found
    BY <1>6, SameJudgement
  <2>2. ~Finding' /\ (run' # Idle => run'.pc # "score")
    BY <1>7 DEF Finding, Previewing
  <2>3. Seen(campaign)' = Seen(campaign)
    BY <1>5, <1>6
  <2>. QED
    BY <1>2, <1>5, <1>6, <2>1, <2>2, <2>3 DEF GateInv
<1>16. PreviewInv' /\ FiledInv'
  BY <1>2, <1>4, <1>6, <1>7 DEF PreviewInv, FiledInv, Previewing
<1>. QED
  BY <1>9, <1>10, <1>11, <1>12, <1>13, <1>14, <1>15, <1>16 DEF LoopInv

-----------------------------------------------------------------------------
LEMMA InitLoopInv == ASSUME Init PROVE LoopInv
<1>1. campaign.state = "absent" /\ campaign = Absent /\ run = Idle
  BY DEF Init, Absent
<1>2. FilesTyped
  <2>1. trouble.fault = 0 /\ trouble.kill = 0 /\ trouble.lost = 0
    BY DEF Init
  <2>2. DOMAIN differential = {}
    BY DEF Init, Nothing
  <2>3. 0 \in 0..MaxFaults /\ 0 \in 0..MaxKills
    BY Bounds
  <2>4. IsFiniteSet(DOMAIN differential)
    BY <2>2, FS_EmptySet
  <2>. QED
    BY <2>1, <2>2, <2>3, <2>4 DEF Init, FilesTyped
<1>3. CacheTyped
  <2>1. DOMAIN cache = {} /\ budget = NoFile /\ trouble.lost = 0
    BY DEF Init, Nothing
  <2>. QED
    BY <2>1, FS_EmptySet DEF CacheTyped
<1>4. CallsAccounted
  BY DEF Init, CallsAccounted
<1>5. RunTyped /\ InFlight /\ FiledInv
  BY <1>1 DEF RunTyped, InFlight, FiledInv
<1>6. CourseInv /\ IterationInv
  BY <1>1 DEF Init, CourseInv, IterationInv
<1>7. GateInv /\ PreviewInv
  BY <1>1 DEF Init, GateInv, PreviewInv, Finding
<1>. QED
  BY <1>2, <1>3, <1>4, <1>5, <1>6, <1>7 DEF LoopInv

LEMMA ProcessAt == ASSUME NEW w, w # "idle", At(w) PROVE run # Idle
BY DEF At, Idle

LEMMA LoopStep == ASSUME LoopInv, [Next]_vars PROVE LoopInv'
<1>1. CASE Start
  BY <1>1, StartKeeps
<1>2. CASE Resume
  BY <1>2, ResumeKeeps
<1>3. CASE ResumePreview
  BY <1>3, ResumePreviewKeeps
<1>4. CASE Answer
  BY <1>4, AnswerKeeps
<1>5. CASE Audit
  <2>1. run # Idle
    BY <1>5, ProcessAt DEF Audit
  <2>. QED
    BY <1>5, <2>1, AuditKeeps
<1>6. CASE Open
  <2>1. run # Idle
    BY <1>6, ProcessAt DEF Open
  <2>. QED
    BY <1>6, <2>1, OpenKeeps
<1>7. CASE Iterate
  <2>1. run # Idle
    BY <1>7, ProcessAt DEF Iterate
  <2>. QED
    BY <1>7, <2>1, IterateKeeps
<1>8. CASE Diagnose
  <2>1. run # Idle
    BY <1>8, ProcessAt DEF Diagnose
  <2>. QED
    BY <1>8, <2>1, DiagnoseKeeps
<1>9. CASE PersistReport
  <2>1. run # Idle
    BY <1>9, ProcessAt DEF PersistReport
  <2>. QED
    BY <1>9, <2>1, PersistReportKeeps
<1>10. CASE PersistSummary
  <2>1. run # Idle
    BY <1>10, ProcessAt DEF PersistSummary
  <2>. QED
    BY <1>10, <2>1, PersistSummaryKeeps
<1>11. CASE InstallBundle
  <2>1. run # Idle
    BY <1>11, ProcessAt DEF InstallBundle
  <2>. QED
    BY <1>11, <2>1, InstallBundleKeeps
<1>12. CASE Write
  <2>1. run # Idle
    BY <1>12, ProcessAt DEF Write
  <2>. QED
    BY <1>12, <2>1, WriteKeeps
<1>13. CASE Cleanup
  <2>1. run # Idle
    BY <1>13, ProcessAt DEF Cleanup
  <2>. QED
    BY <1>13, <2>1, CleanupKeeps
<1>14. CASE Count
  BY <1>14, CountKeeps
<1>15. CASE EvaluateTrain
  <2>1. run # Idle
    BY <1>15, ProcessAt DEF EvaluateTrain
  <2>. QED
    BY <1>15, <2>1, EvaluateTrainKeeps
<1>16. CASE Score
  <2>1. run # Idle
    BY <1>16, ProcessAt DEF Score
  <2>. QED
    BY <1>16, <2>1, ScoreKeeps
<1>17. CASE Analyse
  <2>1. run # Idle
    BY <1>17, ProcessAt DEF Analyse
  <2>. QED
    BY <1>17, <2>1, AnalyseKeeps
<1>18. CASE Propose
  <2>1. run # Idle
    BY <1>18, ProcessAt DEF Propose
  <2>. QED
    BY <1>18, <2>1, ProposeKeeps
<1>19. CASE Pass
  <2>1. run # Idle
    BY <1>19, ProcessAt DEF Pass
  <2>. QED
    BY <1>19, <2>1, PassKeeps
<1>20. CASE Reject
  <2>1. run # Idle
    BY <1>20, ProcessAt DEF Reject
  <2>. QED
    BY <1>20, <2>1, RejectKeeps
<1>21. CASE CallFails
  <2>1. run # Idle
    BY <1>21, ProcessAt DEF CallFails
  <2>. QED
    BY <1>21, <2>1, CallFailsKeeps
<1>22. CASE DraftRefused
  <2>1. run # Idle
    BY <1>22, ProcessAt DEF DraftRefused
  <2>. QED
    BY <1>22, <2>1, DraftRefusedKeeps
<1>23. CASE Exhaust
  <2>1. run # Idle
    BY <1>23 DEF Exhaust, Due
  <2>. QED
    BY <1>23, <2>1, ExhaustKeeps
<1>24. CASE AuditFails
  <2>1. run # Idle
    BY <1>24, ProcessAt DEF AuditFails
  <2>. QED
    BY <1>24, <2>1, AuditFailsKeeps
<1>25. CASE OpenFails
  <2>1. run # Idle
    BY <1>25, ProcessAt DEF OpenFails
  <2>. QED
    BY <1>25, <2>1, OpenFailsKeeps
<1>26. CASE Fault
  BY <1>26, FaultKeeps
<1>27. CASE Kill
  BY <1>27, KillKeeps
<1>28. CASE UNCHANGED vars
  <2>1. UNCHANGED <<campaign, cache, budget, checkpoint, report, differential, summary, bundle, run, trouble>>
    BY <1>28 DEF vars, calls, agreement, analyses
  <2>2. FilesTyped' /\ RunTyped' /\ CacheTyped' /\ CallsAccounted'
    BY <2>1 DEF LoopInv, FilesTyped, RunTyped, CacheTyped, CallsAccounted, Memory, CampaignRecord, IsLog,
                IsReport, IsSummary, RunRecord, Answers
  <2>3. InFlight'
    <3>1. Calls' = Calls
      <4>1. Analysed' = Analysed /\ Chosen' = Chosen
        BY <2>1 DEF Analysed, Chosen, PatchableTrain, Evaluation, Done, Uncached, Failed, Answered
      <4>2. ScoredCase' = ScoredCase /\ ScoredPolicy' = ScoredPolicy
        BY <2>1 DEF ScoredCase, ScoredPolicy
      <4>. QED
        BY <2>1, <4>1, <4>2 DEF Calls, At
    <3>. QED
      BY <2>1, <3>1 DEF LoopInv, InFlight
  <2>4. CourseInv' /\ IterationInv' /\ PreviewInv' /\ FiledInv'
    BY <2>1 DEF LoopInv, CourseInv, IterationInv, PreviewInv, FiledInv
  <2>5. GateInv'
    <3>1. Found' = Found /\ Refuted' = Refuted
      BY <2>1, SameJudgement
    <3>. QED
      BY <2>1, <3>1 DEF LoopInv, GateInv, Finding, Covered, HasScores
  <2>. QED
    BY <2>2, <2>3, <2>4, <2>5 DEF LoopInv
<1>29. Next => \/ Start \/ Resume \/ ResumePreview \/ Answer \/ Audit \/ Open \/ Iterate \/ Diagnose
               \/ PersistReport \/ PersistSummary \/ InstallBundle \/ Write \/ Cleanup
               \/ Count \/ EvaluateTrain \/ Score \/ Analyse \/ Propose \/ Pass \/ Reject
               \/ CallFails \/ DraftRefused \/ Exhaust \/ AuditFails \/ OpenFails \/ Fault \/ Kill
  BY DEF Next, Command, Step, Trouble
<1>. QED
  BY <1>1, <1>2, <1>3, <1>4, <1>5, <1>6, <1>7, <1>8, <1>9, <1>10, <1>11, <1>12, <1>13, <1>14,
     <1>15, <1>16, <1>17, <1>18, <1>19, <1>20, <1>21, <1>22, <1>23, <1>24, <1>25, <1>26, <1>27,
     <1>28, <1>29

LEMMA LoopAlways == Spec => []LoopInv
<1>1. Init => LoopInv
  BY InitLoopInv
<1>2. LoopInv /\ [Next]_vars => LoopInv'
  BY LoopStep
<1>. QED
  BY <1>1, <1>2, PTL DEF Spec

(* The types of campaign.json, of the cache, of the budget within max_calls    *)
(* and of the analyses; a resumed last write may take the iteration past the  *)
(* limit only once for each fault (kpo.campaign).                             *)
THEOREM LoopTyped == Spec => []TypeOK
<1>1. LoopInv => TypeOK
  <2> SUFFICES ASSUME LoopInv PROVE TypeOK
    OBVIOUS
  <2>1. FilesTyped /\ RunTyped /\ CacheTyped
    BY DEF LoopInv
  <2>2. campaign = Absent \/ /\ campaign.state \in {"running", "failed"} \cup Clean
                             /\ campaign.iteration \in 0..MaxIterations + MaxFaults
                             /\ Len(campaign.rejected) <= MaxIterations
                             /\ campaign.candidate \in Candidates \cup {NoFile}
    <3>1. CASE campaign # Absent
      <4>1. Memory(campaign) /\ trouble.fault \in 0..MaxFaults
        BY <2>1, <3>1 DEF FilesTyped
      <4>2. campaign.iteration \in 0..MaxIterations + MaxFaults
        BY <4>1, Bounds DEF Memory
      <4>. QED
        BY <4>1, <4>2, Bounds DEF Memory
    <3>. QED
      BY <3>1
  <2>3. report = NoFile \/ report.collection \in {"complete", "budget_exhausted"}
    BY <2>1 DEF FilesTyped, IsReport, Reports
  <2>4. run = Idle \/ run.pc \in {"audit", "open"} \cup Tried
    BY <2>1 DEF RunTyped
  <2>. QED
    BY <2>1, <2>2, <2>3, <2>4 DEF TypeOK, FilesTyped, CacheTyped
<1>. QED
  BY <1>1, LoopAlways, PTL

(* The budget counts every call once, whatever fails or dies, so a command    *)
(* makes no call again that the cache answers (kpo.campaign_cache).           *)
THEOREM LoopCallsAccounted == Spec => []CallsAccounted
<1>1. LoopInv => CallsAccounted
  BY DEF LoopInv
<1>. QED
  BY <1>1, LoopAlways, PTL

(* A candidate is previewed only if its cached scores reach every gate and no *)
(* iteration rejected it, and one is rejected only if they do not, and once,  *)
(* across failures, deaths and resumption (kpo.campaign).                     *)
THEOREM LoopPreviewJustified == Spec => []PreviewJustified
<1>1. LoopInv => PreviewJustified
  <2> SUFFICES ASSUME LoopInv PROVE PreviewJustified
    OBVIOUS
  <2>1. GateInv /\ PreviewInv
    BY DEF LoopInv
  <2>2. bundle # NoFile => ReachesAll(bundle.candidate) /\ bundle.candidate \notin Seen(campaign)
    <3>1. ASSUME bundle # NoFile PROVE ReachesAll(bundle.candidate)
      <4>1. PICK c \in Found : c = bundle.candidate
        BY <2>1, <3>1 DEF GateInv
      <4>. QED
        BY <4>1 DEF Found
    <3>. QED
      BY <2>1, <3>1 DEF GateInv
  <2>3. campaign # Absent => \A c \in Seen(campaign) : ~ReachesAll(c)
    BY <2>1 DEF GateInv, Refuted
  <2>. QED
    BY <2>1, <2>2, <2>3 DEF PreviewJustified, GateInv, PreviewInv
<1>. QED
  BY <1>1, LoopAlways, PTL

-----------------------------------------------------------------------------
(* The evidence.  What the order of an iteration rests on is in the cache.    *)
LEMMA SameAnswers ==
  ASSUME cache' = cache
  PROVE  /\ \A call : Answered(call)' = Answered(call)
         /\ \A C : Done(C)' = Done(C) /\ Failed(C)' = Failed(C)
         /\ PatchableTrain' = PatchableTrain /\ Chosen' = Chosen /\ Analysed' = Analysed
         /\ \A i : TrainedUpTo(i)' = TrainedUpTo(i)
         /\ \A i, c : ScoredUpTo(i, c)' = ScoredUpTo(i, c)
         /\ Diagnosed' = Diagnosed /\ Settled' = Settled /\ Evaluated' = Evaluated
         /\ \A case, policy, o : Slot(case, policy, o)' = Slot(case, policy, o)
         /\ \A case, policy : HasScores(case, policy)' = HasScores(case, policy)
<1>1. \A call : Answered(call)' = Answered(call)
  BY DEF Answered
<1>2. \A C : Done(C)' = Done(C) /\ Failed(C)' = Failed(C)
  BY DEF Done, Uncached, Failed, Answered
<1>3. PatchableTrain' = PatchableTrain
  BY DEF PatchableTrain, Evaluation
<1>4. Chosen' = Chosen
  BY <1>3 DEF Chosen
<1>5. Analysed' = Analysed
  BY <1>4 DEF Analysed, Done, Uncached, Failed, Answered
<1>6. \A i : TrainedUpTo(i)' = TrainedUpTo(i)
  BY <1>2 DEF TrainedUpTo
<1>7. \A i, c : ScoredUpTo(i, c)' = ScoredUpTo(i, c)
  BY <1>2 DEF ScoredUpTo
<1>8. Diagnosed' = Diagnosed
  BY <1>2, <1>3 DEF Diagnosed
<1>9. Settled' = Settled
  BY <1>4, <1>5, <1>8 DEF Settled, Failed, Answered
<1>10. Evaluated' = Evaluated
  BY DEF Evaluated
<1>11. \A case, policy, o : Slot(case, policy, o)' = Slot(case, policy, o)
  BY DEF Slot
<1>12. \A case, policy : HasScores(case, policy)' = HasScores(case, policy)
  BY DEF HasScores
<1>. QED
  BY <1>1, <1>2, <1>3, <1>4, <1>5, <1>6, <1>7, <1>8, <1>9, <1>10, <1>11, <1>12

SamePath ==
  /\ \A c : Proposes(c)' = Proposes(c)
  /\ \A id, i : InTrain(id, i)' = InTrain(id, i) /\ InScore(id, i)' = InScore(id, i)
SameOrder == Unlogged' = Unlogged /\ SamePath

LEMMA PathSame ==
  ASSUME cache' = cache, campaign'.rejected = campaign.rejected
  PROVE  SamePath
<1>1. \A c : Proposes(c)' = Proposes(c)
  <2>1. Proposal' = Proposal
    BY SameAnswers DEF Proposal
  <2>2. Answered(Proposal)' = Answered(Proposal)
    BY <2>1 DEF Answered
  <2>3. Settled' = Settled
    BY SameAnswers
  <2>. QED
    BY <2>1, <2>2, <2>3 DEF Proposes
<1>2. \A i : TrainedUpTo(i)' = TrainedUpTo(i)
  BY SameAnswers
<1>3. \A i, c : ScoredUpTo(i, c)' = ScoredUpTo(i, c)
  BY SameAnswers
<1>4. \A id, i : InTrain(id, i)' = InTrain(id, i)
  BY <1>2 DEF InTrain
<1>5. Seen(campaign)' = Seen(campaign)
  BY DEF Seen
<1>6. \A id, i : InScore(id, i)' = InScore(id, i)
  BY <1>1, <1>3, <1>5 DEF InScore
<1>. QED
  BY <1>1, <1>4, <1>6 DEF SamePath

LEMMA OrderSame ==
  ASSUME cache' = cache, checkpoint' = checkpoint, campaign'.rejected = campaign.rejected
  PROVE  SameOrder
<1>1. Unlogged' = Unlogged
  BY SameAnswers DEF Unlogged
<1>. QED
  BY <1>1, PathSame DEF SameOrder

(* What the order rests on but campaign.json.                                 *)
LEMMA CacheSame ==
  ASSUME EvidenceInv, cache' = cache
  PROVE  OrderInv' /\ (checkpoint' = checkpoint => LogInv')
<1>1. Evaluated' = Evaluated
  BY SameAnswers
<1>2. \A id : HasScores(id[1], id[2])' = HasScores(id[1], id[2])
  BY SameAnswers
<1>3. \A call : Answered(call)' = Answered(call)
  BY SameAnswers
<1>4. \A id, o : Slot(id[1], id[2], o)' = Slot(id[1], id[2], o)
  BY SameAnswers
<1>5. OrderInv'
  BY <1>1, <1>2, <1>3 DEF EvidenceInv, OrderInv
<1>6. ASSUME checkpoint' = checkpoint, checkpoint # NoFile
      PROVE  /\ DOMAIN checkpoint' \subseteq Evaluated'
             /\ \A id \in DOMAIN checkpoint', o \in Observers :
                  Answered(ObserverCall(id, o))' /\ checkpoint'[id].observers[o] = Slot(id[1], id[2], o)'
  <2>1. DOMAIN checkpoint \subseteq Evaluated
    BY <1>6 DEF EvidenceInv, LogInv
  <2>2. \A id \in DOMAIN checkpoint, o \in Observers :
          Answered(ObserverCall(id, o)) /\ checkpoint[id].observers[o] = Slot(id[1], id[2], o)
    BY <1>6 DEF EvidenceInv, LogInv
  <2>3. \A id, o : Answered(ObserverCall(id, o))' = Answered(ObserverCall(id, o))
    BY DEF Answered, ObserverCall
  <2>4. ASSUME NEW id \in DOMAIN checkpoint, NEW o \in Observers
        PROVE  Answered(ObserverCall(id, o))' /\ checkpoint'[id].observers[o] = Slot(id[1], id[2], o)'
    <3>1. checkpoint'[id].observers[o] = Slot(id[1], id[2], o)
      BY <1>6, <2>2
    <3>2. Slot(id[1], id[2], o)' = Slot(id[1], id[2], o)
      BY <1>4, Zenon
    <3>3. Answered(ObserverCall(id, o))'
      BY <2>2, <2>3, Zenon
    <3>. QED
      BY <3>1, <3>2, <3>3, Zenon
  <2>5. DOMAIN checkpoint' \subseteq Evaluated'
    BY <1>1, <1>6, <2>1
  <2>. QED
    BY <1>6, <2>4, <2>5, Zenon
<1>7. checkpoint' = checkpoint => LogInv'
  BY <1>6 DEF LogInv
<1>. QED
  BY <1>5, <1>7

(* The order, the checkpoint and what is missing from it stay.                *)
LEMMA OrderStays ==
  ASSUME EvidenceInv, cache' = cache, checkpoint' = checkpoint, campaign'.rejected = campaign.rejected,
         bundle' # NoFile \/ (bundle' = bundle /\ campaign'.iteration = campaign.iteration)
  PROVE  PendingInv' /\ OrderInv' /\ LogInv'
<1>1. SameOrder
  BY OrderSame
<1>2. PendingInv'
  BY <1>1 DEF EvidenceInv, PendingInv, Pending, SameOrder, SamePath
<1>3. OrderInv' /\ LogInv'
  BY CacheSame
<1>. QED
  BY <1>2, <1>3

LEMMA TruthStays ==
  ASSUME cache' = cache
  PROVE  /\ \A events : LogComplete(events)' = LogComplete(events)
         /\ \A r, goal : Truthful(r, goal)' = Truthful(r, goal)
         /\ AllAnswered' = AllAnswered
<1>1. Evaluated' = Evaluated
  BY SameAnswers
<1>2. \A call : Answered(call)' = Answered(call)
  BY SameAnswers
<1>3. AllAnswered' = AllAnswered
  BY <1>1, <1>2 DEF AllAnswered
<1>4. \A id, o : SlotFound(id, o)' = SlotFound(id, o)
  <2>1. \A id, o : Slot(id[1], id[2], o)' = Slot(id[1], id[2], o)
    BY SameAnswers
  <2>. QED
    BY <1>2, <2>1 DEF SlotFound
<1>5. \A events : LogComplete(events)' = LogComplete(events)
  BY <1>1, <1>4 DEF LogComplete
<1>6. \A r, goal : Truthful(r, goal)' = Truthful(r, goal)
  BY <1>3, <1>5 DEF Truthful
<1>. QED
  BY <1>3, <1>5, <1>6

(* The files a clean campaign refers to stay.                                 *)
LEMMA RecordStays ==
  ASSUME EvidenceInv, cache' = cache, UNCHANGED <<campaign, report, analyses, bundle>>
  PROVE  /\ RecordInv' /\ Analyses' = Analyses
         /\ \A m : Filed(m)' = Filed(m) /\ Summed(m)' = Summed(m)
<1>1. \A r, goal : Truthful(r, goal)' = Truthful(r, goal)
  BY TruthStays
<1>2. Analyses' = Analyses
  BY DEF Analyses, analyses
<1>3. \A m : Filed(m)' = Filed(m)
  BY <1>1 DEF Filed
<1>4. \A m : Summed(m)' = Summed(m)
  BY <1>2 DEF Summed, analyses
<1>5. RecordInv'
  BY <1>1, <1>2, <1>3, <1>4 DEF EvidenceInv, RecordInv
<1>. QED
  BY <1>2, <1>3, <1>4, <1>5

(* A step of the process alone.                                               *)
LEMMA ProcessStep ==
  ASSUME EvidenceInv, cache' = cache, checkpoint' = checkpoint,
         UNCHANGED <<campaign, report, analyses, bundle>>, CallInv', PlaceInv', EndInv'
  PROVE  EvidenceInv'
<1>1. PendingInv' /\ OrderInv' /\ LogInv'
  BY OrderStays
<1>2. RecordInv'
  BY RecordStays
<1>. QED
  BY <1>1, <1>2 DEF EvidenceInv

-----------------------------------------------------------------------------
(* An answer only adds to what the order rests on.                            *)
LEMMA DoneGrows ==
  ASSUME Grown
  PROVE  /\ \A call : Answered(call) => Answered(call)' /\ cache'[call] = cache[call]
         /\ \A C : Done(C) => Done(C)'
         /\ \A C : Failed(C) \subseteq Failed(C)'
<1>1. \A call : Answered(call) => Answered(call)' /\ cache'[call] = cache[call]
  BY DEF Grown, Answered
<1>2. ASSUME NEW C, Done(C) PROVE Done(C)'
  <2>1. \A n \in DOMAIN C : Answered(C[n]) /\ ~(~cache[C[n]].ok /\ C[n][1] # "observer")
    BY <1>2 DEF Done, Uncached, Failed
  <2>2. \A n \in DOMAIN C : Answered(C[n])' /\ cache'[C[n]] = cache[C[n]]
    BY <1>1, <2>1
  <2>3. Uncached(C)' = {}
    BY <2>2 DEF Uncached
  <2>4. Failed(C)' = {}
    BY <2>1, <2>2 DEF Failed
  <2>. QED
    BY <2>3, <2>4 DEF Done
<1>3. \A C : Failed(C) \subseteq Failed(C)'
  BY <1>1 DEF Failed
<1>. QED
  BY <1>1, <1>2, <1>3

LEMMA DiagnosisStays ==
  ASSUME Grown, Diagnosed
  PROVE  Diagnosed' /\ PatchableTrain' = PatchableTrain /\ Chosen' = Chosen
<1>1. ASSUME NEW j \in DOMAIN Train
      PROVE  /\ Done(Evaluates(TrainItem(j)))'
             /\ Evaluation(Train[j], Parent)' = Evaluation(Train[j], Parent)
  <2>1. Done(Evaluates(TrainItem(j)))
    BY DEF Diagnosed
  <2>2. PICK C : C = Evaluates(TrainItem(j)) /\ C = EvaluationCalls(Train[j], Parent)
    BY DEF Evaluates, TrainItem
  <2>3. 2 \in DOMAIN C /\ C[2] = <<"evaluator", Train[j], Parent>>
    BY <2>2, EvaluationCallsAre
  <2>4. Answered(C[2])
    BY <2>1, <2>2, <2>3 DEF Done, Uncached
  <2>5. cache'[C[2]] = cache[C[2]]
    BY <2>4, DoneGrows
  <2>6. Done(Evaluates(TrainItem(j)))'
    BY <2>1, DoneGrows
  <2>. QED
    BY <2>3, <2>5, <2>6 DEF Evaluation
<1>2. PatchableTrain' = PatchableTrain
  BY <1>1 DEF PatchableTrain
<1>3. Chosen' = Chosen
  BY <1>2 DEF Chosen
<1>4. Diagnosed'
  BY <1>1, <1>2 DEF Diagnosed
<1>. QED
  BY <1>2, <1>3, <1>4

LEMMA OrderGrows ==
  ASSUME Grown, campaign' = campaign
  PROVE  /\ \A i : TrainedUpTo(i) => TrainedUpTo(i)'
         /\ \A i, c : ScoredUpTo(i, c) => ScoredUpTo(i, c)'
         /\ Settled => Settled'
         /\ \A c : Proposes(c) => Proposes(c)'
         /\ \A id, i : (InTrain(id, i) => InTrain(id, i)') /\ (InScore(id, i) => InScore(id, i)')
<1>1. \A i : TrainedUpTo(i) => TrainedUpTo(i)'
  BY DoneGrows DEF TrainedUpTo
<1>2. \A i, c : ScoredUpTo(i, c) => ScoredUpTo(i, c)'
  BY DoneGrows DEF ScoredUpTo
<1>3. ASSUME Settled PROVE Settled' /\ Analysed' = Analysed /\ Chosen' = Chosen
  <2>1. Diagnosed' /\ Chosen' = Chosen
    BY <1>3, DiagnosisStays DEF Settled
  <2>2. PICK C : C = AnalysisCalls(Chosen)
    OBVIOUS
  <2>3. Analysed = Done(C) /\ Analysed' = Done(C)'
    BY <2>1, <2>2 DEF Analysed
  <2>4. Done(C) \/ Failed(C) # {}
    BY <1>3, <2>2, <2>3 DEF Settled
  <2>5. Done(C) => Done(C)'
    BY DoneGrows
  <2>6. Failed(C) # {} => Failed(C)' # {}
    BY DoneGrows
  <2>7. Failed(C) # {} => ~Done(C)
    BY DEF Done
  <2>8. Failed(C)' # {} => ~Done(C)'
    BY DEF Done
  <2>9. Failed(AnalysisCalls(Chosen))' = Failed(C)'
    BY <2>1, <2>2
  <2>10. Analysed' = Analysed
    BY <2>3, <2>4, <2>5, <2>6, <2>7, <2>8 DEF Done
  <2>11. Settled'
    BY <2>1, <2>3, <2>4, <2>5, <2>6, <2>9 DEF Settled
  <2>. QED
    BY <2>1, <2>10, <2>11
<1>4. ASSUME NEW c, Proposes(c) PROVE Proposes(c)'
  <2>1. Settled /\ Answered(Proposal) /\ cache[Proposal].ok /\ cache[Proposal].value = c
    BY <1>4 DEF Proposes
  <2>2. Proposal' = Proposal
    BY <1>3, <2>1 DEF Proposal
  <2>3. Answered(Proposal)' /\ cache'[Proposal'] = cache[Proposal]
    BY <2>1, <2>2 DEF Answered, Grown
  <2>. QED
    BY <1>3, <2>1, <2>3 DEF Proposes
<1>5. \A id, i : InTrain(id, i) => InTrain(id, i)'
  BY <1>1 DEF InTrain
<1>6. \A id, i : InScore(id, i) => InScore(id, i)'
  <2>1. Seen(campaign)' = Seen(campaign)
    BY DEF Seen
  <2>. QED
    BY <1>2, <1>4, <2>1 DEF InScore
<1>. QED
  BY <1>1, <1>2, <1>3, <1>4, <1>5, <1>6

(* The calls of an evaluation are of one case and policy, others are of none. *)
OfEvaluation(id, n) ==
  \/ n = 1 /\ Calls[n] = <<"actor", id[1], id[2]>>
  \/ n = 2 /\ Calls[n] = <<"evaluator", id[1], id[2]>>
  \/ n - 2 \in 1..Len(ObserverOrder) /\ Calls[n] = ObserverCall(id, ObserverOrder[n - 2])
Present(id) ==
  /\ run.pc = "train" => run.i \in DOMAIN Train /\ id = TrainItem(run.i)
  /\ run.pc = "score" => run.i \in 1..3 * Len(Rest) /\ id = ScoreItem(run.i, run.candidate)

LEMMA EvaluationAt ==
  ASSUME LoopInv, run # Idle, run.pc \in {"train", "score"}, DOMAIN Calls # {}
  PROVE  \E id \in Ids : /\ Calls = Evaluates(id) /\ Present(id)
                         /\ id = <<Calls[1][2], Calls[1][3]>>
                         /\ \A n \in DOMAIN Calls : OfEvaluation(id, n)
<1>1. PICK case \in AllCases, policy \in Policies :
        /\ Calls = EvaluationCalls(case, policy)
        /\ case = Calls[1][2] /\ policy = Calls[1][3]
        /\ run.pc = "train" => case = Train[run.i] /\ policy = Parent
        /\ run.pc = "score" => /\ run.i \in 1..3 * Len(Rest)
                               /\ case = ScoredCase /\ policy = ScoredPolicy
  BY EvaluationOf
<1>2. PICK id \in Ids : id = <<case, policy>>
  BY DEF Ids
<1>3. id[1] = case /\ id[2] = policy
  BY <1>2
<1>4. Present(id)
  <2>1. run.pc = "train" => run.i \in DOMAIN Train
    BY DEF Calls, At
  <2>2. run.pc = "score" => id = ScoreItem(run.i, run.candidate)
    BY <1>1, <1>2 DEF ScoreItem, ScoredCase, ScoredPolicy
  <2>. QED
    BY <1>1, <1>2, <2>1, <2>2 DEF Present, TrainItem
<1>5. ASSUME NEW n \in DOMAIN Calls PROVE OfEvaluation(id, n)
  <2>1. /\ n \in 1..2 + Len(ObserverOrder) /\ Len(ObserverOrder) \in Nat
        /\ Calls[1] = <<"actor", case, policy>> /\ Calls[2] = <<"evaluator", case, policy>>
        /\ \A i \in 1..Len(ObserverOrder) : Calls[i + 2] = <<"observer", case, policy, ObserverOrder[i]>>
    <3>1. PICK C : C = EvaluationCalls(case, policy) /\ C = Calls
      BY <1>1
    <3>2. /\ DOMAIN C = 1..2 + Len(ObserverOrder) /\ Len(ObserverOrder) \in Nat
          /\ C[1] = <<"actor", case, policy>> /\ C[2] = <<"evaluator", case, policy>>
          /\ \A i \in 1..Len(ObserverOrder) : C[i + 2] = <<"observer", case, policy, ObserverOrder[i]>>
      BY <3>1, EvaluationCallsAre
    <3>. QED
      BY <3>1, <3>2, Zenon
  <2>2. CASE n > 2
    <3>1. PICK i \in 1..Len(ObserverOrder) : i = n - 2 /\ i + 2 = n
      BY <2>1, <2>2
    <3>. QED
      BY <1>3, <2>1, <3>1 DEF OfEvaluation, ObserverCall
  <2>3. CASE n \in {1, 2}
    BY <1>3, <2>1, <2>3 DEF OfEvaluation
  <2>. QED
    BY <2>1, <2>2, <2>3
<1>. QED
  BY <1>1, <1>2, <1>3, <1>4, <1>5 DEF Evaluates

LEMMA OtherCalls ==
  ASSUME run.pc \in {"differential", "propose"}, NEW n \in DOMAIN Calls
  PROVE  Calls[n][1] \notin {"actor", "evaluator", "observer"}
<1>1. CASE run.pc = "differential"
  <2>1. Calls = AnalysisCalls(Chosen)
    BY <1>1 DEF Calls, At
  <2>2. PICK C : C = AnalysisCalls(Chosen)
    OBVIOUS
  <2>3. n \in 1..4 /\ /\ C[1][1] = "reasoning_extractor" /\ C[2][1] = "reasoning_extractor"
                      /\ C[3][1] = "claim_differ" /\ C[4][1] = "differential_diagnostician"
    BY <2>1, <2>2 DEF AnalysisCalls
  <2>. QED
    BY <2>1, <2>2, <2>3
<1>2. CASE run.pc = "propose"
  <2>1. Calls = ProposalCalls(Chosen, run.memory.rejected, Analysed)
    BY <1>2 DEF Calls, At
  <2>2. n = 1 /\ Calls[1][1] = "proposer"
    BY <2>1 DEF ProposalCalls
  <2>. QED
    BY <2>2
<1>. QED
  BY <1>1, <1>2

-----------------------------------------------------------------------------
(* The steps that fail the campaign, and the ones after which there is no     *)
(* process, leave the evidence.                                               *)
LEMMA FailEvidence ==
  ASSUME LoopInv, EvidenceInv, run # Idle, NEW p \in {"summary", "write"}, Fails(p),
         cache' = cache, checkpoint' = checkpoint, UNCHANGED <<campaign, report, analyses, bundle>>
  PROVE  EvidenceInv'
<1>1. /\ run'.pc = p /\ run'.call = <<>> /\ run'.memory.state = "failed"
      /\ run'.memory.iteration = run.memory.iteration
  <2>1. run' = MadeRun(p, TRUE, [run.memory EXCEPT !.state = "failed"], run.i, run.events, <<>>,
                       run.candidate, run.goal)
    BY FailsIs DEF LoopInv
  <2>2. CampaignRecord(run.memory)
    BY DEF LoopInv, RunTyped, Memory
  <2>3. [run.memory EXCEPT !.state = "failed"].state = "failed"
    BY <2>2 DEF CampaignRecord
  <2>4. [run.memory EXCEPT !.state = "failed"].iteration = run.memory.iteration
    BY <2>2 DEF CampaignRecord
  <2>. QED
    BY <2>1, <2>3, <2>4 DEF MadeRun
<1>2. CallInv'
  BY <1>1 DEF CallInv
<1>3. PlaceInv'
  BY <1>1 DEF EvidenceInv, PlaceInv, Working
<1>4. EndInv'
  BY <1>1 DEF EndInv, Previewing, Clean
<1>. QED
  BY <1>2, <1>3, <1>4, ProcessStep

LEMMA EndedEvidence ==
  ASSUME EvidenceInv, run' = Idle, cache' = cache, checkpoint' = checkpoint,
         UNCHANGED <<campaign, report, analyses, bundle>>
  PROVE  EvidenceInv'
<1>1. CallInv' /\ PlaceInv' /\ EndInv'
  BY DEF CallInv, PlaceInv, EndInv
<1>. QED
  BY <1>1, ProcessStep

LEMMA TroubleEvidence ==
  ASSUME LoopInv, EvidenceInv, run # Idle, Trouble \/ CallFails \/ DraftRefused
  PROVE  EvidenceInv'
<1>1. CASE Kill
  BY <1>1, EndedEvidence DEF Kill, calls, agreement
<1>2. CASE ~Kill
  <2>1. PICK p \in {"summary", "write"} : Fails(p)
    BY <1>2 DEF Trouble, AuditFails, OpenFails, Fault, CallFails, DraftRefused, Typed, Bare
  <2>2. /\ cache' = cache /\ checkpoint' = checkpoint
        /\ UNCHANGED <<campaign, report, analyses, bundle>>
    BY <1>2 DEF Trouble, AuditFails, OpenFails, Fault, CallFails, DraftRefused, World, calls, agreement
  <2>. QED
    BY <2>1, <2>2, FailEvidence
<1>. QED
  BY <1>1, <1>2

(* The steps of an iteration that ask nothing.                                *)
LEMMA CountEvidence == ASSUME LoopInv, EvidenceInv, Count PROVE EvidenceInv'
<1>1. Due /\ run # Idle /\ run.pc \in Working
  BY DEF Count, Due
<1>2. RunRecord(run)
  BY <1>1 DEF LoopInv, RunTyped
<1>3. PICK l : l = Calls[NextCall]
  OBVIOUS
<1>4. /\ run'.pc = run.pc /\ run'.memory = run.memory /\ run'.call = l /\ run'.i = run.i
      /\ run'.events = run.events /\ run'.candidate = run.candidate
  BY <1>2, <1>3 DEF Count, RunRecord
<1>5. UNCHANGED <<campaign, cache, checkpoint, report, analyses, bundle>>
  BY DEF Count, World, agreement
<1>6. CallInv'
  <2>1. Calls' = Calls
    <3>1. /\ Analysed' = Analysed /\ Chosen' = Chosen
      BY <1>5, SameAnswers
    <3>2. ScoredCase' = ScoredCase /\ ScoredPolicy' = ScoredPolicy
      BY <1>4 DEF ScoredCase, ScoredPolicy
    <3>3. \A w : At(w)' = At(w)
      BY <1>4 DEF At
    <3>. QED
      BY <1>4, <3>1, <3>2, <3>3 DEF Calls
  <2>2. PICK C : C = Calls
    OBVIOUS
  <2>3. PICK n \in DOMAIN C : n = NextCall /\ \A j \in DOMAIN C : j < n => Answered(C[j]) /\ j \notin Failed(C)
    BY <1>1, <2>2, NextCallIs DEF Answered
  <2>4. \A j \in DOMAIN C : j < n => Answered(C[j])' /\ j \notin Failed(C)'
    BY <1>5, <2>3, SameAnswers
  <2>5. C[n] = l
    BY <1>3, <2>2, <2>3
  <2>. QED
    BY <1>4, <2>1, <2>2, <2>4, <2>5 DEF CallInv
<1>7. PlaceInv'
  <2>1. SameOrder
    BY <1>5, OrderSame
  <2>2. /\ \A i : TrainedUpTo(i)' = TrainedUpTo(i)
        /\ \A i, c : ScoredUpTo(i, c)' = ScoredUpTo(i, c)
        /\ Diagnosed' = Diagnosed /\ Settled' = Settled
    BY <1>5, SameAnswers
  <2>. QED
    BY <1>1, <1>4, <1>5, <2>1, <2>2 DEF EvidenceInv, PlaceInv, SameOrder, SamePath
<1>8. EndInv'
  BY <1>1, <1>4 DEF EndInv, Previewing, Working, Stopped
<1>. QED
  BY <1>5, <1>6, <1>7, <1>8, ProcessStep

(* A checkpoint that lacks nothing is complete, and every observer answered.  *)
LEMMA CheckpointComplete ==
  ASSUME EvidenceInv, checkpoint # NoFile, Unlogged = {}
  PROVE  LogComplete(checkpoint) /\ AllAnswered
<1>1. DOMAIN checkpoint = Evaluated
  BY DEF Unlogged, EvidenceInv, LogInv
<1>2. \A id \in Evaluated, o \in Observers :
        Answered(ObserverCall(id, o)) /\ checkpoint[id].observers[o] = Slot(id[1], id[2], o)
  BY <1>1 DEF EvidenceInv, LogInv
<1>3. AllAnswered
  BY <1>2 DEF AllAnswered
<1>4. \A id \in Evaluated, o \in Observers : checkpoint[id].observers[o] = SlotFound(id, o)
  BY <1>2 DEF SlotFound, ObserverCall
<1>. QED
  BY <1>1, <1>3, <1>4 DEF LogComplete

(* A step that writes campaign.json before the end.                           *)
LEMMA UnendedEvidence ==
  ASSUME EvidenceInv, cache' = cache, checkpoint' = checkpoint, campaign'.rejected = campaign.rejected,
         campaign'.iteration = campaign.iteration, campaign'.state \notin Clean,
         bundle = NoFile, bundle' = bundle, CallInv', PlaceInv', EndInv'
  PROVE  EvidenceInv'
<1>1. PendingInv' /\ OrderInv' /\ LogInv'
  BY OrderStays
<1>2. RecordInv'
  BY DEF RecordInv
<1>. QED
  BY <1>1, <1>2 DEF EvidenceInv

(* Where the campaign stands is in memory.                                    *)
LEMMA GoingIs ==
  ASSUME LoopInv, run # Idle, run.pc \in Going
  PROVE  /\ run.memory.rejected = campaign.rejected /\ run.memory.iteration = campaign.iteration
         /\ campaign.state \notin Clean /\ run.memory.state \notin Clean /\ bundle = NoFile
         /\ CampaignRecord(run.memory) /\ RunRecord(run)
BY DEF LoopInv, CourseInv, RunTyped, Memory, Clean

LEMMA LogIsFile == ASSUME NEW e, IsLog(e) PROVE e # NoFile
<1>1. PICK S \in SUBSET Ids : e \in Logs(S)
  BY DEF IsLog
<1>2. NoFile \notin Logs(S)
  BY LoopAssumption
<1>. QED
  BY <1>1, <1>2

LEMMA AuditEvidence == ASSUME LoopInv, EvidenceInv, Audit, run # Idle PROVE EvidenceInv'
<1>1. run.pc = "audit" /\ run.pc \in Going
  BY DEF Audit, At, Going
<1>2. /\ run.memory.rejected = campaign.rejected /\ run.memory.iteration = campaign.iteration
      /\ run.memory.state \notin Clean /\ bundle = NoFile
      /\ CampaignRecord(run.memory) /\ RunRecord(run)
  BY <1>1, GoingIs
<1>3. PICK m : m = [run.memory EXCEPT !.audited = TRUE]
  OBVIOUS
<1>4. m.rejected = campaign.rejected /\ m.iteration = campaign.iteration /\ m.state \notin Clean
  BY <1>2, <1>3 DEF CampaignRecord
<1>5. run' = [run EXCEPT !.pc = "open", !.memory = m]
  BY <1>2, <1>3 DEF Audit, RunRecord
<1>6. run'.pc = "open" /\ run'.memory = m /\ run'.events = run.events /\ run'.call = run.call
  BY <1>2, <1>5 DEF RunRecord
<1>7. campaign' = m /\ UNCHANGED <<calls, agreement, bundle>>
  BY <1>6 DEF Audit, World
<1>8. CallInv'
  <2>1. run.call = <<>>
    BY <1>1 DEF LoopInv, InFlight, Working
  <2>. QED
    BY <1>6, <2>1 DEF CallInv
<1>9. PlaceInv'
  BY <1>1, <1>4, <1>6, <1>7 DEF EvidenceInv, PlaceInv, Working
<1>10. EndInv'
  BY <1>6 DEF EndInv, Previewing, Stopped
<1>. QED
  BY <1>2, <1>4, <1>7, <1>8, <1>9, <1>10, UnendedEvidence DEF calls, agreement

LEMMA IterateEvidence == ASSUME LoopInv, EvidenceInv, Iterate, run # Idle PROVE EvidenceInv'
<1>1. run.pc = "iterate" /\ run.pc \in Going
  BY DEF Iterate, At, Going
<1>2. /\ run.memory.rejected = campaign.rejected /\ run.memory.iteration = campaign.iteration
      /\ run.memory.state \notin Clean /\ campaign.state \notin Clean /\ bundle = NoFile
      /\ CampaignRecord(run.memory) /\ RunRecord(run)
  BY <1>1, GoingIs
<1>3. run.call = <<>> /\ checkpoint # NoFile /\ run.events = checkpoint
  BY <1>1 DEF LoopInv, InFlight, Working, EvidenceInv, PlaceInv
<1>4. UNCHANGED <<cache, checkpoint, report, analyses, bundle>>
  BY DEF Iterate, World, calls, agreement
<1>5. CASE run.memory.iteration < MaxIterations
  <2>1. PICK m : m = [run.memory EXCEPT !.state = "running"]
    OBVIOUS
  <2>2. m.rejected = campaign.rejected /\ m.iteration = campaign.iteration /\ m.state \notin Clean
    BY <1>2, <2>1 DEF CampaignRecord, Clean
  <2>3. run' = [run EXCEPT !.pc = "train", !.i = 1, !.memory = m]
    BY <1>2, <1>5, <2>1 DEF Iterate, RunRecord
  <2>4. /\ run'.pc = "train" /\ run'.memory = m /\ run'.events = run.events /\ run'.call = run.call
        /\ run'.i = 1
    BY <1>2, <2>3 DEF RunRecord
  <2>5. campaign' = m
    BY <1>5, <2>4 DEF Iterate
  <2>6. CallInv'
    BY <1>3, <2>4 DEF CallInv
  <2>7. PlaceInv'
    <3>1. SameOrder
      BY <1>4, <2>2, <2>5, OrderSame
    <3>2. TrainedUpTo(1)'
      <4>1. Train \in Seq(ToSet(Train))
        BY LoopAssumption, Zenon
      <4>2. \A j \in DOMAIN Train : ~(j < 1)
        BY <4>1
      <4>. QED
        BY <4>2 DEF TrainedUpTo
    <3>3. \A id \in Unlogged : InTrain(id, 1) \/ InScore(id, 1)
      BY <1>2 DEF EvidenceInv, PendingInv, Pending
    <3>4. \A id \in Unlogged' : InTrain(id, 1)' \/ InScore(id, 1)'
      BY <3>1, <3>3 DEF SameOrder, SamePath
    <3>5. TrainedUpTo(run.i)' /\ \A id \in Unlogged' : InTrain(id, run.i)' \/ InScore(id, 1)'
      BY <2>4, <3>2, <3>4
    <3>. QED
      BY <1>3, <1>4, <2>2, <2>4, <2>5, <3>5 DEF PlaceInv
  <2>8. EndInv'
    BY <2>4 DEF EndInv, Previewing, Stopped
  <2>. QED
    BY <1>2, <1>4, <2>2, <2>5, <2>6, <2>7, <2>8, UnendedEvidence
<1>6. CASE ~(run.memory.iteration < MaxIterations)
  <2>1. run' = [run EXCEPT !.pc = "report", !.goal = "budget_exhausted"] /\ campaign' = campaign
    BY <1>6 DEF Iterate, Conclude
  <2>2. /\ run'.pc = "report" /\ run'.memory = run.memory /\ run'.events = run.events
        /\ run'.call = run.call /\ run'.goal = "budget_exhausted"
    BY <1>2, <2>1 DEF RunRecord
  <2>3. Unlogged = {}
    BY <1>2, <1>6 DEF EvidenceInv, PendingInv, Pending
  <2>4. LogComplete(run.events)
    BY <1>3, <2>3, CheckpointComplete
  <2>5. CallInv'
    BY <1>3, <2>2 DEF CallInv
  <2>6. PlaceInv'
    BY <1>2, <1>4, <2>1, <2>2 DEF PlaceInv, Working
  <2>7. EndInv'
    <3>1. LogComplete(run.events)'
      BY <1>4, <2>2, <2>4, TruthStays
    <3>. QED
      BY <2>2, <3>1 DEF EndInv, Previewing, Stopped
  <2>. QED
    BY <1>4, <2>1, <2>5, <2>6, <2>7, ProcessStep
<1>. QED
  BY <1>5, <1>6

(* The commands.                                                              *)
LEMMA NothingAsked ==
  ASSUME LoopInv, budget = NoFile
  PROVE  cache = Nothing /\ Evaluated = {} /\ \A call : ~Answered(call)
<1>1. cache = Nothing
  BY DEF LoopInv, CallsAccounted
<1>2. DOMAIN cache = {}
  BY <1>1 DEF Nothing
<1>. QED
  BY <1>1, <1>2 DEF Evaluated, Answered

LEMMA ProcessIs ==
  ASSUME NEW m, NEW new, run' = Process(m, new), campaign'.iteration = m.iteration
  PROVE  CallInv' /\ PlaceInv' /\ EndInv'
<1>1. run'.pc = "audit" /\ run'.memory = m /\ run'.call = <<>> /\ run'.events = Nothing
  BY DEF Process
<1>2. CallInv'
  BY <1>1 DEF CallInv
<1>3. PlaceInv'
  BY <1>1 DEF PlaceInv, Working
<1>4. EndInv'
  BY <1>1 DEF EndInv, Previewing, Stopped
<1>. QED
  BY <1>2, <1>3, <1>4

LEMMA StartEvidence == ASSUME LoopInv, EvidenceInv, Start PROVE EvidenceInv'
<1>1. bundle = NoFile /\ budget = NoFile
  BY DEF LoopInv, CourseInv, Start
<1>2. UNCHANGED <<cache, checkpoint, bundle>> /\ campaign' = New /\ run' = Process(New, TRUE)
  BY DEF Start, World, calls, agreement
<1>3. CallInv' /\ PlaceInv' /\ EndInv'
  BY <1>2, ProcessIs
<1>4. Evaluated' = {}
  BY <1>1, <1>2, NothingAsked, SameAnswers
<1>5. Unlogged' = {}
  BY <1>4 DEF Unlogged
<1>6. PendingInv'
  BY <1>5 DEF PendingInv
<1>7. OrderInv' /\ LogInv'
  BY <1>2, CacheSame
<1>8. RecordInv'
  <2>1. campaign'.state \notin Clean
    BY <1>2 DEF New, Clean
  <2>. QED
    BY <1>1, <1>2, <2>1 DEF RecordInv
<1>. QED
  BY <1>3, <1>6, <1>7, <1>8 DEF EvidenceInv

LEMMA ResumeEvidence == ASSUME LoopInv, EvidenceInv, Resume PROVE EvidenceInv'
<1>1. /\ UNCHANGED <<cache, campaign, checkpoint, report, analyses, bundle>>
      /\ run' = Process(campaign, FALSE)
  BY DEF Resume, World, calls, agreement
<1>2. CallInv' /\ PlaceInv' /\ EndInv'
  BY <1>1, ProcessIs
<1>. QED
  BY <1>1, <1>2, ProcessStep

LEMMA ResumePreviewEvidence == ASSUME LoopInv, EvidenceInv, ResumePreview PROVE EvidenceInv'
<1>1. /\ bundle # NoFile /\ campaign.state \in {"running", "failed"} /\ campaign # Absent
      /\ report = bundle.report /\ summary # NoFile /\ summary = bundle.summary
  BY DEF ResumePreview, Absent, DifferentialLoads
<1>2. CampaignRecord(campaign)
  BY <1>1 DEF LoopInv, FilesTyped, Memory
<1>3. UNCHANGED <<cache, checkpoint, report, analyses, bundle>>
  BY DEF ResumePreview, World, calls, agreement
<1>4. PICK m : m = campaign'
  OBVIOUS
<1>5. /\ m.state = "promotion_previewed" /\ m.rejected = campaign.rejected /\ m.report = report
      /\ m.aggregate = AgreementSummary(report.events, Dimensions) /\ m.summary = summary
  BY <1>2, <1>4 DEF ResumePreview, CampaignRecord
<1>6. run' = [Process(m, FALSE) EXCEPT !.pc = "cleanup", !.caught = TRUE]
  BY <1>4 DEF ResumePreview
<1>7. run'.pc = "cleanup" /\ run'.memory = m /\ run'.call = <<>>
  BY <1>6 DEF Process
<1>8. PendingInv' /\ OrderInv' /\ LogInv'
  BY <1>1, <1>3, <1>4, <1>5, OrderStays
<1>9. Truthful(bundle.report, "promotion_previewed") /\ bundle.summary = Analyses
  BY <1>1 DEF EvidenceInv, RecordInv
<1>10. Truthful(report, "promotion_previewed")' /\ Truthful(bundle.report, "promotion_previewed")'
  BY <1>1, <1>3, <1>9, TruthStays
<1>11. Analyses' = Analyses
  BY <1>3 DEF Analyses, analyses
<1>12. Filed(m)' /\ Summed(m)'
  <2>1. Filed(m)'
    BY <1>3, <1>5, <1>10 DEF Filed
  <2>2. Summed(m)'
    BY <1>1, <1>3, <1>5, <1>9, <1>11 DEF Summed, analyses
  <2>. QED
    BY <2>1, <2>2
<1>13. RecordInv'
  BY <1>3, <1>4, <1>9, <1>10, <1>11, <1>12 DEF RecordInv
<1>14. CallInv'
  BY <1>7 DEF CallInv
<1>15. PlaceInv'
  BY <1>1, <1>3, <1>7 DEF PlaceInv, Working
<1>16. EndInv'
  BY <1>7, <1>12 DEF EndInv, Previewing
<1>. QED
  BY <1>8, <1>13, <1>14, <1>15, <1>16 DEF EvidenceInv

(* A new collector has nothing to lack; a resumed one is the checkpoint.      *)
LEMMA OpenEvidence == ASSUME LoopInv, EvidenceInv, Open, run # Idle PROVE EvidenceInv'
<1>1. run.pc = "open" /\ run.pc \in Going
  BY DEF Open, At, Going
<1>2. RunRecord(run) /\ bundle = NoFile /\ campaign.state \notin Clean
  BY <1>1, GoingIs
<1>3. run.call = <<>> /\ run.events = Nothing /\ run.memory.iteration = campaign.iteration
  BY <1>1, <1>2 DEF LoopInv, InFlight, Working, EvidenceInv, PlaceInv
<1>4. UNCHANGED <<campaign, cache, report, analyses, bundle>>
  BY DEF Open, World
<1>5. ASSUME run' = [run EXCEPT !.pc = "iterate", !.events = checkpoint'], checkpoint' # NoFile
      PROVE  CallInv' /\ PlaceInv' /\ EndInv'
  <2>1. /\ run'.pc = "iterate" /\ run'.call = <<>> /\ run'.memory = run.memory
        /\ run'.events = checkpoint'
    BY <1>2, <1>3, <1>5 DEF RunRecord
  <2>2. CallInv'
    BY <2>1 DEF CallInv
  <2>3. PlaceInv'
    BY <1>3, <1>4, <1>5, <2>1 DEF PlaceInv, Working
  <2>4. EndInv'
    BY <2>1 DEF EndInv, Previewing, Stopped
  <2>. QED
    BY <2>2, <2>3, <2>4
<1>6. CASE run.fresh
  <2>1. budget = NoFile
    BY <1>1, <1>6 DEF LoopInv, InFlight
  <2>2. checkpoint' = Nothing /\ Goto("iterate")
    BY <1>6 DEF Open, PersistCheckpoint
  <2>3. Nothing # NoFile
    BY EmptyLog, LogIsFile
  <2>4. run' = [run EXCEPT !.pc = "iterate", !.events = checkpoint']
    BY <1>2, <1>3, <2>2 DEF Goto, RunRecord
  <2>5. CallInv' /\ PlaceInv' /\ EndInv'
    BY <1>5, <2>2, <2>3, <2>4
  <2>6. Evaluated' = {}
    BY <1>4, <2>1, NothingAsked, SameAnswers
  <2>7. PendingInv'
    <3>1. Unlogged' = {}
      BY <2>6 DEF Unlogged
    <3>. QED
      BY <3>1 DEF PendingInv
  <2>8. LogInv'
    <3>1. DOMAIN checkpoint' = {}
      BY <2>2 DEF Nothing
    <3>. QED
      BY <3>1 DEF LogInv
  <2>9. OrderInv'
    BY <1>4, CacheSame
  <2>10. RecordInv'
    BY <1>4, RecordStays
  <2>. QED
    BY <2>5, <2>7, <2>8, <2>9, <2>10 DEF EvidenceInv
<1>7. CASE ~run.fresh /\ CheckpointLoads
  <2>1. run' = [run EXCEPT !.pc = "iterate", !.events = checkpoint] /\ checkpoint' = checkpoint
    BY <1>7 DEF Open
  <2>2. checkpoint # NoFile
    BY <1>7 DEF CheckpointLoads
  <2>3. CallInv' /\ PlaceInv' /\ EndInv'
    BY <1>5, <2>1, <2>2
  <2>. QED
    BY <1>4, <2>1, <2>3, ProcessStep
<1>8. CASE ~run.fresh /\ ~CheckpointLoads
  <2>1. Fails("summary") /\ checkpoint' = checkpoint
    BY <1>8 DEF Open, Typed
  <2>. QED
    BY <1>4, <2>1, FailEvidence
<1>. QED
  BY <1>6, <1>7, <1>8

-----------------------------------------------------------------------------
(* An iteration that reaches its end lacks no event.                          *)
LEMMA ConcludeEvidence ==
  ASSUME LoopInv, EvidenceInv, run # Idle, run.pc \in Working, run.call = <<>>, Unlogged = {},
         NEW goal, run' = Conclude(goal),
         cache' = cache, checkpoint' = checkpoint, UNCHANGED <<campaign, report, analyses, bundle>>
  PROVE  EvidenceInv'
<1>1. run.pc \in Going
  BY DEF Going
<1>2. /\ RunRecord(run) /\ checkpoint # NoFile /\ run.events = checkpoint
      /\ run.memory.iteration = campaign.iteration
  BY <1>1, GoingIs DEF EvidenceInv, PlaceInv
<1>3. /\ run'.pc = "report" /\ run'.memory = run.memory /\ run'.events = run.events
      /\ run'.call = <<>> /\ run'.goal = goal
  BY <1>2 DEF Conclude, RunRecord
<1>4. LogComplete(run.events)' /\ AllAnswered'
  <2>1. LogComplete(run.events) /\ AllAnswered
    BY <1>2, CheckpointComplete
  <2>. QED
    BY <1>3, <2>1, TruthStays
<1>5. CallInv'
  BY <1>3 DEF CallInv
<1>6. PlaceInv'
  BY <1>2, <1>3 DEF PlaceInv, Working
<1>7. EndInv'
  BY <1>3, <1>4 DEF EndInv, Previewing, Stopped
<1>. QED
  BY <1>5, <1>6, <1>7, ProcessStep

LEMMA DiagnoseEvidence == ASSUME LoopInv, EvidenceInv, Diagnose, run # Idle PROVE EvidenceInv'
<1>1. run.pc = "train" /\ run.pc \in Working /\ run.pc \in Going /\ run.i > Len(Train)
  BY DEF Diagnose, At, Working, Going
<1>2. /\ RunRecord(run) /\ checkpoint # NoFile /\ run.events = checkpoint
      /\ run.memory.iteration = campaign.iteration
  BY <1>1, GoingIs DEF EvidenceInv, PlaceInv
<1>3. UNCHANGED <<campaign, cache, checkpoint, report, analyses, bundle>>
  BY DEF Diagnose, World, calls, agreement
<1>4. PICK n \in Nat : n = Len(Train) /\ DOMAIN Train = 1..n
  <2>1. Train \in Seq(ToSet(Train))
    BY LoopAssumption, Zenon
  <2>. QED
    BY <2>1
<1>5. run.i \in Nat
  BY RunIs
<1>6. run.call = <<>>
  <2>1. run.i \notin DOMAIN Train
    BY <1>1, <1>4, <1>5
  <2>2. Calls = <<>>
    BY <1>1, <2>1 DEF Calls, At
  <2>3. DOMAIN Calls = {}
    BY <2>2
  <2>. QED
    BY <2>3, NothingInFlight DEF LoopInv
<1>7. \A j \in DOMAIN Train : Done(Evaluates(TrainItem(j)))
  <2>1. TrainedUpTo(run.i)
    BY <1>1 DEF EvidenceInv, PlaceInv
  <2>2. \A j \in DOMAIN Train : j < run.i
    BY <1>1, <1>4, <1>5
  <2>. QED
    BY <2>1, <2>2 DEF TrainedUpTo
<1>8. \A id \in Unlogged : InScore(id, 1)
  <2>1. \A id : ~InTrain(id, run.i)
    BY <1>1, <1>4, <1>5 DEF InTrain
  <2>. QED
    BY <1>1, <2>1 DEF EvidenceInv, PlaceInv
<1>9. CASE PatchableTrain = {}
  <2>1. \A id : ~InScore(id, 1)
    BY <1>9 DEF InScore, Proposes, Settled, Diagnosed
  <2>2. Unlogged = {}
    BY <1>8, <2>1
  <2>3. run' = Conclude("no_patchable_diagnosis")
    BY <1>9 DEF Diagnose
  <2>. QED
    BY <1>1, <1>3, <1>6, <2>2, <2>3, ConcludeEvidence
<1>10. CASE PatchableTrain # {}
  <2>1. run' = [run EXCEPT !.pc = "differential"]
    BY <1>10 DEF Diagnose
  <2>2. /\ run'.pc = "differential" /\ run'.memory = run.memory /\ run'.events = run.events
        /\ run'.call = <<>>
    BY <1>2, <1>6, <2>1 DEF RunRecord
  <2>3. Diagnosed'
    BY <1>3, <1>7, <1>10, SameAnswers DEF Diagnosed
  <2>4. SameOrder
    BY <1>3, OrderSame
  <2>5. \A id \in Unlogged' : InScore(id, 1)'
    BY <1>8, <2>4 DEF SameOrder, SamePath
  <2>6. CallInv'
    BY <2>2 DEF CallInv
  <2>7. PlaceInv'
    BY <1>2, <1>3, <2>2, <2>3, <2>5 DEF PlaceInv
  <2>8. EndInv'
    BY <2>2 DEF EndInv, Previewing, Stopped
  <2>. QED
    BY <1>3, <2>6, <2>7, <2>8, ProcessStep
<1>. QED
  BY <1>9, <1>10

LEMMA AnalyseEvidence == ASSUME LoopInv, EvidenceInv, Analyse, run # Idle PROVE EvidenceInv'
<1>1. run.pc = "differential" /\ run.pc \in Working /\ run.pc \in Going /\ run.call = <<>>
  BY DEF Analyse, At, Working, Going
<1>2. /\ RunRecord(run) /\ checkpoint # NoFile /\ run.events = checkpoint /\ bundle = NoFile
      /\ run.memory.iteration = campaign.iteration /\ campaign.state \notin Clean
  BY <1>1, GoingIs DEF EvidenceInv, PlaceInv
<1>3. UNCHANGED <<campaign, cache, checkpoint, report, bundle>>
  BY DEF Analyse, World, calls, agreement
<1>4. run' = [run EXCEPT !.pc = "propose"]
  BY DEF Analyse, Goto
<1>5. /\ run'.pc = "propose" /\ run'.memory = run.memory /\ run'.events = run.events
      /\ run'.call = <<>>
  BY <1>1, <1>2, <1>4 DEF RunRecord
<1>6. Settled
  <2>1. Calls = AnalysisCalls(Chosen)
    BY <1>1 DEF Calls, At
  <2>2. PICK C : C = Calls /\ (Done(C) \/ Failed(C) # {})
    BY DEF Analyse
  <2>3. Analysed \/ Failed(AnalysisCalls(Chosen)) # {}
    BY <2>1, <2>2 DEF Analysed
  <2>. QED
    BY <1>1, <2>3 DEF EvidenceInv, PlaceInv, Settled
<1>7. Settled' /\ Diagnosed'
  BY <1>3, <1>6, SameAnswers DEF Settled
<1>8. SameOrder
  BY <1>3, OrderSame
<1>9. \A id \in Unlogged' : InScore(id, 1)'
  BY <1>1, <1>8 DEF SameOrder, SamePath, EvidenceInv, PlaceInv
<1>10. CallInv'
  BY <1>5 DEF CallInv
<1>11. PlaceInv'
  BY <1>2, <1>3, <1>5, <1>7, <1>9 DEF PlaceInv
<1>12. EndInv'
  BY <1>5 DEF EndInv, Previewing, Stopped
<1>. QED
  BY <1>2, <1>3, <1>10, <1>11, <1>12, UnendedEvidence

LEMMA ProposeEvidence == ASSUME LoopInv, EvidenceInv, Propose, run # Idle PROVE EvidenceInv'
<1>1. run.pc = "propose" /\ run.pc \in Working /\ run.pc \in Going
  BY DEF Propose, At, Working, Going
<1>2. /\ RunRecord(run) /\ checkpoint # NoFile /\ run.events = checkpoint
      /\ run.memory.iteration = campaign.iteration /\ run.memory.rejected = campaign.rejected
  BY <1>1, GoingIs DEF EvidenceInv, PlaceInv
<1>3. UNCHANGED <<campaign, cache, checkpoint, report, analyses, bundle>>
  BY DEF Propose, World, calls, agreement
<1>4. run.call = <<>>
  BY NothingInFlight DEF Propose, LoopInv
<1>5. PICK candidate \in Candidates : candidate = cache[Calls[1]].value
  BY DEF Propose
<1>6. Proposes(candidate)
  <2>1. Calls = <<Proposal>>
    BY <1>1, <1>2 DEF Calls, At, ProposalCalls, Proposal
  <2>2. PICK x : x = Proposal
    OBVIOUS
  <2>3. x[1] = "proposer"
    BY <2>2 DEF Proposal
  <2>4. PICK C : C = Calls /\ Done(C)
    BY DEF Propose
  <2>5. DOMAIN C = {1} /\ C[1] = x
    BY <2>1, <2>2, <2>4
  <2>6. Answered(x) /\ cache[x].ok
    BY <2>3, <2>4, <2>5 DEF Done, Uncached, Failed
  <2>7. cache[x].value = candidate
    BY <1>5, <2>4, <2>5
  <2>. QED
    BY <1>1, <2>2, <2>6, <2>7 DEF EvidenceInv, PlaceInv, Proposes
<1>7. \A id \in Unlogged : InScore(id, 1)
  BY <1>1 DEF EvidenceInv, PlaceInv
<1>8. Seen(run.memory) = Seen(campaign)
  BY <1>2 DEF Seen
<1>9. CASE candidate \in Seen(run.memory)
  <2>1. \A id : ~InScore(id, 1)
    BY <1>6, <1>8, <1>9 DEF InScore, Proposes
  <2>2. Unlogged = {}
    BY <1>7, <2>1
  <2>3. run' = Conclude("no_patchable_diagnosis")
    BY <1>5, <1>9 DEF Propose
  <2>. QED
    BY <1>1, <1>3, <1>4, <2>2, <2>3, ConcludeEvidence
<1>10. CASE candidate \notin Seen(run.memory)
  <2>1. run' = [run EXCEPT !.pc = "score", !.i = 1, !.candidate = candidate]
    BY <1>5, <1>10 DEF Propose
  <2>2. /\ run'.pc = "score" /\ run'.memory = run.memory /\ run'.events = run.events
        /\ run'.call = <<>> /\ run'.i = 1 /\ run'.candidate = candidate
    BY <1>2, <1>4, <2>1 DEF RunRecord
  <2>3. SameOrder
    BY <1>3, OrderSame
  <2>4. Proposes(run.candidate)'
    BY <1>6, <2>2, <2>3 DEF SameOrder, SamePath
  <2>5. ScoredUpTo(run.i, run.candidate)'
    <3>1. \A j \in 1..3 * Len(Rest) : ~(j < 1)
      OBVIOUS
    <3>. QED
      BY <2>2, <3>1 DEF ScoredUpTo
  <2>6. \A id \in Unlogged' : InScore(id, run.i)'
    BY <1>7, <2>2, <2>3 DEF SameOrder, SamePath
  <2>7. CallInv'
    BY <2>2 DEF CallInv
  <2>8. PlaceInv'
    BY <1>2, <1>3, <2>2, <2>4, <2>5, <2>6 DEF PlaceInv
  <2>9. EndInv'
    BY <2>2 DEF EndInv, Previewing, Stopped
  <2>. QED
    BY <1>3, <2>7, <2>8, <2>9, ProcessStep
<1>. QED
  BY <1>9, <1>10

(* All is scored.                                                             *)
LEMMA AllScored ==
  ASSUME LoopInv, EvidenceInv, run # Idle, run.pc = "score", run.i > 3 * Len(Rest)
  PROVE  Unlogged = {} /\ run.call = <<>>
<1>1. Len(Rest) \in Nat /\ run.i \in Nat
  <2>1. Rest \in Seq(Cases)
    BY LoopAssumption, Zenon
  <2>. QED
    BY <2>1, RunIs
<1>2. \A id : ~InScore(id, run.i)
  BY <1>1 DEF InScore
<1>3. run.call = <<>>
  <2>1. run.i \notin 1..3 * Len(Rest)
    BY <1>1
  <2>2. Calls = <<>>
    BY <2>1 DEF Calls, At
  <2>3. DOMAIN Calls = {}
    BY <2>2
  <2>. QED
    BY <2>3, NothingInFlight DEF LoopInv
<1>. QED
  BY <1>2, <1>3 DEF EvidenceInv, PlaceInv

LEMMA PassEvidence == ASSUME LoopInv, EvidenceInv, Pass, run # Idle PROVE EvidenceInv'
<1>1. run.pc = "score" /\ run.pc \in Working
  BY DEF Pass, At, Working
<1>2. Unlogged = {} /\ run.call = <<>>
  BY <1>1, AllScored DEF Pass
<1>3. UNCHANGED <<campaign, cache, checkpoint, report, analyses, bundle>>
  BY DEF Pass, World, calls, agreement
<1>. QED
  BY <1>1, <1>2, <1>3, ConcludeEvidence DEF Pass

LEMMA RejectEvidence == ASSUME LoopInv, EvidenceInv, Reject, run # Idle PROVE EvidenceInv'
<1>1. run.pc = "score" /\ run.pc \in Working /\ run.pc \in Going
  BY DEF Reject, At, Working, Going
<1>2. Unlogged = {} /\ run.call = <<>>
  BY <1>1, AllScored DEF Reject
<1>3. /\ RunRecord(run) /\ CampaignRecord(run.memory) /\ run.memory.state \notin Clean
      /\ checkpoint # NoFile /\ run.events = checkpoint /\ bundle = NoFile
  BY <1>1, GoingIs DEF EvidenceInv, PlaceInv
<1>4. PICK m : m = [run.memory EXCEPT !.iteration = @ + 1, !.rejected = Append(@, Rejection)]
  OBVIOUS
<1>5. run' = [run EXCEPT !.pc = "iterate", !.memory = m]
  BY <1>3, <1>4 DEF Reject, RunRecord
<1>6. /\ run'.pc = "iterate" /\ run'.memory = m /\ run'.events = run.events /\ run'.call = <<>>
  BY <1>2, <1>3, <1>5 DEF RunRecord
<1>7. campaign' = m /\ m.state \notin Clean
  BY <1>3, <1>4, <1>6 DEF Reject, CampaignRecord
<1>8. UNCHANGED <<cache, checkpoint, report, analyses, bundle>>
  BY DEF Reject, World, calls, agreement
<1>9. PendingInv'
  <2>1. Unlogged' = {}
    BY <1>2, <1>8, SameAnswers DEF Unlogged
  <2>. QED
    BY <2>1 DEF PendingInv
<1>10. OrderInv' /\ LogInv'
  BY <1>8, CacheSame
<1>11. RecordInv'
  BY <1>3, <1>7, <1>8 DEF RecordInv
<1>12. CallInv'
  BY <1>6 DEF CallInv
<1>13. PlaceInv'
  BY <1>3, <1>6, <1>7, <1>8 DEF PlaceInv, Working
<1>14. EndInv'
  BY <1>6 DEF EndInv, Previewing, Stopped
<1>. QED
  BY <1>9, <1>10, <1>11, <1>12, <1>13, <1>14 DEF EvidenceInv

-----------------------------------------------------------------------------
(* The end.                                                                   *)
LEMMA PersistReportEvidence == ASSUME LoopInv, EvidenceInv, PersistReport, run # Idle PROVE EvidenceInv'
<1>1. run.pc = "report" /\ run.pc \in Going
  BY DEF PersistReport, At, Going
<1>2. /\ RunRecord(run) /\ CampaignRecord(run.memory) /\ bundle = NoFile /\ campaign.state \notin Clean
      /\ run.memory.iteration = campaign.iteration
  BY <1>1, GoingIs
<1>3. run.call = <<>> /\ run.goal \in Clean
  BY <1>1 DEF LoopInv, InFlight, Working, CourseInv
<1>4. UNCHANGED <<campaign, cache, checkpoint, analyses, bundle>> /\ report' = Report
  BY DEF PersistReport, World, calls
<1>5. Truthful(report, run.goal)'
  <2>1. LogComplete(run.events) /\ (run.goal # "budget_exhausted" => AllAnswered)
    BY <1>1 DEF EvidenceInv, EndInv
  <2>2. PICK g \in Clean : g = run.goal
    BY <1>3
  <2>3. Report # NoFile
    BY ReportIs, RunIs
  <2>4. /\ Report.events = run.events
        /\ Report.collection = IF g = "budget_exhausted" THEN "budget_exhausted" ELSE "complete"
    BY <2>2 DEF Report
  <2>5. Truthful(Report, g)
    BY <2>1, <2>2, <2>3, <2>4 DEF Truthful
  <2>6. Truthful(report, g)'
    <3>1. PICK r : r = Report
      OBVIOUS
    <3>2. Truthful(r, g)
      BY <2>5, <3>1
    <3>3. \A x, goal : Truthful(x, goal)' = Truthful(x, goal)
      BY <1>4, TruthStays
    <3>4. Truthful(r, g)'
      BY <3>2, <3>3
    <3>. QED
      BY <1>4, <3>1, <3>4
  <2>7. run'.goal = g
    <3>1. CASE g = "promotion_previewed"
      <4>1. run' = [run EXCEPT !.pc = "presummary"]
        BY <2>2, <3>1 DEF PersistReport
      <4>. QED
        BY <1>2, <2>2, <4>1 DEF RunRecord
    <3>2. CASE g # "promotion_previewed"
      <4>1. PICK m : run' = [run EXCEPT !.pc = "summary", !.memory = m]
        BY <2>2, <3>2 DEF PersistReport
      <4>. QED
        BY <1>2, <2>2, <4>1 DEF RunRecord
    <3>. QED
      BY <3>1, <3>2
  <2>. QED
    BY <2>6, <2>7
<1>6. CASE run.goal = "promotion_previewed"
  <2>1. run' = [run EXCEPT !.pc = "presummary"]
    BY <1>6 DEF PersistReport
  <2>2. /\ run'.pc = "presummary" /\ run'.memory = run.memory /\ run'.call = <<>>
        /\ run'.goal = "promotion_previewed"
    BY <1>2, <1>3, <1>6, <2>1 DEF RunRecord
  <2>3. CallInv'
    BY <2>2 DEF CallInv
  <2>4. PlaceInv'
    BY <1>2, <1>4, <2>2 DEF PlaceInv, Working
  <2>5. EndInv'
    BY <1>5, <2>2 DEF EndInv, Stopped
  <2>. QED
    BY <1>2, <1>4, <2>3, <2>4, <2>5, UnendedEvidence
<1>7. CASE run.goal # "promotion_previewed"
  <2>1. PICK m : m = Ended(run.memory) /\ run' = [run EXCEPT !.pc = "summary", !.memory = m]
    BY <1>7 DEF PersistReport
  <2>2. /\ m.state = run.goal /\ m.iteration = run.memory.iteration /\ m.report = report'
        /\ m.aggregate = AgreementSummary(report'.events, Dimensions)
    BY <1>2, <2>1 DEF Ended, CampaignRecord
  <2>3. /\ run'.pc = "summary" /\ run'.memory = m /\ run'.call = <<>> /\ run'.goal = run.goal
    BY <1>2, <1>3, <2>1 DEF RunRecord
  <2>4. CallInv'
    BY <2>3 DEF CallInv
  <2>5. PlaceInv'
    BY <1>2, <1>4, <2>2, <2>3 DEF PlaceInv, Working
  <2>6. EndInv'
    <3>1. Truthful(report, run.memory.state)'
      BY <1>5, <2>2, <2>3
    <3>2. Filed(run.memory)'
      BY <2>2, <2>3, <3>1 DEF Filed
    <3>. QED
      BY <2>3, <3>2 DEF EndInv, Previewing
  <2>. QED
    BY <1>2, <1>4, <2>4, <2>5, <2>6, UnendedEvidence
<1>. QED
  BY <1>6, <1>7

LEMMA PersistSummaryEvidence == ASSUME LoopInv, EvidenceInv, PersistSummary, run # Idle PROVE EvidenceInv'
<1>1. run.pc \in {"presummary", "summary"}
  BY DEF PersistSummary, At
<1>2. RunRecord(run) /\ CampaignRecord(run.memory) /\ run.call = <<>>
  BY <1>1 DEF LoopInv, RunTyped, Memory, InFlight, Working
<1>3. UNCHANGED <<campaign, cache, checkpoint, report, differential, bundle>> /\ summary' = Analyses
  BY DEF PersistSummary, World, calls, agreement
<1>4. Analyses' = Analyses /\ Analyses # NoFile
  BY <1>3, AnalysesAre DEF Analyses, LoopInv
<1>5. \A r, goal : Truthful(r, goal)' = Truthful(r, goal)
  BY <1>3, TruthStays
<1>6. CASE run.pc = "presummary"
  <2>1. run.pc \in Going
    BY <1>6 DEF Going, Previewing
  <2>2. bundle = NoFile /\ campaign.state \notin Clean /\ run.memory.iteration = campaign.iteration
    BY <2>1, GoingIs
  <2>3. run' = [run EXCEPT !.pc = "bundle"]
    BY <1>6 DEF PersistSummary, At
  <2>4. run'.pc = "bundle" /\ run'.memory = run.memory /\ run'.call = <<>>
    BY <1>2, <2>3 DEF RunRecord
  <2>5. CallInv'
    BY <2>4 DEF CallInv
  <2>6. PlaceInv'
    BY <1>3, <2>2, <2>4 DEF PlaceInv, Working
  <2>7. EndInv'
    <3>1. Truthful(report, "promotion_previewed")
      BY <1>6 DEF EvidenceInv, EndInv, Previewing
    <3>2. Truthful(report, "promotion_previewed")'
      BY <1>3, <1>5, <3>1
    <3>. QED
      BY <1>3, <1>4, <2>4, <3>2 DEF EndInv, Stopped
  <2>. QED
    BY <1>3, <2>2, <2>5, <2>6, <2>7, UnendedEvidence
<1>7. CASE run.pc = "summary"
  <2>1. PICK m : m = [run.memory EXCEPT !.summary = summary']
    OBVIOUS
  <2>2. /\ m.state = run.memory.state /\ m.iteration = run.memory.iteration
        /\ m.report = run.memory.report /\ m.aggregate = run.memory.aggregate
        /\ m.summary = summary'
    BY <1>2, <2>1 DEF CampaignRecord
  <2>3. run' = [run EXCEPT !.pc = "write", !.memory = m]
    BY <1>2, <1>7, <2>1 DEF PersistSummary, At, RunRecord
  <2>4. run'.pc = "write" /\ run'.memory = m /\ run'.call = <<>>
    BY <1>2, <2>3 DEF RunRecord
  <2>5. PendingInv' /\ OrderInv' /\ LogInv'
    BY <1>3, OrderStays
  <2>6. CallInv'
    BY <2>4 DEF CallInv
  <2>7. PlaceInv'
    BY <1>3, <2>2, <2>4 DEF PlaceInv, Working, EvidenceInv
  <2>8. RecordInv'
    <3>1. ASSUME campaign.state \in Clean PROVE Filed(campaign)' /\ Summed(campaign)'
      <4>1. Filed(campaign) /\ Summed(campaign)
        BY <3>1 DEF EvidenceInv, RecordInv
      <4>2. Filed(campaign)'
        BY <1>3, <1>5, <4>1 DEF Filed
      <4>3. Summed(campaign)'
        BY <1>3, <1>4, <4>1 DEF Summed
      <4>. QED
        BY <4>2, <4>3
    <3>2. bundle # NoFile => Truthful(bundle.report, "promotion_previewed")' /\ bundle.summary = Analyses
      BY <1>3, <1>5 DEF EvidenceInv, RecordInv
    <3>. QED
      BY <1>3, <1>4, <3>1, <3>2 DEF RecordInv
  <2>9. EndInv'
    <3>1. ASSUME m.state \in Clean PROVE Filed(m)' /\ Summed(m)'
      <4>1. Filed(run.memory)
        BY <1>7, <2>2, <3>1 DEF EvidenceInv, EndInv, Stopped
      <4>2. Filed(m)
        BY <2>2, <4>1 DEF Filed
      <4>3. Filed(m)'
        BY <1>3, <1>5, <4>2 DEF Filed
      <4>4. Summed(m)'
        BY <1>3, <1>4, <2>2 DEF Summed
      <4>. QED
        BY <4>3, <4>4
    <3>. QED
      BY <2>4, <3>1 DEF EndInv, Previewing
  <2>. QED
    BY <2>5, <2>6, <2>7, <2>8, <2>9 DEF EvidenceInv
<1>. QED
  BY <1>1, <1>6, <1>7

LEMMA InstallBundleEvidence ==
  ASSUME LoopInv, LoopInv', EvidenceInv, InstallBundle, run # Idle PROVE EvidenceInv'
<1>1. run.pc = "bundle" /\ run.pc \in Going /\ run.pc \in Previewing
  BY DEF InstallBundle, At, Going, Previewing
<1>2. RunRecord(run) /\ CampaignRecord(run.memory) /\ campaign.state \notin Clean
  BY <1>1, GoingIs
<1>3. run.call = <<>> /\ run.goal = "promotion_previewed"
  BY <1>1 DEF LoopInv, InFlight, Working, Previewing, CourseInv
<1>4. UNCHANGED <<campaign, cache, checkpoint, report, analyses>>
  BY DEF InstallBundle, calls
<1>5. bundle' = [candidate |-> run.candidate, report |-> report, summary |-> summary]
  BY DEF InstallBundle
<1>6. bundle'.report = report /\ bundle'.summary = summary
  BY <1>5
<1>7. PICK m : /\ m = [Ended(run.memory) EXCEPT !.iteration = @ + 1, !.candidate = run.candidate]
               /\ run' = [run EXCEPT !.pc = "summary", !.memory = m]
  BY DEF InstallBundle
<1>8. /\ m.state = "promotion_previewed" /\ m.report = report
      /\ m.aggregate = AgreementSummary(report.events, Dimensions)
  BY <1>2, <1>3, <1>4, <1>7 DEF Ended, CampaignRecord
<1>9. run'.pc = "summary" /\ run'.memory = m /\ run'.call = <<>>
  BY <1>2, <1>3, <1>7 DEF RunRecord
<1>10. bundle' # NoFile
  <2>1. run' # Idle
    BY <1>9 DEF Idle
  <2>. QED
    BY <1>8, <1>9, <2>1 DEF LoopInv, PreviewInv
<1>11. PendingInv' /\ OrderInv' /\ LogInv'
  BY <1>4, <1>10, OrderStays
<1>12. Truthful(report, "promotion_previewed") /\ summary = Analyses
  BY <1>1 DEF EvidenceInv, EndInv
<1>13. Analyses' = Analyses
  BY <1>4 DEF Analyses, analyses
<1>14. PICK r : r = report /\ Truthful(r, "promotion_previewed")'
  BY <1>4, <1>12, TruthStays
<1>15. RecordInv'
  <2>1. Truthful(bundle.report, "promotion_previewed")'
    BY <1>6, <1>14
  <2>. QED
    BY <1>2, <1>4, <1>6, <1>12, <1>13, <2>1 DEF RecordInv
<1>16. CallInv'
  BY <1>9 DEF CallInv
<1>17. PlaceInv'
  BY <1>9, <1>10 DEF PlaceInv, Working
<1>18. EndInv'
  <2>1. Filed(m)'
    BY <1>4, <1>8, <1>14 DEF Filed
  <2>. QED
    BY <1>9, <2>1 DEF EndInv, Previewing
<1>. QED
  BY <1>11, <1>15, <1>16, <1>17, <1>18 DEF EvidenceInv

LEMMA WriteEvidence == ASSUME LoopInv, EvidenceInv, Write, run # Idle PROVE EvidenceInv'
<1>1. run.pc = "write" /\ run.pc \in Stopped
  BY DEF Write, At, Stopped
<1>2. RunRecord(run) /\ run.call = <<>> /\ run.memory.rejected = campaign.rejected
  BY <1>1 DEF LoopInv, RunTyped, InFlight, Working, CourseInv
<1>3. UNCHANGED <<cache, checkpoint, report, analyses, bundle>>
  BY DEF Write, World, calls, agreement
<1>4. PICK m : m = run.memory /\ campaign' = m
  BY DEF Write
<1>5. m.rejected = campaign.rejected /\ (bundle = NoFile => m.iteration = campaign.iteration)
  BY <1>2, <1>4 DEF EvidenceInv, PlaceInv
<1>6. PendingInv' /\ OrderInv' /\ LogInv'
  BY <1>3, <1>4, <1>5, OrderStays
<1>7. \A r, goal : Truthful(r, goal)' = Truthful(r, goal)
  BY <1>3, TruthStays
<1>8. Analyses' = Analyses
  BY <1>3 DEF Analyses, analyses
<1>9. ASSUME m.state \in Clean PROVE Filed(m)' /\ Summed(m)'
  <2>1. Filed(m) /\ Summed(m)
    BY <1>1, <1>4, <1>9 DEF EvidenceInv, EndInv
  <2>2. Filed(m)'
    BY <1>3, <1>7, <2>1 DEF Filed
  <2>3. Summed(m)'
    BY <1>3, <1>8, <2>1 DEF Summed, analyses
  <2>. QED
    BY <2>2, <2>3
<1>10. RecordInv'
  BY <1>3, <1>4, <1>7, <1>8, <1>9 DEF EvidenceInv, RecordInv
<1>11. CASE run' = Idle
  <2>1. CallInv' /\ PlaceInv' /\ EndInv'
    BY <1>11 DEF CallInv, PlaceInv, EndInv
  <2>. QED
    BY <1>6, <1>10, <2>1 DEF EvidenceInv
<1>12. CASE run' # Idle
  <2>1. run' = [run EXCEPT !.pc = "cleanup"]
    BY <1>12 DEF Write
  <2>2. run'.pc = "cleanup" /\ run'.memory = m /\ run'.call = <<>>
    BY <1>2, <1>4, <2>1 DEF RunRecord
  <2>3. CallInv'
    BY <2>2 DEF CallInv
  <2>4. PlaceInv'
    BY <1>4, <2>2 DEF PlaceInv, Working
  <2>5. EndInv'
    BY <1>9, <2>2 DEF EndInv, Previewing
  <2>. QED
    BY <1>6, <1>10, <2>3, <2>4, <2>5 DEF EvidenceInv
<1>. QED
  BY <1>11, <1>12

LEMMA CleanupEvidence == ASSUME LoopInv, EvidenceInv, Cleanup, run # Idle PROVE EvidenceInv'
<1>1. UNCHANGED <<campaign, cache, report, analyses, bundle>> /\ checkpoint' = NoFile /\ run' = Idle
  BY DEF Cleanup, World, calls
<1>2. Unlogged' = {}
  BY <1>1 DEF Unlogged
<1>3. PendingInv' /\ LogInv'
  BY <1>1, <1>2 DEF PendingInv, LogInv
<1>4. OrderInv' /\ RecordInv'
  BY <1>1, CacheSame, RecordStays
<1>5. CallInv' /\ PlaceInv' /\ EndInv'
  BY <1>1 DEF CallInv, PlaceInv, EndInv
<1>. QED
  BY <1>3, <1>4, <1>5 DEF EvidenceInv

-----------------------------------------------------------------------------
(* The evaluations.                                                           *)
LEMMA EvaluatedScored ==
  ASSUME EvidenceInv, NEW id \in Evaluated
  PROVE  id \in Ids /\ HasScores(id[1], id[2]) /\ Answered(<<"actor", id[1], id[2]>>)
BY DEF EvidenceInv, OrderInv

LEMMA ScoredEvaluated ==
  ASSUME NEW id \in Ids, HasScores(id[1], id[2])
  PROVE  id \in Evaluated
<1>1. PICK call : call = <<"evaluator", id[1], id[2]>>
  OBVIOUS
<1>2. call[1] = "evaluator" /\ <<call[2], call[3]>> = id
  <2>1. id = <<id[1], id[2]>>
    BY DEF Ids
  <2>. QED
    BY <1>1, <2>1
<1>3. call \in {k \in DOMAIN cache : k[1] = "evaluator" /\ cache[k].ok}
  BY <1>1, <1>2 DEF HasScores
<1>. QED
  BY <1>2, <1>3 DEF Evaluated

(* Where the process is, the evaluation whose calls it is at may lack its     *)
(* event, and no other evaluation before the end of its calls.                *)
LEMMA PresentPending ==
  ASSUME LoopInv, EvidenceInv, run # Idle, run.pc \in {"train", "score"}, NEW id, Present(id)
  PROVE  /\ run.pc = "train" => InTrain(id, run.i) /\ InTrain(id, 1)
         /\ run.pc = "score" => InScore(id, run.i) /\ InScore(id, 1)
<1>1. run.i \in Nat \ {0}
  BY RunIs
<1>2. CASE run.pc = "train"
  <2>1. run.i \in DOMAIN Train /\ id = TrainItem(run.i) /\ TrainedUpTo(run.i)
    BY <1>2 DEF Present, EvidenceInv, PlaceInv
  <2>. QED
    BY <1>1, <1>2, <2>1 DEF InTrain
<1>3. CASE run.pc = "score"
  <2>1. /\ run.i \in 1..3 * Len(Rest) /\ id = ScoreItem(run.i, run.candidate)
        /\ Proposes(run.candidate) /\ ScoredUpTo(run.i, run.candidate)
    BY <1>3 DEF Present, EvidenceInv, PlaceInv
  <2>2. run.candidate \in Candidates \ Seen(campaign)
    BY <1>3 DEF LoopInv, GateInv
  <2>. QED
    BY <1>1, <1>3, <2>1, <2>2 DEF InScore
<1>. QED
  BY <1>2, <1>3

LEMMA OnlyPresent ==
  ASSUME LoopInv, EvidenceInv, run # Idle, run.pc \in {"train", "score"}, NEW id, Present(id),
         Calls = Evaluates(id), NEW x \in Unlogged
  PROVE  /\ run.pc = "train" => x = id \/ InTrain(x, run.i + 1) \/ InScore(x, 1)
         /\ run.pc = "score" => x = id \/ InScore(x, run.i + 1)
         /\ ~Done(Calls) => x = id
<1>0. PICK C : C = Calls
  OBVIOUS
<1>1. run.i \in Nat
  BY RunIs
<1>2. CASE run.pc = "train"
  <2>1. run.i \in DOMAIN Train /\ id = TrainItem(run.i)
    BY <1>2 DEF Present
  <2>2. Evaluates(TrainItem(run.i)) = C
    BY <1>0, <2>1
  <2>3. CASE InTrain(x, run.i)
    <3>1. PICK j \in DOMAIN Train : run.i <= j /\ x = TrainItem(j) /\ TrainedUpTo(j)
      BY <2>3 DEF InTrain
    <3>2. j \in Nat
      <4>1. Train \in Seq(ToSet(Train))
        BY LoopAssumption, Zenon
      <4>. QED
        BY <4>1
    <3>3. CASE j = run.i
      BY <1>2, <2>1, <3>1, <3>3
    <3>4. CASE j # run.i
      <4>1. run.i < j /\ run.i + 1 <= j
        BY <1>1, <3>1, <3>2, <3>4
      <4>2. Done(C)
        BY <2>1, <2>2, <3>1, <4>1 DEF TrainedUpTo
      <4>3. InTrain(x, run.i + 1)
        BY <3>1, <4>1 DEF InTrain
      <4>. QED
        BY <1>0, <1>2, <4>2, <4>3
    <3>. QED
      BY <3>3, <3>4
  <2>4. CASE InScore(x, 1)
    <3>1. Diagnosed
      BY <2>4 DEF InScore, Proposes, Settled
    <3>2. Done(C)
      BY <2>1, <2>2, <3>1 DEF Diagnosed
    <3>. QED
      BY <1>0, <1>2, <2>4, <3>2
  <2>. QED
    BY <1>2, <2>3, <2>4 DEF EvidenceInv, PlaceInv
<1>3. CASE run.pc = "score"
  <2>1. /\ run.i \in 1..3 * Len(Rest) /\ id = ScoreItem(run.i, run.candidate)
        /\ Proposes(run.candidate)
    BY <1>3 DEF Present, EvidenceInv, PlaceInv
  <2>2. Evaluates(ScoreItem(run.i, run.candidate)) = C
    BY <1>0, <2>1
  <2>3. InScore(x, run.i)
    BY <1>3 DEF EvidenceInv, PlaceInv
  <2>4. PICK c \in Candidates \ Seen(campaign), j \in 1..3 * Len(Rest) :
          run.i <= j /\ x = ScoreItem(j, c) /\ Proposes(c) /\ ScoredUpTo(j, c)
    BY <2>3 DEF InScore
  <2>5. c = run.candidate
    BY <2>1, <2>4 DEF Proposes
  <2>6. CASE j = run.i
    BY <1>3, <2>1, <2>4, <2>5, <2>6
  <2>7. CASE j # run.i
    <3>1. run.i < j /\ run.i + 1 <= j
      BY <1>1, <2>4, <2>7
    <3>2. Done(C)
      BY <2>1, <2>2, <2>4, <2>5, <3>1 DEF ScoredUpTo
    <3>3. InScore(x, run.i + 1)
      BY <2>4, <3>1 DEF InScore
    <3>. QED
      BY <1>0, <1>3, <3>2, <3>3
  <2>. QED
    BY <2>6, <2>7
<1>. QED
  BY <1>2, <1>3

(* Which event the calls that were answered make.                             *)
LEMMA EventHolds ==
  ASSUME EvidenceInv, NEW id \in Ids, NEW n \in 0..Len(ObserverOrder),
         \A i \in 1..n : Answered(ObserverCall(id, ObserverOrder[i])),
         n < Len(ObserverOrder) => ~Answered(ObserverCall(id, ObserverOrder[n + 1]))
  PROVE  \A o \in Observers : EventUpTo(id[1], id[2], n).observers[o] = SlotFound(id, o)
<1>1. Len(ObserverOrder) \in Nat
  BY EvaluationCallsAre
<1> SUFFICES ASSUME NEW o \in Observers
             PROVE  EventUpTo(id[1], id[2], n).observers[o] = SlotFound(id, o)
  OBVIOUS
<1>2. EventUpTo(id[1], id[2], n).observers[o] =
        IF \E i \in 1..n : ObserverOrder[i] = o THEN Slot(id[1], id[2], o)
        ELSE Missing("not_attempted_budget_exhausted")
  <2>1. \A p, q, r : Event(p, q, r).observers = r
    BY DEF Event
  <2>. QED
    BY <2>1 DEF EventUpTo
<1>3. (\E i \in 1..n : ObserverOrder[i] = o) <=> Answered(ObserverCall(id, o))
  <2>1. ASSUME NEW i \in 1..n, ObserverOrder[i] = o PROVE Answered(ObserverCall(id, o))
    BY <2>1
  <2>2. ASSUME Answered(ObserverCall(id, o)) PROVE \E i \in 1..n : ObserverOrder[i] = o
    <3>1. PICK k \in 1..Len(ObserverOrder) :
            ObserverOrder[k] = o /\ \A j \in 1..k : Answered(ObserverCall(id, ObserverOrder[j]))
      BY <2>2 DEF EvidenceInv, OrderInv
    <3>2. CASE k <= n
      BY <1>1, <3>1, <3>2
    <3>3. CASE n < k
      <4>1. n + 1 \in 1..k /\ n < Len(ObserverOrder)
        BY <1>1, <3>3
      <4>. QED
        BY <3>1, <4>1
    <3>. QED
      BY <1>1, <3>2, <3>3
  <2>. QED
    BY <2>1, <2>2
<1>. QED
  BY <1>2, <1>3 DEF SlotFound, ObserverCall

LEMMA RecordEvidence ==
  ASSUME LoopInv, EvidenceInv, run # Idle, run.pc \in {"train", "score"}, DOMAIN Calls # {}, Done(Calls),
         NEW case, NEW policy, Calls = EvaluationCalls(case, policy), Record(case, policy)
  PROVE  EvidenceInv'
<1>1. run.pc \in Going /\ run.pc \in Working
  BY DEF Going, Working
<1>2. /\ RunRecord(run) /\ checkpoint # NoFile /\ run.events = checkpoint /\ bundle = NoFile
      /\ run.memory.iteration = campaign.iteration /\ campaign.state \notin Clean
      /\ IsLog(run.events) /\ run.i \in Nat
  BY <1>1, GoingIs, RunIs DEF EvidenceInv, PlaceInv
<1>3. PICK id \in Ids : /\ Calls = Evaluates(id) /\ Present(id) /\ id = <<Calls[1][2], Calls[1][3]>>
                        /\ \A n \in DOMAIN Calls : OfEvaluation(id, n)
  BY EvaluationAt
<1>4. id = <<case, policy>> /\ id[1] = case /\ id[2] = policy
  <2>1. PICK call : call = Calls[1] /\ call = <<"actor", case, policy>>
    BY EvaluationCallsAre
  <2>2. call[2] = case /\ call[3] = policy
    BY <2>1
  <2>. QED
    BY <1>3, <2>1, <2>2, Zenon
<1>5. /\ DOMAIN Calls = 1..2 + Len(ObserverOrder) /\ Len(ObserverOrder) \in Nat
      /\ \A i \in 1..Len(ObserverOrder) : Calls[i + 2] = ObserverCall(id, ObserverOrder[i])
  BY <1>4, EvaluationCallsAre DEF ObserverCall
<1>6. \A i \in 1..Len(ObserverOrder) : Answered(ObserverCall(id, ObserverOrder[i]))
  <2>1. \A m \in DOMAIN Calls : Answered(Calls[m])
    BY DoneIs DEF Answered
  <2>2. \A i \in 1..Len(ObserverOrder) : i + 2 \in DOMAIN Calls
    BY <1>5
  <2>. QED
    BY <1>5, <2>1, <2>2
<1>7. \A o \in Observers : Answered(ObserverCall(id, o))
  <2>1. ToSet(ObserverOrder) = Observers /\ ObserverOrder \in Seq(Observers)
    BY LoopAssumption, Zenon
  <2>2. \A o \in Observers : \E i \in 1..Len(ObserverOrder) : ObserverOrder[i] = o
    BY <2>1 DEF ToSet
  <2>. QED
    BY <1>6, <2>2
<1>8. id \in Evaluated
  <2>1. Len(ObserverOrder) \in 0..Len(ObserverOrder)
    BY <1>5
  <2>2. \A m \in 1..Len(ObserverOrder) + 2 : Calls[m] \in DOMAIN cache /\ m \notin Failed(Calls)
    BY <1>5, DoneIs
  <2>3. case \in AllCases /\ policy \in Policies
    BY <1>4 DEF Ids
  <2>4. HasScores(case, policy)
    BY <2>1, <2>2, <2>3, EvaluationDone DEF LoopInv
  <2>. QED
    BY <1>4, <2>4, ScoredEvaluated
<1>9. PICK e : e = EventUpTo(case, policy, Len(ObserverOrder)) /\ \A o \in Observers : e.observers[o] = Slot(case, policy, o)
  <2>1. Len(ObserverOrder) \in 0..Len(ObserverOrder)
    BY <1>5
  <2>2. \A o \in Observers : EventUpTo(case, policy, Len(ObserverOrder)).observers[o] = SlotFound(id, o)
    BY <1>4, <1>6, <2>1, EventHolds
  <2>3. \A o \in Observers : SlotFound(id, o) = Slot(case, policy, o)
    BY <1>4, <1>7 DEF SlotFound, ObserverCall
  <2>. QED
    BY <2>2, <2>3
<1>10. PICK log : log = Put(checkpoint, id, e)
  OBVIOUS
<1>11. DOMAIN log = DOMAIN checkpoint \cup {id} /\ log[id] = e /\ \A x \in DOMAIN checkpoint : x # id => log[x] = checkpoint[x]
  BY <1>10 DEF Put
<1>12. run' = [run EXCEPT !.i = run.i + 1, !.events = log]
  BY <1>2, <1>4, <1>9, <1>10 DEF Record, RunRecord
<1>13. /\ run'.pc = run.pc /\ run'.memory = run.memory /\ run'.events = log /\ run'.call = run.call
       /\ run'.i = run.i + 1 /\ run'.candidate = run.candidate
  BY <1>2, <1>12 DEF RunRecord
<1>14. checkpoint' = log /\ UNCHANGED <<campaign, cache, report, analyses, bundle>>
  BY <1>13 DEF Record, PersistCheckpoint, World, calls
<1>15. log # NoFile
  <2>1. \E S \in SUBSET Ids : S = DOMAIN checkpoint /\ checkpoint \in [S -> Events]
    BY <1>2 DEF IsLog, Logs
  <2>2. e \in Events
    <3>1. Len(ObserverOrder) \in 0..Len(ObserverOrder)
      BY <1>5
    <3>2. \A m \in 1..Len(ObserverOrder) + 2 : Calls[m] \in DOMAIN cache /\ m \notin Failed(Calls)
      BY <1>5, DoneIs
    <3>3. case \in AllCases /\ policy \in Policies
      BY <1>4 DEF Ids
    <3>. QED
      BY <1>9, <3>1, <3>2, <3>3, EvaluationDone DEF LoopInv
  <2>3. case \in AllCases /\ policy \in Policies
    BY <1>4 DEF Ids
  <2>4. IsLog(Put(checkpoint, <<case, policy>>, e))
    BY <1>2, <2>2, <2>3, LogWith
  <2>. QED
    BY <1>4, <1>10, <2>4, LogIsFile
<1>16. Unlogged' = Unlogged \ {id}
  BY <1>2, <1>11, <1>14, <1>15, SameAnswers DEF Unlogged
<1>17. SamePath
  BY <1>14, PathSame
<1>18. PendingInv'
  BY <1>2, <1>14, <1>16, <1>17 DEF EvidenceInv, PendingInv, Pending, SamePath
<1>19. OrderInv'
  BY <1>14, CacheSame
<1>20. LogInv'
  <2>1. Evaluated' = Evaluated
    BY <1>14, SameAnswers
  <2>2. \A x, o : Slot(x[1], x[2], o)' = Slot(x[1], x[2], o)
    BY <1>14, SameAnswers
  <2>3. \A call : Answered(call)' = Answered(call)
    BY <1>14, SameAnswers
  <2>4. DOMAIN log \subseteq Evaluated
    BY <1>2, <1>8, <1>11 DEF EvidenceInv, LogInv
  <2>5. ASSUME NEW x \in DOMAIN log, NEW o \in Observers
        PROVE  Answered(ObserverCall(x, o)) /\ log[x].observers[o] = Slot(x[1], x[2], o)
    <3>1. CASE x = id
      BY <1>4, <1>7, <1>9, <1>11, <3>1
    <3>2. CASE x # id
      BY <1>2, <1>11, <3>2 DEF EvidenceInv, LogInv
    <3>. QED
      BY <3>1, <3>2
  <2>. QED
    BY <1>14, <2>1, <2>2, <2>3, <2>4, <2>5 DEF LogInv
<1>21. RecordInv'
  BY <1>2, <1>14 DEF RecordInv
<1>22. CallInv'
  <2>1. run.call = <<>>
    BY NothingInFlight DEF LoopInv
  <2>. QED
    BY <1>13, <2>1 DEF CallInv
<1>23. PlaceInv'
  <2>1. CASE run.pc = "train"
    <3>1. id = TrainItem(run.i) /\ TrainedUpTo(run.i)
      BY <1>3, <2>1 DEF Present, EvidenceInv, PlaceInv
    <3>2. ASSUME NEW j \in DOMAIN Train, j < run.i + 1 PROVE Done(Evaluates(TrainItem(j)))
      <4>1. CASE j = run.i
        BY <1>3, <3>1, <4>1
      <4>2. CASE j # run.i
        <5>1. j \in Nat
          <6>1. Train \in Seq(ToSet(Train))
            BY LoopAssumption, Zenon
          <6>. QED
            BY <6>1
        <5>2. j < run.i
          BY <1>2, <3>2, <4>2, <5>1
        <5>. QED
          BY <3>1, <5>2 DEF TrainedUpTo
      <4>. QED
        BY <4>1, <4>2
    <3>3. TrainedUpTo(run.i + 1)
      BY <3>2 DEF TrainedUpTo
    <3>4. TrainedUpTo(run.i)'
      BY <1>13, <1>14, <3>3, SameAnswers
    <3>5. \A x \in Unlogged \ {id} : InTrain(x, run.i + 1) \/ InScore(x, 1)
      BY <1>3, <2>1, OnlyPresent
    <3>6. \A x \in Unlogged' : InTrain(x, run.i)' \/ InScore(x, 1)'
      BY <1>13, <1>16, <1>17, <3>5 DEF SamePath
    <3>. QED
      BY <1>2, <1>13, <1>14, <1>15, <2>1, <3>4, <3>6 DEF PlaceInv
  <2>2. CASE run.pc = "score"
    <3>1. id = ScoreItem(run.i, run.candidate) /\ ScoredUpTo(run.i, run.candidate) /\ Proposes(run.candidate)
      BY <1>3, <2>2 DEF Present, EvidenceInv, PlaceInv
    <3>2. ASSUME NEW j \in 1..3 * Len(Rest), j < run.i + 1 PROVE Done(Evaluates(ScoreItem(j, run.candidate)))
      <4>1. CASE j = run.i
        BY <1>3, <3>1, <4>1
      <4>2. CASE j # run.i
        <5>1. j < run.i
          BY <1>2, <3>2, <4>2
        <5>. QED
          BY <3>1, <5>1 DEF ScoredUpTo
      <4>. QED
        BY <4>1, <4>2
    <3>3. ScoredUpTo(run.i + 1, run.candidate)
      BY <3>2 DEF ScoredUpTo
    <3>4. ScoredUpTo(run.i, run.candidate)'
      BY <1>13, <1>14, <3>3, SameAnswers
    <3>5. Proposes(run.candidate)'
      BY <1>13, <1>17, <3>1 DEF SamePath
    <3>6. \A x \in Unlogged \ {id} : InScore(x, run.i + 1)
      BY <1>3, <2>2, OnlyPresent
    <3>7. \A x \in Unlogged' : InScore(x, run.i)'
      BY <1>13, <1>16, <1>17, <3>6 DEF SamePath
    <3>. QED
      BY <1>2, <1>13, <1>14, <1>15, <2>2, <3>4, <3>5, <3>7 DEF PlaceInv
  <2>. QED
    BY <2>1, <2>2
<1>24. EndInv'
  BY <1>1, <1>13 DEF EndInv, Previewing, Stopped, Working
<1>. QED
  BY <1>18, <1>19, <1>20, <1>21, <1>22, <1>23, <1>24 DEF EvidenceInv

LEMMA EvaluateTrainEvidence == ASSUME LoopInv, EvidenceInv, EvaluateTrain, run # Idle PROVE EvidenceInv'
<1>1. run.pc = "train" /\ Calls = EvaluationCalls(Train[run.i], Parent)
  BY DEF EvaluateTrain, At, Calls
<1>2. DOMAIN Calls # {}
  <2>1. DOMAIN Calls = 1..2 + Len(ObserverOrder) /\ Len(ObserverOrder) \in Nat
    BY <1>1, EvaluationCallsAre
  <2>2. 1 \in DOMAIN Calls
    BY <2>1
  <2>. QED
    BY <2>2
<1>. QED
  BY <1>1, <1>2, RecordEvidence DEF EvaluateTrain

LEMMA ScoreEvidence == ASSUME LoopInv, EvidenceInv, Score, run # Idle PROVE EvidenceInv'
<1>1. run.pc = "score" /\ Calls = EvaluationCalls(ScoredCase, ScoredPolicy)
  BY DEF Score, At, Calls
<1>2. DOMAIN Calls # {}
  <2>1. DOMAIN Calls = 1..2 + Len(ObserverOrder) /\ Len(ObserverOrder) \in Nat
    BY <1>1, EvaluationCallsAre
  <2>2. 1 \in DOMAIN Calls
    BY <2>1
  <2>. QED
    BY <2>2
<1>. QED
  BY <1>1, <1>2, RecordEvidence DEF Score

(* An exhausted budget leaves the event of one evaluation, or of none.        *)
LEMMA ExhaustedLog ==
  ASSUME LoopInv, EvidenceInv, Exhaust, run # Idle
  PROVE  \E log : /\ run' = [run EXCEPT !.pc = "report", !.goal = "budget_exhausted", !.caught = TRUE,
                                        !.events = log]
                  /\ LogComplete(log)
<1>1. Due /\ run.pc \in Working /\ run.pc \in Going
  BY DEF Exhaust, Due, Going
<1>2. RunRecord(run) /\ checkpoint # NoFile /\ run.events = checkpoint
  BY <1>1, GoingIs DEF EvidenceInv, PlaceInv
<1>3. PICK C : C = Calls /\ Failed(C) = {} /\ Uncached(C) # {} /\ ~Done(C)
  BY <1>1 DEF Due, Done
<1>4. PICK next : /\ next = NextCall /\ next \in DOMAIN C /\ next \in Nat /\ ~Answered(C[next])
                  /\ \A n \in DOMAIN C : n < next => Answered(C[n]) /\ n \notin Failed(C)
  BY <1>1, <1>3, NextCallIs DEF Answered
<1>5. ASSUME Unlogged = {}, ~((At("train") \/ At("score")) /\ NextCall > 2)
      PROVE  /\ run' = [run EXCEPT !.pc = "report", !.goal = "budget_exhausted", !.caught = TRUE,
                                   !.events = run.events]
             /\ LogComplete(run.events)
  <2>1. LogComplete(run.events)
    BY <1>2, <1>5, CheckpointComplete
  <2>2. run' = [run EXCEPT !.pc = "report", !.goal = "budget_exhausted", !.caught = TRUE,
                           !.events = run.events]
    BY <1>2, <1>5 DEF Exhaust, RunRecord
  <2>. QED
    BY <2>1, <2>2
<1>6. CASE run.pc = "differential"
  <2>1. C = AnalysisCalls(Chosen)
    BY <1>3, <1>6 DEF Calls, At
  <2>2. ~Settled
    BY <1>3, <2>1 DEF Settled, Analysed
  <2>3. Unlogged = {}
    BY <1>6, <2>2 DEF EvidenceInv, PlaceInv, InScore, Proposes
  <2>4. ~At("train") /\ ~At("score")
    BY <1>6 DEF At
  <2>. QED
    BY <1>5, <2>3, <2>4
<1>7. CASE run.pc = "propose"
  <2>1. run.memory.rejected = campaign.rejected
    BY <1>1, GoingIs
  <2>2. C = <<Proposal>>
    BY <1>3, <1>7, <2>1 DEF Calls, At, ProposalCalls, Proposal
  <2>3. DOMAIN C = {1} /\ C[1] = Proposal
    BY <2>2
  <2>4. ~Answered(Proposal)
    BY <1>4, <2>3
  <2>5. Unlogged = {}
    BY <1>7, <2>4 DEF EvidenceInv, PlaceInv, InScore, Proposes
  <2>6. ~At("train") /\ ~At("score")
    BY <1>7 DEF At
  <2>. QED
    BY <1>5, <2>5, <2>6
<1>8. CASE run.pc \in {"train", "score"}
  <2>1. DOMAIN Calls # {}
    BY <1>3, <1>4
  <2>2. PICK id \in Ids : /\ Calls = Evaluates(id) /\ Present(id) /\ id = <<Calls[1][2], Calls[1][3]>>
                          /\ \A n \in DOMAIN Calls : OfEvaluation(id, n)
    BY <1>8, <2>1, EvaluationAt
  <2>3. PICK k \in Nat : /\ k = Len(ObserverOrder) /\ DOMAIN C = 1..2 + k
                         /\ C[1] = <<"actor", id[1], id[2]>> /\ C[2] = <<"evaluator", id[1], id[2]>>
                         /\ \A i \in 1..k : C[i + 2] = ObserverCall(id, ObserverOrder[i])
    <3>1. C = EvaluationCalls(id[1], id[2])
      BY <1>3, <2>2 DEF Evaluates
    <3>2. PICK k \in Nat : k = Len(ObserverOrder)
      BY EvaluationCallsAre
    <3>3. DOMAIN C = 1..2 + k
      BY <3>1, <3>2, EvaluationCallsAre
    <3>4. C[1] = <<"actor", id[1], id[2]>> /\ C[2] = <<"evaluator", id[1], id[2]>>
      BY <3>1, EvaluationCallsAre
    <3>5. \A i \in 1..k : C[i + 2] = ObserverCall(id, ObserverOrder[i])
      BY <3>1, <3>2, EvaluationCallsAre DEF ObserverCall
    <3>. QED
      BY <3>2, <3>3, <3>4, <3>5
  <2>4. \A x \in Unlogged : x = id
    BY <1>3, <1>8, <2>2, OnlyPresent
  <2>5. CASE next <= 2
    <3>1. id \notin Evaluated
      <4>1. CASE next = 1
        BY <1>4, <2>3, <4>1, EvaluatedScored
      <4>2. CASE next = 2
        BY <1>4, <2>3, <4>2, EvaluatedScored DEF HasScores, Answered
      <4>. QED
        BY <1>4, <2>3, <2>5, <4>1, <4>2
    <3>2. Unlogged \subseteq Evaluated
      BY DEF Unlogged
    <3>3. Unlogged = {}
      BY <2>4, <3>1, <3>2
    <3>4. ~(NextCall > 2)
      BY <1>4, <2>5
    <3>. QED
      BY <1>5, <3>3, <3>4, Zenon
  <2>6. CASE next > 2
    <3>1. PICK n : n = next - 3 /\ n \in 0..k /\ n < k /\ n + 1 \in 1..k /\ n + 3 = next
      BY <1>4, <2>3, <2>6
    <3>2. \A i \in 1..n : Answered(ObserverCall(id, ObserverOrder[i]))
      <4>1. \A i \in 1..n : i + 2 \in DOMAIN C /\ i + 2 < next /\ i \in 1..k
        BY <1>4, <2>3, <3>1
      <4>. QED
        BY <1>4, <2>3, <4>1
    <3>3. ~Answered(ObserverCall(id, ObserverOrder[n + 1]))
      <4>1. C[(n + 1) + 2] = ObserverCall(id, ObserverOrder[n + 1])
        BY <2>3, <3>1
      <4>2. (n + 1) + 2 = next
        BY <1>4, <3>1
      <4>. QED
        BY <1>4, <4>1, <4>2
    <3>4. id \in Evaluated
      <4>1. \A m \in 1..n + 2 : Calls[m] \in DOMAIN cache /\ m \notin Failed(Calls)
        <5>1. \A m \in 1..n + 2 : m \in DOMAIN C /\ m < next
          BY <1>4, <2>3, <3>1
        <5>. QED
          BY <1>3, <1>4, <5>1 DEF Answered
      <4>2. Calls = EvaluationCalls(id[1], id[2]) /\ id[1] \in AllCases /\ id[2] \in Policies
        BY <2>2 DEF Evaluates, Ids
      <4>3. n \in 0..Len(ObserverOrder)
        BY <2>3, <3>1
      <4>4. HasScores(id[1], id[2])
        BY <4>1, <4>2, <4>3, EvaluationDone DEF LoopInv
      <4>. QED
        BY <4>4, ScoredEvaluated
    <3>5. PICK e : e = EventUpTo(id[1], id[2], n) /\ \A o \in Observers : e.observers[o] = SlotFound(id, o)
      <4>1. n \in 0..Len(ObserverOrder)
        BY <2>3, <3>1
      <4>. QED
        BY <3>2, <3>3, <4>1, EventHolds
    <3>6. PICK log : log = Put(checkpoint, id, e)
      OBVIOUS
    <3>7. /\ DOMAIN log = DOMAIN checkpoint \cup {id} /\ log[id] = e
          /\ \A x \in DOMAIN checkpoint : x # id => log[x] = checkpoint[x]
      BY <3>6 DEF Put
    <3>8. LogComplete(log)
      <4>1. DOMAIN checkpoint \subseteq Evaluated /\ Evaluated \subseteq DOMAIN checkpoint \cup {id}
        BY <1>2, <2>4 DEF Unlogged, EvidenceInv, LogInv
      <4>2. DOMAIN log = Evaluated
        BY <3>4, <3>7, <4>1
      <4>3. ASSUME NEW x \in Evaluated, NEW o \in Observers
            PROVE  log[x].observers[o] = SlotFound(x, o)
        <5>1. CASE x = id
          BY <3>5, <3>7, <5>1
        <5>2. CASE x # id
          <6>1. x \in DOMAIN checkpoint /\ log[x] = checkpoint[x]
            BY <3>7, <4>1, <5>2
          <6>2. Answered(ObserverCall(x, o)) /\ checkpoint[x].observers[o] = Slot(x[1], x[2], o)
            BY <1>2, <6>1 DEF EvidenceInv, LogInv
          <6>. QED
            BY <6>1, <6>2 DEF SlotFound, ObserverCall
        <5>. QED
          BY <5>1, <5>2
      <4>. QED
        BY <4>2, <4>3 DEF LogComplete
    <3>9. run' = [run EXCEPT !.pc = "report", !.goal = "budget_exhausted", !.caught = TRUE, !.events = log]
      <4>1. (At("train") \/ At("score")) /\ NextCall > 2
        BY <1>4, <1>8, <2>6 DEF At
      <4>2. run' = [run EXCEPT !.pc = "report", !.goal = "budget_exhausted", !.caught = TRUE,
                      !.events = Put(run.events, <<Calls[1][2], Calls[1][3]>>,
                                     EventUpTo(Calls[1][2], Calls[1][3], NextCall - 3))]
        BY <1>2, <4>1 DEF Exhaust, RunRecord
      <4>3. id[1] = Calls[1][2] /\ id[2] = Calls[1][3]
        <5>1. PICK x, y : x = Calls[1][2] /\ y = Calls[1][3]
          OBVIOUS
        <5>2. id = <<x, y>>
          BY <2>2, <5>1
        <5>3. id[1] = x /\ id[2] = y
          BY <5>2
        <5>. QED
          BY <5>1, <5>3
      <4>. QED
        BY <1>2, <1>4, <2>2, <3>1, <3>5, <3>6, <4>2, <4>3
    <3>. QED
      BY <3>8, <3>9
  <2>7. next <= 2 \/ next > 2
    BY <1>4
  <2>. QED
    BY <2>5, <2>6, <2>7, Zenon
<1>. QED
  BY <1>1, <1>6, <1>7, <1>8 DEF Working

LEMMA ExhaustEvidence == ASSUME LoopInv, EvidenceInv, Exhaust, run # Idle PROVE EvidenceInv'
<1>1. Due /\ run.pc \in Working /\ run.pc \in Going /\ run.call = <<>>
  BY DEF Exhaust, Due, Going
<1>2. /\ RunRecord(run) /\ bundle = NoFile /\ campaign.state \notin Clean
      /\ run.memory.iteration = campaign.iteration
  BY <1>1, GoingIs
<1>3. UNCHANGED <<campaign, cache, checkpoint, report, bundle>>
  BY DEF Exhaust, World, calls, agreement
<1>4. PICK log : /\ run' = [run EXCEPT !.pc = "report", !.goal = "budget_exhausted", !.caught = TRUE,
                                       !.events = log]
                 /\ LogComplete(log)
  BY ExhaustedLog
<1>5. /\ run'.pc = "report" /\ run'.memory = run.memory /\ run'.call = <<>> /\ run'.events = log
      /\ run'.goal = "budget_exhausted"
  BY <1>1, <1>2, <1>4 DEF RunRecord
<1>6. LogComplete(run.events)'
  BY <1>3, <1>4, <1>5, TruthStays
<1>7. CallInv'
  BY <1>5 DEF CallInv
<1>8. PlaceInv'
  BY <1>2, <1>3, <1>5 DEF PlaceInv, Working
<1>9. EndInv'
  BY <1>5, <1>6 DEF EndInv, Previewing, Stopped
<1>. QED
  BY <1>2, <1>3, <1>7, <1>8, <1>9, UnendedEvidence

(* An answer: the evaluator's makes its evaluation one that may lack an event.*)
LEMMA AnswerIs ==
  ASSUME LoopInv, EvidenceInv, Answer
  PROVE  /\ run # Idle /\ run.pc \in Working /\ Grown
         /\ DOMAIN cache' = DOMAIN cache \cup {run.call}
         /\ \E n \in DOMAIN Calls : Calls[n] = run.call /\ \A j \in DOMAIN Calls : j < n => Answered(Calls[j])
         /\ /\ run'.pc = run.pc /\ run'.memory = run.memory /\ run'.call = <<>> /\ run'.i = run.i
            /\ run'.events = run.events /\ run'.candidate = run.candidate
         /\ UNCHANGED <<campaign, checkpoint, report, analyses, bundle>>
<1>1. run # Idle /\ run.call # <<>> /\ run.pc \in Working /\ run.call \notin DOMAIN cache
  BY DEF Answer, LoopInv, InFlight
<1>2. RunRecord(run) /\ run' = [run EXCEPT !.call = <<>>]
  BY <1>1, RunIs DEF Answer
<1>3. PICK a : cache' = Put(cache, run.call, a)
  BY DEF Answer
<1>4. DOMAIN cache' = DOMAIN cache \cup {run.call} /\ Grown
  BY <1>1, <1>3 DEF Put, Grown
<1>5. PICK n \in DOMAIN Calls : Calls[n] = run.call /\ \A j \in DOMAIN Calls : j < n => Answered(Calls[j])
  BY <1>1 DEF EvidenceInv, CallInv
<1>6. /\ run'.pc = run.pc /\ run'.memory = run.memory /\ run'.call = <<>> /\ run'.i = run.i
      /\ run'.events = run.events /\ run'.candidate = run.candidate
  BY <1>2 DEF RunRecord
<1>7. UNCHANGED <<campaign, checkpoint, report, analyses, bundle>>
  BY DEF Answer, World, agreement
<1>. QED
  BY <1>1, <1>4, <1>5, <1>6, <1>7

LEMMA AnswerOf ==
  ASSUME LoopInv, EvidenceInv, Answer, run.call[1] \in {"actor", "evaluator", "observer"}
  PROVE  /\ run.pc \in {"train", "score"}
         /\ \E id \in Ids, n \in DOMAIN Calls :
              /\ Present(id) /\ Calls = Evaluates(id) /\ OfEvaluation(id, n) /\ Calls[n] = run.call
              /\ \A j \in DOMAIN Calls : j < n => Answered(Calls[j])
<1>1. run # Idle /\ run.pc \in Working
  BY AnswerIs
<1>2. PICK n \in DOMAIN Calls : Calls[n] = run.call /\ \A j \in DOMAIN Calls : j < n => Answered(Calls[j])
  BY AnswerIs
<1>3. run.pc \in {"train", "score"}
  BY <1>1, <1>2, OtherCalls DEF Working
<1>4. PICK id \in Ids : Calls = Evaluates(id) /\ Present(id) /\ \A m \in DOMAIN Calls : OfEvaluation(id, m)
  BY <1>1, <1>2, <1>3, EvaluationAt
<1>. QED
  BY <1>2, <1>3, <1>4

LEMMA EvaluatedGrows ==
  ASSUME LoopInv, EvidenceInv, Answer
  PROVE  /\ Evaluated \subseteq Evaluated'
         /\ \A id \in Evaluated' : id \in Evaluated \/
              /\ run.pc \in {"train", "score"} /\ Present(id) /\ id \in Ids
              /\ HasScores(id[1], id[2])' /\ Answered(<<"actor", id[1], id[2]>>)'
<1>1. Grown /\ DOMAIN cache' = DOMAIN cache \cup {run.call}
  BY AnswerIs
<1>2. Evaluated \subseteq Evaluated'
  BY <1>1 DEF Evaluated, Grown
<1>3. ASSUME NEW id \in Evaluated', id \notin Evaluated
      PROVE  /\ run.pc \in {"train", "score"} /\ Present(id) /\ id \in Ids
             /\ HasScores(id[1], id[2])' /\ Answered(<<"actor", id[1], id[2]>>)'
  <2>1. PICK call \in DOMAIN cache' : call[1] = "evaluator" /\ cache'[call].ok /\ id = <<call[2], call[3]>>
    BY <1>3 DEF Evaluated
  <2>2. call = run.call
    <3> SUFFICES ASSUME call # run.call PROVE FALSE
      OBVIOUS
    <3>1. call \in DOMAIN cache /\ cache[call].ok
      BY <1>1, <2>1 DEF Grown
    <3>. QED
      BY <1>3, <2>1, <3>1 DEF Evaluated
  <2>3. /\ run.pc \in {"train", "score"}
        /\ \E x \in Ids, n \in DOMAIN Calls :
              /\ Present(x) /\ Calls = Evaluates(x) /\ OfEvaluation(x, n) /\ Calls[n] = run.call
              /\ \A j \in DOMAIN Calls : j < n => Answered(Calls[j])
    BY <2>1, <2>2, AnswerOf
  <2>4. PICK x \in Ids, n \in DOMAIN Calls :
              /\ Present(x) /\ Calls = Evaluates(x) /\ OfEvaluation(x, n) /\ Calls[n] = run.call
              /\ \A j \in DOMAIN Calls : j < n => Answered(Calls[j])
    BY <2>3
  <2>5. n = 2 /\ call = <<"evaluator", x[1], x[2]>>
    BY <2>1, <2>2, <2>4 DEF OfEvaluation, ObserverCall
  <2>6. x = id
    <3>1. call[2] = x[1] /\ call[3] = x[2]
      BY <2>5
    <3>2. x = <<x[1], x[2]>>
      BY DEF Ids
    <3>. QED
      BY <2>1, <3>1, <3>2
  <2>7. HasScores(id[1], id[2])'
    BY <2>1, <2>5, <2>6 DEF HasScores
  <2>8. Answered(<<"actor", id[1], id[2]>>)'
    <3>1. DOMAIN Calls = 1..2 + Len(ObserverOrder) /\ Calls[1] = <<"actor", id[1], id[2]>>
      BY <2>4, <2>6, EvaluationCallsAre DEF Evaluates
    <3>2. 1 \in DOMAIN Calls
      BY <2>4, <2>5, <3>1
    <3>3. Answered(Calls[1])
      BY <2>4, <2>5, <3>2
    <3>4. Answered(<<"actor", id[1], id[2]>>)
      BY <3>1, <3>3
    <3>. QED
      BY <1>1, <3>4, DoneGrows
  <2>. QED
    BY <2>3, <2>4, <2>6, <2>7, <2>8
<1>. QED
  BY <1>2, <1>3

LEMMA AnswerOrder == ASSUME LoopInv, EvidenceInv, Answer PROVE OrderInv'
<1>1. Grown /\ DOMAIN cache' = DOMAIN cache \cup {run.call}
  BY AnswerIs
<1>2. \A call : Answered(call) => Answered(call)'
  BY <1>1, DoneGrows
<1>3. ASSUME NEW id \in Evaluated'
      PROVE  id \in Ids /\ HasScores(id[1], id[2])' /\ Answered(<<"actor", id[1], id[2]>>)'
  <2>1. CASE id \in Evaluated
    <3>1. id \in Ids /\ HasScores(id[1], id[2]) /\ Answered(<<"actor", id[1], id[2]>>)
      BY <2>1, EvaluatedScored
    <3>. QED
      BY <1>1, <1>2, <3>1 DEF HasScores, Grown
  <2>2. CASE id \notin Evaluated
    BY <1>3, <2>2, EvaluatedGrows
  <2>. QED
    BY <2>1, <2>2
<1>4. ASSUME NEW id \in Ids, NEW o \in Observers, Answered(ObserverCall(id, o))'
      PROVE  \E k \in 1..Len(ObserverOrder) :
               ObserverOrder[k] = o /\ \A j \in 1..k : Answered(ObserverCall(id, ObserverOrder[j]))'
  <2>1. CASE Answered(ObserverCall(id, o))
    <3>1. PICK k \in 1..Len(ObserverOrder) :
            ObserverOrder[k] = o /\ \A j \in 1..k : Answered(ObserverCall(id, ObserverOrder[j]))
      BY <2>1 DEF EvidenceInv, OrderInv
    <3>. QED
      BY <1>2, <3>1
  <2>2. CASE ~Answered(ObserverCall(id, o))
    <3>1. PICK call : call = ObserverCall(id, o)
      OBVIOUS
    <3>2. call = run.call /\ call[1] = "observer" /\ call[2] = id[1] /\ call[3] = id[2] /\ call[4] = o
      BY <1>1, <1>4, <2>2, <3>1 DEF Answered, ObserverCall
    <3>3. PICK x \in Ids, n \in DOMAIN Calls :
              /\ Calls = Evaluates(x) /\ OfEvaluation(x, n) /\ Calls[n] = call
              /\ \A j \in DOMAIN Calls : j < n => Answered(Calls[j])
      BY <3>2, AnswerOf
    <3>4. PICK k : k = n - 2 /\ k \in 1..Len(ObserverOrder) /\ call = ObserverCall(x, ObserverOrder[k])
      BY <3>2, <3>3 DEF OfEvaluation
    <3>5. x = id /\ ObserverOrder[k] = o
      <4>1. call[2] = x[1] /\ call[3] = x[2] /\ call[4] = ObserverOrder[k]
        BY <3>4 DEF ObserverCall
      <4>2. x = <<x[1], x[2]>> /\ id = <<id[1], id[2]>>
        BY DEF Ids
      <4>. QED
        BY <3>2, <4>1, <4>2
    <3>6. /\ DOMAIN Calls = 1..2 + Len(ObserverOrder) /\ Len(ObserverOrder) \in Nat
          /\ \A i \in 1..Len(ObserverOrder) : Calls[i + 2] = ObserverCall(id, ObserverOrder[i])
      <4>1. Calls = EvaluationCalls(id[1], id[2])
        BY <3>3, <3>5 DEF Evaluates
      <4>. QED
        BY <4>1, EvaluationCallsAre DEF ObserverCall
    <3>7. ASSUME NEW j \in 1..k PROVE Answered(ObserverCall(id, ObserverOrder[j]))'
      <4>1. CASE j = k
        BY <1>4, <3>5, <4>1
      <4>2. CASE j # k
        <5>1. j + 2 \in DOMAIN Calls /\ j + 2 < n /\ j \in 1..Len(ObserverOrder)
          BY <3>3, <3>4, <3>6, <4>2
        <5>2. Answered(Calls[j + 2])
          BY <3>3, <5>1
        <5>3. Answered(ObserverCall(id, ObserverOrder[j]))
          BY <3>6, <5>1, <5>2
        <5>. QED
          BY <1>2, <5>3
      <4>. QED
        BY <4>1, <4>2
    <3>. QED
      BY <3>4, <3>5, <3>7
  <2>. QED
    BY <2>1, <2>2
<1>5. /\ \A id \in Evaluated' : id \in Ids /\ HasScores(id[1], id[2])' /\ Answered(<<"actor", id[1], id[2]>>)'
      /\ \A id \in Ids, o \in Observers : Answered(ObserverCall(id, o))' =>
           \E k \in 1..Len(ObserverOrder) :
             ObserverOrder[k] = o /\ \A j \in 1..k : Answered(ObserverCall(id, ObserverOrder[j]))'
  BY <1>3, <1>4
<1>. QED
  BY <1>5 DEF OrderInv

LEMMA AnswerEvidence == ASSUME LoopInv, EvidenceInv, Answer PROVE EvidenceInv'
<1>1. /\ run # Idle /\ run.pc \in Working /\ Grown
      /\ run'.pc = run.pc /\ run'.memory = run.memory /\ run'.call = <<>> /\ run'.i = run.i
      /\ run'.events = run.events /\ run'.candidate = run.candidate
      /\ UNCHANGED <<campaign, checkpoint, report, analyses, bundle>>
  BY AnswerIs
<1>2. /\ bundle = NoFile /\ campaign.state \notin Clean /\ run.memory.iteration = campaign.iteration
      /\ run.memory.iteration < MaxIterations
  BY <1>1, GoingIs, RunIs DEF Going
<1>3. OrderInv'
  BY AnswerOrder
<1>4. \A x \in Unlogged' : x \in Unlogged \/ (run.pc \in {"train", "score"} /\ Present(x))
  BY <1>1, EvaluatedGrows DEF Unlogged
<1>5. /\ \A i : TrainedUpTo(i) => TrainedUpTo(i)'
      /\ \A i, c : ScoredUpTo(i, c) => ScoredUpTo(i, c)'
      /\ Settled => Settled'
      /\ \A c : Proposes(c) => Proposes(c)'
      /\ \A id, i : (InTrain(id, i) => InTrain(id, i)') /\ (InScore(id, i) => InScore(id, i)')
  BY <1>1, OrderGrows
<1>6. Diagnosed => Diagnosed'
  BY <1>1, DiagnosisStays
<1>7. PendingInv'
  <2>1. ASSUME NEW x \in Unlogged' PROVE InTrain(x, 1) \/ InScore(x, 1)
    <3>1. CASE x \in Unlogged
      BY <1>2, <3>1 DEF EvidenceInv, PendingInv, Pending
    <3>2. CASE run.pc \in {"train", "score"} /\ Present(x)
      BY <1>1, <3>2, PresentPending
    <3>. QED
      BY <1>4, <3>1, <3>2
  <2>2. \A x \in Unlogged' : InTrain(x, 1)' \/ InScore(x, 1)'
    BY <1>5, <2>1
  <2>. QED
    BY <1>1, <1>2, <2>2 DEF PendingInv, Pending
<1>8. LogInv'
  <2>1. Evaluated \subseteq Evaluated'
    BY EvaluatedGrows
  <2>2. ASSUME checkpoint # NoFile, NEW id \in DOMAIN checkpoint, NEW o \in Observers
        PROVE  Answered(ObserverCall(id, o))' /\ checkpoint[id].observers[o] = Slot(id[1], id[2], o)'
    <3>1. Answered(ObserverCall(id, o)) /\ checkpoint[id].observers[o] = Slot(id[1], id[2], o)
      BY <2>2 DEF EvidenceInv, LogInv
    <3>2. Answered(ObserverCall(id, o))' /\ cache'[ObserverCall(id, o)] = cache[ObserverCall(id, o)]
      BY <1>1, <3>1, DoneGrows
    <3>3. Slot(id[1], id[2], o)' = Slot(id[1], id[2], o)
      BY <3>2 DEF Slot, ObserverCall
    <3>. QED
      BY <3>1, <3>2, <3>3
  <2>3. checkpoint # NoFile => DOMAIN checkpoint \subseteq Evaluated'
    BY <2>1 DEF EvidenceInv, LogInv
  <2>. QED
    BY <1>1, <2>2, <2>3 DEF LogInv
<1>9. RecordInv'
  BY <1>1, <1>2 DEF RecordInv
<1>10. CallInv'
  BY <1>1 DEF CallInv
<1>11. PlaceInv'
  <2>1. checkpoint # NoFile /\ run.events = checkpoint
    BY <1>1 DEF EvidenceInv, PlaceInv
  <2>2. CASE run.pc = "train"
    <3>1. TrainedUpTo(run.i) /\ \A x \in Unlogged : InTrain(x, run.i) \/ InScore(x, 1)
      BY <1>1, <2>2 DEF EvidenceInv, PlaceInv
    <3>2. \A x \in Unlogged' : InTrain(x, run.i) \/ InScore(x, 1)
      BY <1>1, <1>4, <2>2, <3>1, PresentPending
    <3>3. \A i : i = run.i => TrainedUpTo(i)' /\ \A x \in Unlogged' : InTrain(x, i)' \/ InScore(x, 1)'
      BY <1>5, <3>1, <3>2
    <3>4. TrainedUpTo(run.i)' /\ \A x \in Unlogged' : InTrain(x, run.i)' \/ InScore(x, 1)'
      BY <1>1, <3>3
    <3>. QED
      BY <1>1, <1>2, <2>1, <2>2, <3>4 DEF PlaceInv
  <2>3. CASE run.pc \in {"differential", "propose"}
    <3>1. Diagnosed' /\ (run.pc = "propose" => Settled')
      BY <1>1, <1>5, <1>6, <2>3 DEF EvidenceInv, PlaceInv
    <3>2. \A x \in Unlogged' : InScore(x, 1)
      BY <1>1, <1>4, <2>3 DEF EvidenceInv, PlaceInv
    <3>3. \A x \in Unlogged' : InScore(x, 1)'
      BY <1>5, <3>2
    <3>. QED
      BY <1>1, <1>2, <2>1, <2>3, <3>1, <3>3 DEF PlaceInv
  <2>4. CASE run.pc = "score"
    <3>1. /\ Proposes(run.candidate) /\ ScoredUpTo(run.i, run.candidate)
          /\ \A x \in Unlogged : InScore(x, run.i)
      BY <1>1, <2>4 DEF EvidenceInv, PlaceInv
    <3>2. \A x \in Unlogged' : InScore(x, run.i)
      BY <1>1, <1>4, <2>4, <3>1, PresentPending
    <3>3. \A i, c : i = run.i /\ c = run.candidate =>
            Proposes(c)' /\ ScoredUpTo(i, c)' /\ \A x \in Unlogged' : InScore(x, i)'
      BY <1>5, <3>1, <3>2
    <3>4. Proposes(run.candidate)' /\ ScoredUpTo(run.i, run.candidate)' /\ \A x \in Unlogged' : InScore(x, run.i)'
      BY <1>1, <3>3
    <3>. QED
      BY <1>1, <1>2, <2>1, <2>4, <3>4 DEF PlaceInv
  <2>. QED
    BY <1>1, <2>2, <2>3, <2>4 DEF Working
<1>12. EndInv'
  BY <1>1 DEF EndInv, Previewing, Stopped, Working
<1>. QED
  BY <1>3, <1>7, <1>8, <1>9, <1>10, <1>11, <1>12 DEF EvidenceInv

LEMMA InitEvidence == ASSUME Init PROVE EvidenceInv
<1>1. /\ DOMAIN cache = {} /\ checkpoint = NoFile /\ bundle = NoFile /\ run = Idle
      /\ campaign.state = "absent"
  BY DEF Init, Nothing, Absent
<1>2. Evaluated = {}
  BY <1>1 DEF Evaluated
<1>3. \A call : ~Answered(call)
  BY <1>1 DEF Answered
<1>4. PendingInv
  BY <1>1 DEF PendingInv, Unlogged
<1>5. OrderInv
  BY <1>2, <1>3 DEF OrderInv
<1>6. CallInv /\ PlaceInv /\ EndInv
  BY <1>1 DEF CallInv, PlaceInv, EndInv
<1>7. LogInv /\ RecordInv
  BY <1>1 DEF LogInv, RecordInv, Clean
<1>. QED
  BY <1>4, <1>5, <1>6, <1>7 DEF EvidenceInv

LEMMA IdleEvidence == ASSUME LoopInv, EvidenceInv, UNCHANGED vars PROVE EvidenceInv'
<1>1. UNCHANGED <<campaign, cache, budget, checkpoint, report, differential, summary, bundle, run, trouble>>
  BY DEF vars, calls, agreement, analyses
<1>2. Calls' = Calls
  <2>1. Analysed' = Analysed /\ Chosen' = Chosen
    BY <1>1, SameAnswers
  <2>2. ScoredCase' = ScoredCase /\ ScoredPolicy' = ScoredPolicy
    BY <1>1 DEF ScoredCase, ScoredPolicy
  <2>. QED
    BY <1>1, <2>1, <2>2 DEF Calls, At
<1>3. CallInv'
  <2>1. \A call : Answered(call)' = Answered(call)
    BY <1>1, SameAnswers
  <2>2. Failed(Calls)' = Failed(Calls)
    BY <1>1, <1>2 DEF Failed, Answered
  <2>3. \A n : Answered(Calls[n])' = Answered(Calls[n])
    BY <1>1, <1>2 DEF Answered
  <2>. QED
    BY <1>1, <1>2, <2>2, <2>3 DEF EvidenceInv, CallInv
<1>4. PlaceInv'
  <2>1. SameOrder
    BY <1>1, OrderSame
  <2>2. Diagnosed' = Diagnosed /\ Settled' = Settled
    BY <1>1, SameAnswers
  <2>3. \A i : TrainedUpTo(i)' = TrainedUpTo(i)
    BY <1>1, SameAnswers
  <2>4. \A i, c : ScoredUpTo(i, c)' = ScoredUpTo(i, c)
    BY <1>1, SameAnswers
  <2>. QED
    BY <1>1, <2>1, <2>2, <2>3, <2>4 DEF EvidenceInv, PlaceInv, SameOrder, SamePath
<1>5. EndInv'
  <2>1. /\ \A events : LogComplete(events)' = LogComplete(events)
        /\ \A r, goal : Truthful(r, goal)' = Truthful(r, goal)
        /\ AllAnswered' = AllAnswered
    BY <1>1, TruthStays
  <2>2. Analyses' = Analyses
    BY <1>1 DEF Analyses
  <2>3. \A m : Filed(m)' = Filed(m) /\ Summed(m)' = Summed(m)
    BY <1>1, RecordStays DEF analyses
  <2>. QED
    BY <1>1, <2>1, <2>2, <2>3 DEF EvidenceInv, EndInv
<1>6. UNCHANGED <<campaign, report, analyses, bundle>>
  BY <1>1 DEF analyses
<1>. QED
  BY <1>1, <1>3, <1>4, <1>5, <1>6, ProcessStep

LEMMA EvidenceStep == ASSUME LoopInv, LoopInv', EvidenceInv, [Next]_vars PROVE EvidenceInv'
<1>1. CASE run = Idle
  <2>1. CASE Start
    BY <2>1, StartEvidence
  <2>2. CASE Resume
    BY <2>2, ResumeEvidence
  <2>3. CASE ResumePreview
    BY <2>3, ResumePreviewEvidence
  <2>4. CASE UNCHANGED vars
    BY <2>4, IdleEvidence
  <2>5. run.pc = "idle"
    BY <1>1 DEF Idle
  <2>6. ~Step /\ ~Trouble
    BY <1>1, <2>5 DEF Step, Trouble, Answer, Audit, Open, Iterate, Diagnose, PersistReport, PersistSummary,
       InstallBundle, Write, Cleanup, Count, EvaluateTrain, Score, Analyse, Propose, Pass, Reject,
       CallFails, DraftRefused, Exhaust, AuditFails, OpenFails, Fault, Kill, Due, At
  <2>. QED
    BY <2>1, <2>2, <2>3, <2>4, <2>6 DEF Next, Command
<1>2. CASE run # Idle
  <2>1. CASE Answer
    BY <2>1, AnswerEvidence
  <2>2. CASE Audit
    BY <1>2, <2>2, AuditEvidence
  <2>3. CASE Open
    BY <1>2, <2>3, OpenEvidence
  <2>4. CASE Iterate
    BY <1>2, <2>4, IterateEvidence
  <2>5. CASE Diagnose
    BY <1>2, <2>5, DiagnoseEvidence
  <2>6. CASE PersistReport
    BY <1>2, <2>6, PersistReportEvidence
  <2>7. CASE PersistSummary
    BY <1>2, <2>7, PersistSummaryEvidence
  <2>8. CASE InstallBundle
    BY <1>2, <2>8, InstallBundleEvidence
  <2>9. CASE Write
    BY <1>2, <2>9, WriteEvidence
  <2>10. CASE Cleanup
    BY <1>2, <2>10, CleanupEvidence
  <2>11. CASE Count
    BY <2>11, CountEvidence
  <2>12. CASE EvaluateTrain
    BY <1>2, <2>12, EvaluateTrainEvidence
  <2>13. CASE Score
    BY <1>2, <2>13, ScoreEvidence
  <2>14. CASE Analyse
    BY <1>2, <2>14, AnalyseEvidence
  <2>15. CASE Propose
    BY <1>2, <2>15, ProposeEvidence
  <2>16. CASE Pass
    BY <1>2, <2>16, PassEvidence
  <2>17. CASE Reject
    BY <1>2, <2>17, RejectEvidence
  <2>18. CASE Exhaust
    BY <1>2, <2>18, ExhaustEvidence
  <2>19. CASE Trouble \/ CallFails \/ DraftRefused
    BY <1>2, <2>19, TroubleEvidence
  <2>20. CASE UNCHANGED vars
    BY <2>20, IdleEvidence
  <2>21. ~Command
    BY <1>2 DEF Command, Start, Resume, ResumePreview
  <2>22. Next => \/ Command \/ Answer \/ Audit \/ Open \/ Iterate \/ Diagnose
                 \/ PersistReport \/ PersistSummary \/ InstallBundle \/ Write \/ Cleanup
                 \/ Count \/ EvaluateTrain \/ Score \/ Analyse \/ Propose \/ Pass \/ Reject
                 \/ Exhaust \/ (Trouble \/ CallFails \/ DraftRefused)
    BY DEF Next, Step
  <2>. QED
    BY <2>1, <2>2, <2>3, <2>4, <2>5, <2>6, <2>7, <2>8, <2>9, <2>10, <2>11, <2>12, <2>13, <2>14, <2>15,
       <2>16, <2>17, <2>18, <2>19, <2>20, <2>21, <2>22
<1>. QED
  BY <1>1, <1>2

LEMMA EvidenceAlways == Spec => [](LoopInv /\ EvidenceInv)
<1>1. Init => EvidenceInv
  BY InitEvidence
<1>2. LoopInv /\ LoopInv' /\ EvidenceInv /\ [Next]_vars => EvidenceInv'
  BY EvidenceStep
<1>. QED
  BY <1>1, <1>2, LoopAlways, PTL DEF Spec

-----------------------------------------------------------------------------
(* An agreement report of finitely many events is consistent.                 *)
(* The events of a report, counted by partition.                              *)
LEMMA EventsCounted ==
  ASSUME NEW events, IsFiniteSet(DOMAIN events), NEW P, IsFiniteSet(P),
         \A id \in DOMAIN events : events[id].partition \in P
  PROVE  MapThenSumSet(LAMBDA p : Cardinality(In(events, p)), P) = Cardinality(DOMAIN events)
<1> DEFINE Among(Q) == {id \in DOMAIN events : events[id].partition \in Q}
           W == [p \in P |-> Cardinality(In(events, p))]
           Eq(i) == i = [T \in SUBSET P |->
                          IF T = {} THEN 0
                          ELSE LET p == CHOOSE p \in T : TRUE IN Cardinality(In(events, p)) + i[T \ {p}]]
           it == CHOOSE i : Eq(i)
<1>1. /\ \A p : IsFiniteSet(In(events, p)) /\ Cardinality(In(events, p)) \in Nat
      /\ \A Q : IsFiniteSet(Among(Q)) /\ Cardinality(Among(Q)) \in Nat
  BY FS_Subset, FS_CardinalityType DEF In
<1>2. W \in [P -> Int]
  BY <1>1
<1>3. \A p \in P : W[p] = Cardinality(In(events, p))
  OBVIOUS
<1>4. \A i : Eq(i) <=> i = [T \in SUBSET P |->
                            IF T = {} THEN 0 ELSE LET p == CHOOSE p \in T : TRUE IN W[p] + i[T \ {p}]]
  <2>1. \A T \in SUBSET P : T # {} => (CHOOSE p \in T : TRUE) \in P
    OBVIOUS
  <2> HIDE DEF W
  <2>. QED
    BY <1>3, <2>1
<1>5. PICK g : Sums(g, W, P)
  <2> HIDE DEF W
  <2>. QED
    BY <1>2, SumsExist
<1>6. Eq(g)
  <2> HIDE DEF W, Eq
  <2>. QED
    BY <1>4, <1>5 DEF Sums
<1>7. Eq(it)
  <2> HIDE DEF Eq
  <2>. QED
    BY <1>6
<1>8. Sums(it, W, P)
  <2> HIDE DEF W, Eq, it
  <2>. QED
    BY <1>2, <1>4, <1>7, SumsAre
<1>9. MapThenSumSet(LAMBDA p : Cardinality(In(events, p)), P) = it[P]
  BY DEF MapThenSumSet, MapThenFoldSet
<1> DEFINE F == {Q \in SUBSET P : it[Q] = Cardinality(Among(Q))}
<1>10. {} \in F
  <2>1. it[{}] = 0
    <3> HIDE DEF it, W
    <3>. QED
      BY <1>8 DEF Sums
  <2>2. Among({}) = {}
    OBVIOUS
  <2>3. Cardinality(Among({})) = 0
    BY <2>2, FS_EmptySet
  <2> HIDE DEF it, Among
  <2>. QED
    BY <2>1, <2>3
<1>11. ASSUME NEW Q \in SUBSET P, NEW p \in P \ Q, Q \in F PROVE Q \cup {p} \in F
  <2>1. PICK U \in SUBSET P : U = Q \cup {p}
    OBVIOUS
  <2>2. p \in U /\ U \ {p} = Q
    BY <2>1
  <2>3. it[U] = W[p] + it[Q]
    <3> HIDE DEF it, W
    <3>. QED
      BY <1>2, <1>8, <2>2, SumStep DEF TakenFirst
  <2>4. Among(U) = Among(Q) \cup In(events, p) /\ Among(Q) \cap In(events, p) = {}
    BY <2>1 DEF In
  <2>5. Cardinality(Among(U)) = Cardinality(Among(Q)) + Cardinality(In(events, p)) - Cardinality({})
    <3> HIDE DEF Among
    <3>. QED
      BY <1>1, <2>4, FS_Union
  <2>6. W[p] = Cardinality(In(events, p)) /\ it[Q] = Cardinality(Among(Q)) /\ Cardinality({}) = 0
    BY <1>3, <1>11, FS_EmptySet
  <2>7. it[U] = Cardinality(Among(U))
    <3> HIDE DEF it, W, Among
    <3>. QED
      BY <1>1, <2>3, <2>5, <2>6
  <2>. QED
    BY <2>1, <2>7
<1>12. P \in F
  <2> HIDE DEF F
  <2>1. SUBSET P \subseteq F
    BY <1>10, <1>11, SubsetsInFamily
  <2>. QED
    BY <2>1
<1>13. Among(P) = DOMAIN events
  OBVIOUS
<1> HIDE DEF it, Among
<1>. QED
  BY <1>9, <1>12, <1>13


LEMMA SlotIs ==
  ASSUME NEW S, NEW events \in Logs(S), NEW id \in S, NEW o \in Observers, NEW d \in Dimensions
  PROVE  /\ events[id].partition \in Partitions \cup {"train"}
         /\ Compares(events[id], o) => Magnitude(Offset(events[id], o, d)) \in Nat
<1>1. /\ events[id].partition \in Partitions \cup {"train"}
      /\ events[id].primary \in [Dimensions -> Int] /\ events[id].observers[o] \in Slots
  BY DEF Logs, Events
<1>2. ASSUME Compares(events[id], o) PROVE Magnitude(Offset(events[id], o, d)) \in Nat
  <2>1. PICK slot \in Slots : slot = events[id].observers[o] /\ slot.state = "completed"
    BY <1>1, <1>2 DEF Compares
  <2>2. slot.scores \in [Dimensions -> Int]
    BY <2>1 DEF Slots
  <2>3. slot.scores[d] \in Int /\ events[id].primary[d] \in Int
    BY <1>1, <2>2
  <2>4. Offset(events[id], o, d) \in Int
    BY <2>1, <2>3 DEF Offset
  <2>. QED
    BY <2>4 DEF Magnitude
<1>. QED
  BY <1>1, <1>2

LEMMA MetricConsistent ==
  ASSUME NEW S, IsFiniteSet(S), NEW events \in Logs(S), NEW p, NEW o \in Observers, NEW d \in Dimensions
  PROVE  Metric(events, p, o, d).comparable = 0 <=> Metric(events, p, o, d).largest = Null
<1> DEFINE compared == {id \in In(events, p) : Compares(events[id], o)}
           size == [id \in compared |-> Magnitude(Offset(events[id], o, d))]
           sizes == {size[id] : id \in compared}
<1>1. compared \subseteq S /\ DOMAIN events = S
  BY DEF In, Logs
<1>2. IsFiniteSet(compared)
  BY <1>1, FS_Subset
<1>3. Metric(events, p, o, d).comparable = Cardinality(compared)
  BY DEF Metric
<1>4. Metric(events, p, o, d).largest = Largest(sizes)
  <2>1. sizes = {Magnitude(Offset(events[id], o, d)) : id \in compared}
    OBVIOUS
  <2>. QED
    BY <2>1 DEF Metric
<1>5. Cardinality(compared) = 0 <=> compared = {}
  BY <1>2, FS_EmptySet
<1>6. CASE compared = {}
  <2>1. sizes = {}
    BY <1>6
  <2>. QED
    BY <1>3, <1>4, <1>5, <1>6, <2>1 DEF Largest
<1>7. CASE compared # {}
  <2>1. \A id \in compared : size[id] \in Nat
    <3> SUFFICES ASSUME NEW id \in compared PROVE Magnitude(Offset(events[id], o, d)) \in Nat
      OBVIOUS
    <3>1. id \in S /\ Compares(events[id], o)
      BY <1>1
    <3>. QED
      BY <3>1, SlotIs
  <2>2. sizes \subseteq Nat /\ sizes # {}
    BY <1>7, <2>1
  <2>3. IsFiniteSet(sizes)
    <3>1. compared \subseteq DOMAIN size
      OBVIOUS
    <3> HIDE DEF compared, size
    <3>. QED
      BY <1>2, <3>1, ImageFinite
  <2>4. Max(sizes) \in Nat
    <3> HIDE DEF sizes
    <3>1. Max(sizes) \in sizes
      BY <2>2, <2>3, MaxOfNaturals
    <3>. QED
      BY <2>2, <3>1
  <2>5. Largest(sizes) # Null
    <3> HIDE DEF sizes
    <3>1. Largest(sizes) = Max(sizes)
      BY <2>2, Zenon DEF Largest
    <3>2. Largest(sizes) \in Nat
      BY <2>4, <3>1
    <3>. QED
      BY <3>2 DEF Null
  <2>. QED
    BY <1>3, <1>4, <1>5, <1>7, <2>5
<1>. QED
  BY <1>6, <1>7

LEMMA LogConsistent ==
  ASSUME NEW S, IsFiniteSet(S), NEW events \in Logs(S)
  PROVE  Consistent(events, Partitions \cup {"train"}, Dimensions)
<1>1. DOMAIN events = S
  BY DEF Logs
<1>2. IsFiniteSet(Partitions \cup {"train"})
  <2>1. Partitions = ({"validation"} \cup {"holdout"}) \cup {"regression"}
    BY DEF Partitions
  <2>2. IsFiniteSet({"validation"}) /\ IsFiniteSet({"validation"} \cup {"holdout"})
    BY FS_Singleton, FS_AddElement
  <2>. QED
    BY <2>1, <2>2, FS_AddElement
<1>3. \A id \in DOMAIN events : events[id].partition \in Partitions \cup {"train"}
  BY <1>1 DEF Logs, Events
<1>4. MapThenSumSet(LAMBDA p : Cardinality(In(events, p)), Partitions \cup {"train"})
        = Cardinality(DOMAIN events)
  <2>1. IsFiniteSet(DOMAIN events)
    BY <1>1
  <2>. QED
    BY <1>2, <1>3, <2>1, EventsCounted
<1>5. \A p, d : Ranges(events, In(events, p), d) = {}
                 <=> \A id \in In(events, p), o \in Observers : ~Compares(events[id], o)
  BY DEF Ranges
<1>6. \A p, d : d \in Dimensions =>
        \A o \in Observers : Metric(events, p, o, d).comparable = 0 <=> Metric(events, p, o, d).largest = Null
  BY MetricConsistent
<1>. QED
  BY <1>4, <1>5, <1>6 DEF Consistent

LEMMA EvaluatedFinite == ASSUME IsFiniteSet(DOMAIN cache) PROVE IsFiniteSet(Evaluated)
<1> DEFINE C == {k \in DOMAIN cache : k[1] = "evaluator" /\ cache[k].ok}
           f == [call \in C |-> <<call[2], call[3]>>]
<1>1. IsFiniteSet(C)
  <2>1. C \subseteq DOMAIN cache
    OBVIOUS
  <2>. QED
    BY <2>1, FS_Subset
<1>2. Evaluated = {f[call] : call \in C}
  BY DEF Evaluated
<1>3. C \subseteq DOMAIN f
  OBVIOUS
<1> HIDE DEF C, f
<1>. QED
  BY <1>1, <1>2, <1>3, ImageFinite

(* The agreement report of a clean campaign is about every evaluation its     *)
(* cache holds, with the slots that its observers' calls left and, unless the *)
(* calls ran out, a slot for each, and the summary about every analysis,      *)
(* across failures, deaths and resumption (kpo.evaluator_agreement,           *)
(* kpo.reasoning_differential, kpo.campaign).                                 *)
THEOREM LoopEvidenceComplete == Spec => []EvidenceComplete
<1>1. LoopInv /\ EvidenceInv => EvidenceComplete
  <2> SUFFICES ASSUME LoopInv, EvidenceInv, campaign.state \in Clean PROVE EvidenceComplete
    BY DEF EvidenceComplete
  <2>1. Filed(campaign) /\ Summed(campaign)
    BY DEF EvidenceInv, RecordInv
  <2>2. /\ Truthful(report, campaign.state) /\ campaign.report = report
        /\ campaign.aggregate = AgreementSummary(report.events, Dimensions)
    BY <2>1 DEF Filed
  <2>3. /\ report # NoFile /\ LogComplete(report.events)
        /\ report.collection = IF campaign.state = "budget_exhausted" THEN "budget_exhausted" ELSE "complete"
        /\ campaign.state # "budget_exhausted" => AllAnswered
    BY <2>2 DEF Truthful
  <2>4. Consistent(report.events, Partitions \cup {"train"}, Dimensions)
    <3>1. PICK S \in SUBSET Ids : report.events \in Logs(S)
      BY <2>3 DEF LoopInv, FilesTyped, IsReport, Reports
    <3>2. S = Evaluated
      BY <2>3, <3>1 DEF LogComplete, Logs
    <3>3. IsFiniteSet(S)
      BY <3>2, EvaluatedFinite DEF LoopInv, CacheTyped
    <3>. QED
      BY <3>1, <3>3, LogConsistent
  <2>5. AgreementLoads
    BY <2>2, <2>3, <2>4 DEF AgreementLoads
  <2>6. DifferentialLoads(campaign.summary) /\ summary = Analyses
    BY <2>1 DEF Summed, DifferentialLoads
  <2>7. /\ DOMAIN report.events = Evaluated
        /\ \A id \in Evaluated, o \in Observers : report.events[id].observers[o] = SlotFound(id, o)
    BY <2>3 DEF LogComplete
  <2>8. report.collection = "complete" =>
          \A id \in Evaluated, o \in Observers : Answered(<<"observer", id[1], id[2], o>>)
    BY <2>3 DEF AllAnswered, ObserverCall
  <2>. QED
    BY <2>5, <2>6, <2>7, <2>8 DEF EvidenceComplete
<1>. QED
  BY <1>1, EvidenceAlways, PTL

=============================================================================
