---------------------------- MODULE CampaignLoop ----------------------------
(***************************************************************************)
(* One optimization campaign (kpo.campaign.run_campaign), outside a series:  *)
(* the train cases are evaluated under the parent policy, the first          *)
(* patchable one is analysed (kpo.reasoning_differential) and handed to the  *)
(* proposer, and the candidate is scored against the gates, until one        *)
(* passes, none can be proposed, or iterations or calls run out.  Every call *)
(* goes through a cache on disk under a budget (kpo.campaign_cache); observer*)
(* evaluators leave an agreement checkpoint and a report.  A call that the   *)
(* cache answers changes nothing, so a process stands at its first call      *)
(* without an answer.  The profile has observers, an analyzer and an audit.  *)
(***************************************************************************)
EXTENDS VectorGates, AgreementReport, SequencesExt

CONSTANTS Train, Rest,      \* the train cases and the gated ones, in manifest order
          ObserverOrder,
          Parent, Candidates,
          Unfit,            \* drafts that propose_patch refuses
          Evaluations,      \* what the evaluator may answer, by case and policy
          Observations,     \* what an observer may answer, by observer, case and policy
          Failures,         \* kinds of ProviderFailure
          MaxCalls, MaxIterations,
          NoFile,
          MaxFailures, MaxFaults, MaxKills

VARIABLES campaign,         \* campaign.json
          cache, budget,    \* provider-cache/ and call-budget.json
          checkpoint, report,     \* of the evaluator agreement
          differential, summary,  \* iteration-*.json and their summary
          bundle,           \* promotions/previews/<campaign_id>
          run,              \* the campaign's process
          trouble           \* faults, deaths and calls without an answer so far

calls == <<cache, budget>>
agreement == <<checkpoint, report>>
analyses == <<differential, summary>>
vars == <<campaign, calls, agreement, analyses, bundle, run, trouble>>

Policies == {Parent} \cup Candidates
AllCases == ToSet(Train) \cup Cases
Ids == AllCases \X Policies

(* What an agreement report about the evaluations S, a summary of analyses    *)
(* with the failures F, and a bundle hold.                                    *)
Slots == [state : {"completed"}, scores : [Dimensions -> Int]]
           \cup [state : {"unavailable"}, kind : Failures \cup {"not_attempted_budget_exhausted"}]
Events == [partition : Partitions \cup {"train"}, primary : [Dimensions -> Int],
           observers : [Observers -> Slots]]
Findings == {"available", "budget_exhausted"} \cup Failures
Logs(S) == [S -> Events]
Reports(S) == [collection : {"complete", "budget_exhausted"}, events : Logs(S)]
Summaries(F) == [attempted : Nat, available : Nat, failures : [F -> Nat]]
Bundles(S, F) == [candidate : Candidates, report : Reports(S), summary : Summaries(F)]

(* Scores are numbers, a train case is not gated, and an absent file is none  *)
(* of what it may hold.                                                       *)
ASSUME LoopAssumption ==
  /\ Train \in Seq(ToSet(Train)) /\ Rest \in Seq(Cases) /\ ObserverOrder \in Seq(Observers)
  /\ ToSet(Rest) = Cases /\ ToSet(ObserverOrder) = Observers
  /\ ToSet(Train) \cap Cases = {} /\ Train # <<>> /\ IsInjective(Train)
  /\ Parent \notin Candidates
  /\ \A x \in Ids : /\ Evaluations[x] \subseteq [scores : [Dimensions -> Int], signals : SUBSET (0..8)]
                    /\ \A o \in Observers : Observations[<<o, x[1], x[2]>>] \subseteq [Dimensions -> Int]
  /\ NoFile \notin Nat
  /\ \A S \in SUBSET Ids : NoFile \notin Logs(S) \cup Reports(S)
  /\ \A F \in SUBSET Findings : NoFile \notin Summaries(F)
  /\ \A S \in SUBSET Ids, F \in SUBSET Findings : NoFile \notin Bundles(S, F)
  /\ MaxCalls \in Nat \ {0} /\ MaxIterations \in Nat \ {0}
  /\ MaxFailures \in Nat /\ MaxFaults \in Nat /\ MaxKills \in Nat

Put(f, x, y) == [z \in DOMAIN f \cup {x} |-> IF z = x THEN y ELSE f[z]]
Nothing == [x \in {} |-> x]

-----------------------------------------------------------------------------
(* The calls of an evaluation, of an analysis and of a proposal, in order,    *)
(* by what their cache keys tell apart.                                       *)
EvaluationCalls(case, policy) ==
  <<<<"actor", case, policy>>, <<"evaluator", case, policy>>>>
    \o [n \in DOMAIN ObserverOrder |-> <<"observer", case, policy, ObserverOrder[n]>>]
AnalysisCalls(case) ==
  <<<<"reasoning_extractor", case, "agent_rollout">>, <<"reasoning_extractor", case, "reference_artifact">>,
    <<"claim_differ", case>>, <<"differential_diagnostician", case>>>>
ProposalCalls(case, rejected, analysed) == <<<<"proposer", case, rejected, analysed>>>>

(* The responses that a provider's schema accepts; a response it does not     *)
(* accept is a failure of kind invalid_response, now and from the cache.      *)
AnalysisAnswers == {"analysis"}
Answers(call) ==
  CASE call[1] = "actor" -> {"output"}
    [] call[1] = "evaluator" -> Evaluations[<<call[2], call[3]>>]
    [] call[1] = "observer" -> Observations[<<call[4], call[2], call[3]>>]
    [] call[1] = "proposer" -> Candidates \cup Unfit
    [] OTHER -> AnalysisAnswers

Answered(call) == call \in DOMAIN cache
Uncached(C) == {n \in DOMAIN C : ~Answered(C[n])}
(* An observer that fails is recorded and passed over; any other failure ends *)
(* the sequence.                                                              *)
Failed(C) == {n \in DOMAIN C : Answered(C[n]) /\ ~cache[C[n]].ok /\ C[n][1] # "observer"}
Done(C) == Uncached(C) = {} /\ Failed(C) = {}

Evaluation(case, policy) == cache[<<"evaluator", case, policy>>].value
Scores(policy) == [c \in Cases |-> Evaluation(c, policy).scores]

(* The first observers have a slot from their answer, the others were not     *)
(* attempted.                                                                 *)
Slot(case, policy, o) ==
  LET a == cache[<<"observer", case, policy, o>>] IN IF a.ok THEN Scored(a.value) ELSE Missing(a.value)
EventUpTo(case, policy, n) ==
  Event(IF case \in Cases THEN PartitionOf[case] ELSE "train",
        Evaluation(case, policy).scores,
        [o \in Observers |->
           IF \E i \in 1..n : ObserverOrder[i] = o THEN Slot(case, policy, o)
           ELSE Missing("not_attempted_budget_exhausted")])

(* patchable[0]: the first train case whose diagnosis permits a patch.        *)
PatchableTrain == {i \in DOMAIN Train : Patchable(Evaluation(Train[i], Parent).signals)}
Chosen == Train[Min(PatchableTrain)]
Analysed == Done(AnalysisCalls(Chosen))

-----------------------------------------------------------------------------
Idle == [pc |-> "idle"]
Clean == {"promotion_previewed", "no_patchable_diagnosis", "budget_exhausted"}
Working == {"train", "differential", "propose", "score"}
Tried == Working \cup {"iterate", "report", "presummary", "bundle", "summary", "write", "cleanup"}
Absent == [state |-> "absent"]
New == [state |-> "running", iteration |-> 0, rejected |-> <<>>, audited |-> FALSE,
        candidate |-> NoFile, report |-> NoFile, aggregate |-> NoFile, summary |-> NoFile]
Seen(state) == {state.rejected[i].candidate : i \in DOMAIN state.rejected}

(* The types, the budget and the iteration limit: an interrupted last write   *)
(* may count its iteration twice (kpo.external_promotion, on resumption).     *)
TypeOK ==
  /\ campaign = Absent \/ /\ campaign.state \in {"running", "failed"} \cup Clean
                          /\ campaign.iteration \in 0..MaxIterations + MaxFaults
                          /\ Len(campaign.rejected) <= MaxIterations
                          /\ campaign.candidate \in Candidates \cup {NoFile}
  /\ budget \in {NoFile} \cup 0..MaxCalls
  /\ \A call \in DOMAIN cache :
       IF cache[call].ok THEN cache[call].value \in Answers(call) ELSE cache[call].value \in Failures
  /\ report = NoFile \/ report.collection \in {"complete", "budget_exhausted"}
  /\ DOMAIN differential \subseteq 0..MaxIterations - 1
  /\ bundle = NoFile \/ bundle.candidate \in Candidates
  /\ run = Idle \/ run.pc \in {"audit", "open"} \cup Tried
  /\ trouble.fault \in 0..MaxFaults /\ trouble.kill \in 0..MaxKills

Init ==
  /\ campaign = Absent /\ cache = Nothing /\ budget = NoFile
  /\ checkpoint = NoFile /\ report = NoFile /\ differential = Nothing /\ summary = NoFile
  /\ bundle = NoFile /\ run = Idle
  /\ trouble = [fault |-> 0, kill |-> 0, lost |-> 0]

(* The durable records; each replaces its file at once.                       *)
PersistCheckpoint(events) == checkpoint' = events
CheckpointLoads == checkpoint # NoFile
PersistAnalysis(iteration, result) == differential' = Put(differential, iteration, result)
DifferentialLoads(digest) == summary # NoFile /\ summary = digest

At(l) == run.pc = l
Goto(l) == run' = [run EXCEPT !.pc = l]
World == UNCHANGED <<bundle, trouble>>

(* state.update(...), then the terminal write; a campaign that failed in a    *)
(* handler is past every handler.                                             *)
Fails(writes) ==
  run' = [run EXCEPT !.pc = writes, !.caught = TRUE, !.call = <<>>, !.memory.state = "failed"]
Typed == "summary"   \* a kind of failure with a handler: the summary is persisted too
Bare == "write"      \* any other exception

-----------------------------------------------------------------------------
(* A command: a new campaign, or one that failed.                             *)
Process(state, new) ==
  [pc |-> "audit", fresh |-> new, caught |-> FALSE, memory |-> state, i |-> 1, events |-> Nothing,
   call |-> <<>>, candidate |-> NoFile, goal |-> "failed"]

Start ==
  /\ run = Idle /\ campaign = Absent
  /\ campaign' = New
  /\ run' = Process(New, TRUE)
  /\ UNCHANGED <<calls, agreement, analyses>> /\ World

Resume ==
  /\ run = Idle /\ campaign.state = "failed" /\ bundle = NoFile
  /\ run' = Process(campaign, FALSE)
  /\ UNCHANGED <<campaign, calls, agreement, analyses>> /\ World

(* resume_campaign_promotion_preview: a campaign whose bundle was installed   *)
(* is finished from the bundle, also when its process died.                   *)
ResumePreview ==
  /\ run = Idle /\ campaign.state \in {"running", "failed"} /\ bundle # NoFile
  /\ report = bundle.report /\ DifferentialLoads(bundle.summary) /\ budget # NoFile
  /\ campaign' = [campaign EXCEPT !.state = "promotion_previewed", !.iteration = @ + 1,
                    !.candidate = bundle.candidate, !.report = report,
                    !.aggregate = AgreementSummary(report.events, Dimensions), !.summary = summary]
  /\ run' = [Process(campaign', FALSE) EXCEPT !.pc = "cleanup", !.caught = TRUE]
  /\ UNCHANGED <<calls, agreement, analyses>> /\ World

(* The audit (EvaluatorAudit) binds its artifacts, or it fails the campaign.  *)
Audit ==
  /\ At("audit")
  /\ run' = [run EXCEPT !.pc = "open", !.memory.audited = TRUE]
  /\ campaign' = run'.memory
  /\ UNCHANGED <<calls, agreement, analyses>> /\ World

AuditFails ==
  /\ At("audit") /\ trouble.fault < MaxFaults
  /\ trouble' = [trouble EXCEPT !.fault = @ + 1]
  /\ Fails(Typed)
  /\ UNCHANGED <<campaign, calls, agreement, analyses, bundle>>

(* Mutant: a resumed campaign starts an empty collector.                      *)
OpenFresh ==
  /\ At("open")
  /\ budget' = IF budget = NoFile THEN 0 ELSE budget
  /\ run' = [run EXCEPT !.pc = "iterate"]
  /\ PersistCheckpoint(Nothing)
  /\ UNCHANGED <<campaign, cache, report, analyses>> /\ World

(* The executor opens the budget; the collector is new with a new campaign    *)
(* and comes from its checkpoint with an old one, or the campaign fails.      *)
Open ==
  /\ At("open")
  /\ budget' = IF budget = NoFile THEN 0 ELSE budget
  /\ CASE run.fresh -> PersistCheckpoint(Nothing) /\ Goto("iterate")
       [] ~run.fresh /\ CheckpointLoads ->
            run' = [run EXCEPT !.pc = "iterate", !.events = checkpoint] /\ UNCHANGED checkpoint
       [] OTHER -> Fails(Typed) /\ UNCHANGED checkpoint
  /\ UNCHANGED <<campaign, cache, report, analyses>> /\ World

OpenFails ==
  /\ At("open") /\ run.fresh /\ trouble.fault < MaxFaults
  /\ trouble' = [trouble EXCEPT !.fault = @ + 1]
  /\ budget' = 0
  /\ Fails(Typed)
  /\ UNCHANGED <<campaign, cache, agreement, analyses, bundle>>

-----------------------------------------------------------------------------
(* CampaignCallExecutor.invoke: the calls of the present step, the count      *)
(* before the call and the answer, a failure too, after it.                   *)
ScoredCase == Rest[((run.i - 1) \div 3) + 1]
ScoredPolicy == IF run.i % 3 = 2 THEN run.candidate ELSE Parent
Calls ==
  CASE At("train") -> IF run.i \in DOMAIN Train THEN EvaluationCalls(Train[run.i], Parent) ELSE <<>>
    [] At("differential") -> AnalysisCalls(Chosen)
    [] At("propose") -> ProposalCalls(Chosen, run.memory.rejected, Analysed)
    [] At("score") -> IF run.i \in 1..3 * Len(Rest) THEN EvaluationCalls(ScoredCase, ScoredPolicy) ELSE <<>>
    [] OTHER -> <<>>
Due == /\ run # Idle /\ run.pc \in Working /\ run.call = <<>>
       /\ LET C == Calls IN Failed(C) = {} /\ Uncached(C) # {}
NextCall == Min(Uncached(Calls))

(* Mutant: the budget is compared after the call is counted.                  *)
CountOver ==
  /\ Due /\ budget <= MaxCalls
  /\ budget' = budget + 1
  /\ run' = [run EXCEPT !.call = Calls[NextCall]]
  /\ UNCHANGED <<campaign, cache, agreement, analyses>> /\ World

Count ==
  /\ Due /\ budget < MaxCalls
  /\ budget' = budget + 1
  /\ run' = [run EXCEPT !.call = Calls[NextCall]]
  /\ UNCHANGED <<campaign, cache, agreement, analyses>> /\ World

FailuresSoFar == {call \in DOMAIN cache : ~cache[call].ok}
Outcomes(call) ==
  {[ok |-> TRUE, value |-> v] : v \in Answers(call)}
    \cup (IF Cardinality(FailuresSoFar) < MaxFailures
          THEN {[ok |-> FALSE, value |-> k] : k \in Failures} ELSE {})

(* Mutant: only completed responses are cached.                               *)
AnswerCompleted ==
  /\ run # Idle /\ run.call # <<>>
  /\ \E a \in Outcomes(run.call) :
       IF a.ok THEN cache' = Put(cache, run.call, a) /\ run' = [run EXCEPT !.call = <<>>]
       ELSE UNCHANGED cache /\ Fails(Typed)
  /\ UNCHANGED <<campaign, budget, agreement, analyses>> /\ World

Answer ==
  /\ run # Idle /\ run.call # <<>>
  /\ \E a \in Outcomes(run.call) : cache' = Put(cache, run.call, a)
  /\ run' = [run EXCEPT !.call = <<>>]
  /\ UNCHANGED <<campaign, budget, agreement, analyses>> /\ World

(* A failure of the actor, the evaluator or the proposer, now or when it was  *)
(* cached, fails the campaign.  A draft that propose_patch refuses is raised  *)
(* as any other error.                                                        *)
CallFails ==
  /\ At("train") \/ At("score") \/ At("propose")
  /\ run.call = <<>> /\ Failed(Calls) # {}
  /\ Fails(Typed)
  /\ UNCHANGED <<campaign, calls, agreement, analyses>> /\ World

DraftRefused ==
  /\ At("propose") /\ Done(Calls) /\ cache[Calls[1]].value \in Unfit
  /\ Fails(Bare)
  /\ UNCHANGED <<campaign, calls, agreement, analyses>> /\ World

(* BudgetExhausted: within the observers, the ones from the next on were not  *)
(* attempted; within an analysis, the iteration records it.                   *)
Exhaust ==
  /\ Due /\ budget = MaxCalls
  /\ LET evaluated == (At("train") \/ At("score")) /\ NextCall > 2
         case == Calls[1][2]
         policy == Calls[1][3]
         partial == EventUpTo(case, policy, NextCall - 3)
     IN  run' = [run EXCEPT !.pc = "report", !.goal = "budget_exhausted", !.caught = TRUE,
                   !.events = IF evaluated THEN Put(@, <<case, policy>>, partial) ELSE @]
  /\ IF At("differential") THEN PersistAnalysis(run.memory.iteration, "budget_exhausted")
     ELSE UNCHANGED differential
  /\ UNCHANGED <<campaign, calls, agreement, summary>> /\ World

-----------------------------------------------------------------------------
(* The iterations.                                                            *)
Conclude(goal) == [run EXCEPT !.pc = "report", !.goal = goal]

Iterate ==
  /\ At("iterate")
  /\ IF run.memory.iteration < MaxIterations
     THEN /\ run' = [run EXCEPT !.pc = "train", !.i = 1, !.memory.state = "running"]
          /\ campaign' = run'.memory
     ELSE run' = Conclude("budget_exhausted") /\ UNCHANGED campaign
  /\ UNCHANGED <<calls, agreement, analyses>> /\ World

(* Every call of the evaluation is answered: its event is recorded, and the   *)
(* checkpoint persisted.                                                      *)
Record(case, policy) ==
  /\ run' = [run EXCEPT !.i = @ + 1,
               !.events = Put(@, <<case, policy>>, EventUpTo(case, policy, Len(ObserverOrder)))]
  /\ PersistCheckpoint(run'.events)
  /\ UNCHANGED <<campaign, calls, report, analyses>> /\ World

EvaluateTrain ==
  /\ At("train") /\ run.i \in DOMAIN Train /\ Done(Calls)
  /\ Record(Train[run.i], Parent)

Diagnose ==
  /\ At("train") /\ run.i > Len(Train)
  /\ run' = IF PatchableTrain = {} THEN Conclude("no_patchable_diagnosis")
            ELSE [run EXCEPT !.pc = "differential"]
  /\ UNCHANGED <<campaign, calls, agreement, analyses>> /\ World

(* The analysis is advisory: its failure is recorded and passed over.         *)
Analyse ==
  /\ At("differential") /\ run.call = <<>>
  /\ Done(Calls) \/ Failed(Calls) # {}
  /\ PersistAnalysis(run.memory.iteration,
                     IF Done(Calls) THEN "available" ELSE cache[Calls[Min(Failed(Calls))]].value)
  /\ Goto("propose")
  /\ UNCHANGED <<campaign, calls, agreement, summary>> /\ World

Propose ==
  /\ At("propose") /\ Done(Calls) /\ cache[Calls[1]].value \in Candidates
  /\ LET candidate == cache[Calls[1]].value
     IN  run' = IF candidate \in Seen(run.memory) THEN Conclude("no_patchable_diagnosis")
                ELSE [run EXCEPT !.pc = "score", !.i = 1, !.candidate = candidate]
  /\ UNCHANGED <<campaign, calls, agreement, analyses>> /\ World

Score ==
  /\ At("score") /\ run.i \in 1..3 * Len(Rest) /\ Done(Calls)
  /\ Record(ScoredCase, ScoredPolicy)

Rejection ==
  [candidate |-> run.candidate,
   deltas |-> [p \in {"validation", "regression"} |->
                 [d \in Dimensions |-> Gain(Gated(p), d, Scores(Parent), Scores(run.candidate))]],
   failed |-> FailedGates(Scores(Parent), Scores(run.candidate))]

Pass ==
  /\ At("score") /\ run.i > 3 * Len(Rest) /\ Passed(Scores(Parent), Scores(run.candidate))
  /\ run' = Conclude("promotion_previewed")
  /\ UNCHANGED <<campaign, calls, agreement, analyses>> /\ World

Reject ==
  /\ At("score") /\ run.i > 3 * Len(Rest) /\ ~Passed(Scores(Parent), Scores(run.candidate))
  /\ run' = [run EXCEPT !.pc = "iterate", !.memory.iteration = @ + 1,
               !.memory.rejected = Append(@, Rejection)]
  /\ campaign' = run'.memory
  /\ UNCHANGED <<calls, agreement, analyses>> /\ World

-----------------------------------------------------------------------------
(* The end: the agreement report, for a preview the summary and the bundle,   *)
(* the summary, campaign.json, and the checkpoint removed.                    *)
Report == [collection |-> IF run.goal = "budget_exhausted" THEN "budget_exhausted" ELSE "complete",
           events |-> run.events]
Ended(memory) ==
  [memory EXCEPT !.state = run.goal, !.report = report', !.aggregate = AgreementSummary(report'.events, Dimensions)]

PersistReport ==
  /\ At("report")
  /\ report' = Report
  /\ run' = IF run.goal = "promotion_previewed" THEN [run EXCEPT !.pc = "presummary"]
            ELSE [run EXCEPT !.pc = "summary", !.memory = Ended(@)]
  /\ UNCHANGED <<campaign, calls, checkpoint, analyses>> /\ World

(* persist_differential_summary counts the iteration files that exist.        *)
Analyses ==
  [attempted |-> Cardinality(DOMAIN differential),
   available |-> Cardinality({n \in DOMAIN differential : differential[n] = "available"}),
   failures |-> [k \in {differential[n] : n \in DOMAIN differential} \ {"available"} |->
                   Cardinality({n \in DOMAIN differential : differential[n] = k})]]

PersistSummary ==
  /\ At("presummary") \/ At("summary")
  /\ summary' = Analyses
  /\ run' = IF At("presummary") THEN [run EXCEPT !.pc = "bundle"]
            ELSE [run EXCEPT !.pc = "write", !.memory.summary = summary']
  /\ UNCHANGED <<campaign, calls, agreement, differential>> /\ World

InstallBundle ==
  /\ At("bundle")
  /\ bundle' = [candidate |-> run.candidate, report |-> report, summary |-> summary]
  /\ UNCHANGED report
  /\ run' = [run EXCEPT !.pc = "summary",
               !.memory = [Ended(run.memory) EXCEPT !.iteration = @ + 1, !.candidate = run.candidate]]
  /\ UNCHANGED <<campaign, calls, checkpoint, analyses, trouble>>

(* Mutant: the checkpoint of a failed campaign is removed as well.            *)
WriteClean ==
  /\ At("write")
  /\ campaign' = run.memory
  /\ Goto("cleanup")
  /\ UNCHANGED <<calls, agreement, analyses>> /\ World

Write ==
  /\ At("write")
  /\ campaign' = run.memory
  /\ run' = IF run.memory.state = "failed" THEN Idle ELSE [run EXCEPT !.pc = "cleanup"]
  /\ UNCHANGED <<calls, agreement, analyses>> /\ World

Cleanup ==
  /\ At("cleanup")
  /\ checkpoint' = NoFile
  /\ run' = Idle
  /\ UNCHANGED <<campaign, calls, report, analyses>> /\ World

-----------------------------------------------------------------------------
(* An exception in the try block.  Lost integrity, a report or a checkpoint   *)
(* that cannot be written have handlers, any other error or an interrupt has  *)
(* not; the handler of BudgetExhausted catches a report it cannot write.  A   *)
(* call in flight has no answer then.                                         *)
Lost == IF run.call = <<>> THEN trouble.lost ELSE trouble.lost + 1
Handled ==
  \/ run.call # <<>> \/ At("report") \/ At("bundle")
  \/ (At("train") \/ At("score")) /\ Calls # <<>> /\ Done(Calls)

Fault ==
  /\ run # Idle /\ run.pc \in Tried /\ trouble.fault < MaxFaults
  /\ \/ Handled /\ (~run.caught \/ At("report")) /\ Fails(Typed)
     \/ ~run.caught /\ Fails(Bare)
  /\ trouble' = [trouble EXCEPT !.fault = @ + 1, !.lost = Lost]
  /\ UNCHANGED <<campaign, calls, agreement, analyses, bundle>>

(* The death of the process, or an exception outside the try block.           *)
Kill ==
  /\ run # Idle /\ trouble.kill < MaxKills
  /\ trouble' = [trouble EXCEPT !.kill = @ + 1, !.lost = Lost]
  /\ run' = Idle
  /\ UNCHANGED <<campaign, calls, agreement, analyses, bundle>>

Command == Start \/ Resume \/ ResumePreview
Step ==
  \/ Answer \/ Audit \/ Open \/ Iterate \/ Diagnose
  \/ PersistReport \/ PersistSummary \/ InstallBundle \/ Write \/ Cleanup
  \/ Count \/ EvaluateTrain \/ Score \/ Analyse \/ Propose \/ Pass \/ Reject
  \/ CallFails \/ DraftRefused \/ Exhaust
Trouble == AuditFails \/ OpenFails \/ Fault \/ Kill
Next == Command \/ Step \/ Trouble
Spec == Init /\ [][Next]_vars
FairSpec == Spec /\ WF_vars(Step) /\ WF_vars(Resume \/ ResumePreview)

-----------------------------------------------------------------------------
(* The budget counts every call once, across failures, deaths and resumption: *)
(* each has an answer in the cache, a failed one too, or was lost in flight,  *)
(* so no answered call is made again (kpo.campaign_cache).                    *)
CallsAccounted ==
  IF budget = NoFile THEN cache = Nothing
  ELSE budget = Cardinality(DOMAIN cache) + trouble.lost
                  + (IF run # Idle /\ run.call # <<>> THEN 1 ELSE 0)

(* load_agreement_report, of a clean campaign.                                *)
AgreementLoads ==
  /\ report # NoFile /\ campaign.report = report
  /\ Consistent(report.events, Partitions \cup {"train"}, Dimensions)
  /\ report.collection = IF campaign.state = "budget_exhausted" THEN "budget_exhausted" ELSE "complete"
  /\ campaign.aggregate = AgreementSummary(report.events, Dimensions)

(* The evidence of a clean campaign loads.  Its agreement report is about     *)
(* every evaluation of the campaign, of whatever iteration or command, with   *)
(* the slots its observers' calls left, and its summary about every analysis  *)
(* (kpo.evaluator_agreement, kpo.reasoning_differential, kpo.campaign).       *)
Evaluated == {<<call[2], call[3]>> : call \in {k \in DOMAIN cache : k[1] = "evaluator" /\ cache[k].ok}}
SlotFound(id, o) ==
  IF Answered(<<"observer", id[1], id[2], o>>) THEN Slot(id[1], id[2], o)
  ELSE Missing("not_attempted_budget_exhausted")
EvidenceComplete ==
  campaign.state \in Clean =>
    /\ AgreementLoads /\ DifferentialLoads(campaign.summary) /\ summary = Analyses
    /\ DOMAIN report.events = Evaluated
    /\ \A id \in Evaluated, o \in Observers :
         /\ report.events[id].observers[o] = SlotFound(id, o)
         /\ report.collection = "complete" => Answered(<<"observer", id[1], id[2], o>>)

(* A campaign previews only a candidate that no iteration rejected and whose  *)
(* cached scores reach every gate, holdout and ablation too, also when a      *)
(* later command finished it; what it rejected failed one, and once each.     *)
ReachesAll(candidate) ==
  \A gate \in Gates, d \in Dimensions : Reaches(gate, d, Scores(Parent), Scores(candidate))
PreviewJustified ==
  /\ bundle # NoFile => ReachesAll(bundle.candidate) /\ bundle.candidate \notin Seen(campaign)
  /\ campaign.state = "promotion_previewed" =>
       bundle # NoFile /\ campaign.candidate = bundle.candidate
  /\ campaign # Absent =>
       /\ Cardinality(Seen(campaign)) = Len(campaign.rejected)
       /\ \A c \in Seen(campaign) : ~ReachesAll(c)

(* A failed campaign that has its checkpoint or its bundle comes to a clean   *)
(* end when it is resumed, unless a provider's failure is in the cache for    *)
(* good or the process dies as the campaign runs (kpo.campaign).              *)
Resumable == campaign.state = "failed" /\ (checkpoint # NoFile \/ bundle # NoFile)
Refused == \E call \in DOMAIN cache :
             \/ call[1] \in {"actor", "evaluator", "proposer"} /\ ~cache[call].ok
             \/ call[1] = "proposer" /\ cache[call].value \in Unfit
Abandoned == campaign.state = "running" /\ run = Idle /\ bundle = NoFile
ResumeConcludes == Resumable ~> (campaign.state \in Clean \/ Refused \/ Abandoned)

=============================================================================
