------------------------ MODULE SeriesGeneralization ------------------------
(***************************************************************************)
(* `series generalize` (kpo.campaign_series.generalize_series): the untouched *)
(* cases of a stopped series are consumed once, under the series lock, and   *)
(* then measured without it, the initial policy beside the final one; the    *)
(* artifact is bound under the lock again.  Around it: other commands of the *)
(* series that take the lock, and the promotion of the series' one campaign, *)
(* which does not.  Every durable write is an action.                        *)
(***************************************************************************)
EXTENDS Integers, Sequences, FiniteSets, SequencesExt

CONSTANTS Procs,
          Order,      \* the untouched cases, in manifest order
          Weight,     \* of a case
          Scores,     \* what the evaluator may answer
          Budgets,    \* series.generalization.max_provider_calls may be one of these
          NoFile, NoLock, Dead,
          MaxTroubles \* processes that die or are interrupted

VARIABLES series,       \* series.json
          promotion,    \* promotion_state of the campaign
          policy,       \* the policy files of the profile
          lock,         \* the series lock
          consumption,  \* generalization-consumption.json
          ledger,       \* generalization-calls.json
          artifact,     \* generalization.json
          pc, mem,      \* where every command is, and what it holds
          called,       \* the calls made of providers, and their results
          trouble

profile == <<promotion, policy>>
records == <<consumption, ledger, artifact>>
vars == <<series, profile, lock, records, pc, mem, called, trouble>>

(* Four calls a case: both policies act, and both are evaluated.              *)
Steps == <<[role |-> "actor", policy |-> "initial"], [role |-> "evaluator", policy |-> "initial"],
           [role |-> "actor", policy |-> "final"], [role |-> "evaluator", policy |-> "final"]>>
Schedule == [n \in 1..4 * Len(Order) |->
               [case |-> Order[((n - 1) \div 4) + 1], step |-> Steps[((n - 1) % 4) + 1]]]

Policies == {"initial", "candidate"}
Terminal == {"measured", "partial", "failed"}
Failures == {"generalization_source_integrity", "generalization_provider_failure",
             "generalization_protocol_failure"}
Entries == [call : Range(Schedule), state : {"started", "succeeded", "failed"}]
Artifacts == [state : Terminal, matched : 0..Len(Order), calls : Nat, final : Policies,
              gain : [sum : Int, weight : Int], failure : Failures \cup {NoFile}]
Records == [state : {"measuring"}, artifact : {NoFile}] \cup [state : Terminal, artifact : Artifacts]

(* An absent file is none of what the files may hold.                        *)
ASSUME GeneralizationAssumption ==
  /\ Order \in Seq(Range(Order)) /\ Order # <<>> /\ IsInjective(Order)
  /\ \A n \in DOMAIN Order : Weight[Order[n]] \in Nat \ {0}
  /\ Scores \subseteq Nat /\ Budgets \subseteq Nat \ {0}
  /\ Dead \notin Procs /\ MaxTroubles \in Nat
  /\ NoFile \notin Failures \cup Artifacts \cup Records \cup Seq(Entries)

Others == {"stop", "reconcile"}
Measuring == {"calling", "asked", "answered", "writing", "relock"}
Locked == {"preflight", "consume", "mark", "bind", "settle", "release"} \cup Others
Points == {"idle", "verify", "recover", "unlink", "lock"} \cup Locked \cup Measuring
NoMem == [op |-> "none", policy |-> "initial", calls |-> <<>>, scores |-> <<>>,
          answer |-> NoFile, failure |-> NoFile, then |-> "idle"]

TypeOK ==
  /\ series.state \in {"active", "stopped"} /\ series.attached \in BOOLEAN
  /\ series.generalization \in {"available", "measuring"} \cup Terminal
  /\ policy \in Policies
  /\ promotion \in {"none", "previewed", "applying", "recovered", "applied"}
  /\ lock \in Procs \cup {Dead, NoLock}
  /\ consumption \in Records \cup {NoFile} /\ artifact \in Artifacts \cup {NoFile}
  /\ ledger # NoFile => Len(ledger) <= series.budget
  /\ pc \in [Procs -> Points]

Init ==
  /\ series \in [state : {"active"}, attached : BOOLEAN, generalization : {"available"}, budget : Budgets]
  /\ promotion \in {"none", "previewed"} /\ policy = "initial"
  /\ lock = NoLock /\ consumption = NoFile /\ ledger = NoFile /\ artifact = NoFile
  /\ pc = [p \in Procs |-> "idle"] /\ mem = [p \in Procs |-> NoMem]
  /\ called = <<>> /\ trouble = 0

Goto(p, l) == /\ pc' = [pc EXCEPT ![p] = l]
              /\ mem' = IF l = "idle" THEN [mem EXCEPT ![p] = NoMem] ELSE mem
Leave(p) == Goto(p, "idle")
World == UNCHANGED <<profile, called, trouble>>

(* expected_series_parent of one campaign: it raises while a promotion of an  *)
(* attached campaign is being applied.                                        *)
Applying == series.attached /\ promotion = "applying"
ExpectedPolicy == IF series.attached /\ promotion = "applied" THEN "candidate" ELSE "initial"

-----------------------------------------------------------------------------
(* A command of the series: it loads the profile, which `generalize` verifies *)
(* at once, removes a dead command's lock unless it is `stop`, in two steps,  *)
(* and takes the lock or is refused.                                          *)
Open(p) ==
  /\ pc[p] = "idle"
  /\ \E op \in Others \cup {"generalize"} :
       /\ mem' = [mem EXCEPT ![p] = [NoMem EXCEPT !.op = op, !.policy = policy]]
       /\ pc' = [pc EXCEPT ![p] = CASE op = "generalize" -> "verify"
                                    [] op = "reconcile" -> "recover" [] OTHER -> "lock"]
  /\ UNCHANGED <<series, lock, records>> /\ World

Drifted(p) == policy # mem[p].policy
Verify(p) ==
  /\ pc[p] = "verify"
  /\ Goto(p, IF Drifted(p) THEN "idle" ELSE "recover")
  /\ UNCHANGED <<series, lock, records>> /\ World

FindStale(p) ==
  /\ pc[p] = "recover"
  /\ Goto(p, IF lock = NoLock THEN "lock" ELSE IF lock = Dead /\ ~Applying THEN "unlink" ELSE "idle")
  /\ UNCHANGED <<series, lock, records>> /\ World
UnlinkStale(p) ==
  /\ pc[p] = "unlink"
  /\ lock' = NoLock /\ Goto(p, "lock")
  /\ UNCHANGED <<series, records>> /\ World

TakeLock(p, held) ==
  /\ IF lock = NoLock
     THEN lock' = p /\ Goto(p, held)
     ELSE Leave(p) /\ UNCHANGED lock
  /\ UNCHANGED <<series, records>> /\ World
Lock(p) ==
  /\ pc[p] = "lock"
  /\ TakeLock(p, IF mem[p].op = "generalize" THEN "preflight" ELSE mem[p].op)

(* The lock goes by its path, whoever's it has become.                        *)
Release(p) ==
  /\ pc[p] = "release"
  /\ lock' = NoLock /\ Goto(p, mem[p].then)
  /\ UNCHANGED <<series, records>> /\ World

Stop(p) ==
  /\ pc[p] = "stop"
  /\ series' = IF Applying THEN series ELSE [series EXCEPT !.state = "stopped"]
  /\ Goto(p, "release")
  /\ UNCHANGED <<lock, records>> /\ World
Reconcile(p) ==
  /\ pc[p] = "reconcile"
  /\ series' = IF series.state = "active" /\ ~Applying THEN [series EXCEPT !.attached = TRUE] ELSE series
  /\ Goto(p, "release")
  /\ UNCHANGED <<lock, records>> /\ World

-----------------------------------------------------------------------------
(* Mutant: an interrupted measurement may be taken up again.                  *)
UnconsumedYet == consumption \in {NoFile, [state |-> "measuring", artifact |-> NoFile]}

(* The record's existence is the gate, when it is looked for and when it is   *)
(* created.                                                                   *)
Unconsumed == consumption = NoFile

(* Mutant: the policy is not compared with the lineage.                       *)
EligibleUncompared(p) ==
  /\ Unconsumed /\ series.state = "stopped" /\ 4 * Len(Order) <= series.budget
  /\ series.attached /\ promotion \notin {"previewed", "applying"}

Eligible(p) ==
  /\ Unconsumed /\ series.state = "stopped" /\ 4 * Len(Order) <= series.budget
  /\ series.attached /\ promotion \notin {"previewed", "applying"}
  /\ mem[p].policy = ExpectedPolicy

Preflight(p) ==
  /\ pc[p] = "preflight"
  /\ Goto(p, IF Eligible(p) THEN "consume" ELSE "release")
  /\ UNCHANGED <<series, lock, records>> /\ World

Consume(p) ==
  /\ pc[p] = "consume"
  /\ IF Unconsumed
     THEN consumption' = [state |-> "measuring", artifact |-> NoFile] /\ Goto(p, "mark")
     ELSE Goto(p, "release") /\ UNCHANGED consumption
  /\ UNCHANGED <<series, lock, ledger, artifact>> /\ World

Mark(p) ==
  /\ pc[p] = "mark"
  /\ series' = [series EXCEPT !.generalization = "measuring"]
  /\ pc' = [pc EXCEPT ![p] = "release"] /\ mem' = [mem EXCEPT ![p].then = "calling"]
  /\ UNCHANGED <<lock, records>> /\ World

-----------------------------------------------------------------------------
(* _GeneralizationExecutor.invoke: the ledger names a call before it is made, *)
(* and what became of it after the sources are verified.  The preflight has    *)
(* left room in the budget for every call.                                    *)
Coming(p) == Schedule[Len(mem[p].calls) + 1]
Listed(p, calls) == ledger' = calls /\ UNCHANGED <<consumption, artifact>>
Ending(p, state) == [mem[p].calls EXCEPT ![Len(mem[p].calls)].state = state]

Begin(p) ==
  /\ pc[p] = "calling" /\ Len(mem[p].calls) < Len(Schedule)
  /\ LET calls == Append(mem[p].calls, [call |-> Coming(p), state |-> "started"])
     IN  mem' = [mem EXCEPT ![p].calls = calls] /\ Listed(p, calls)
  /\ pc' = [pc EXCEPT ![p] = "asked"]
  /\ UNCHANGED <<series, lock>> /\ World

(* A provider's process fails or answers; an answer may be unusable.          *)
Answers(role) ==
  [kind : {"ok"}, score : IF role = "actor" THEN {0} ELSE Scores]
    \cup [kind : {"unusable", "failed"}, score : {0}]
Call(p) ==
  /\ pc[p] = "asked"
  /\ LET call == mem[p].calls[Len(mem[p].calls)].call
     IN  \E a \in Answers(call.step.role) :
           /\ called' = Append(called, [call |-> call, answer |-> a])
           /\ mem' = [mem EXCEPT ![p].answer = a]
  /\ pc' = [pc EXCEPT ![p] = "answered"]
  /\ UNCHANGED <<series, profile, lock, records, trouble>>

Fails(p, kind, calls) ==
  /\ mem' = [mem EXCEPT ![p].failure = kind, ![p].calls = calls]
  /\ Listed(p, calls)
  /\ pc' = [pc EXCEPT ![p] = "writing"]

(* A call that failed is listed so before the sources are verified, one that  *)
(* was answered only if they are as they were.  A call that ended without a    *)
(* readable answer, not UTF-8 or not a JSON object, failed of the protocol.    *)
CallFailed(p) ==
  /\ pc[p] = "answered" /\ mem[p].answer.kind = "failed"
  /\ \E kind \in IF Drifted(p) THEN {"generalization_source_integrity"}
                 ELSE {"generalization_provider_failure", "generalization_protocol_failure"} :
       Fails(p, kind, Ending(p, "failed"))
  /\ UNCHANGED <<series, lock>> /\ World
SourceDrift(p) ==
  /\ pc[p] = "answered" /\ mem[p].answer.kind \in {"ok", "unusable"} /\ Drifted(p)
  /\ Fails(p, "generalization_source_integrity", mem[p].calls)
  /\ UNCHANGED <<series, lock>> /\ World
Unusable(p) ==
  /\ pc[p] = "answered" /\ mem[p].answer.kind = "unusable" /\ ~Drifted(p)
  /\ Fails(p, "generalization_protocol_failure", Ending(p, "succeeded"))
  /\ UNCHANGED <<series, lock>> /\ World
Succeed(p) ==
  /\ pc[p] = "answered" /\ mem[p].answer.kind = "ok" /\ ~Drifted(p)
  /\ mem' = [mem EXCEPT ![p].calls = Ending(p, "succeeded"), ![p].scores = Append(@, mem[p].answer.score)]
  /\ Listed(p, Ending(p, "succeeded"))
  /\ pc' = [pc EXCEPT ![p] = "calling"]
  /\ UNCHANGED <<series, lock>> /\ World

-----------------------------------------------------------------------------
(* The cases evaluated under both policies.                                   *)
Matched(scores) == Len(scores) \div 4
State(n) == IF n = Len(Order) THEN "measured" ELSE IF n > 0 THEN "partial" ELSE "failed"
(* The weighted gain over the first n cases; their weight is its denominator. *)
WeightedSum(values) ==
  LET sum[n \in 0..Len(values)] == IF n = 0 THEN 0 ELSE sum[n - 1] + values[n]
  IN  sum[Len(values)]
Gain(scores, n) ==
  [sum |-> WeightedSum([i \in 1..n |-> Weight[Order[i]] * (scores[4 * i] - scores[4 * i - 2])]),
   weight |-> WeightedSum([i \in 1..n |-> Weight[Order[i]]])]

WriteArtifact(p) ==
  /\ \/ pc[p] = "writing"
     \/ pc[p] = "calling" /\ Len(mem[p].calls) = Len(Schedule)
  /\ LET n == Matched(mem[p].scores)
     IN  artifact' = [state |-> State(n), matched |-> n, calls |-> Len(mem[p].calls),
                      final |-> mem[p].policy, gain |-> Gain(mem[p].scores, n),
                      failure |-> mem[p].failure]
  /\ Goto(p, "relock")
  /\ UNCHANGED <<series, lock, consumption, ledger>> /\ World

(* The lock is taken again; a dead command's is not removed here.             *)
Relock(p) == pc[p] = "relock" /\ TakeLock(p, "bind")

(* Mutant: the artifact is bound before the state changes.                    *)
BindOnly(p) ==
  /\ pc[p] = "bind" /\ consumption.state = "measuring"
  /\ consumption' = [consumption EXCEPT !.artifact = artifact]
  /\ Goto(p, "settle")
  /\ UNCHANGED <<series, lock, ledger, artifact>> /\ World

Bind(p) ==
  /\ pc[p] = "bind" /\ consumption.state = "measuring"
  /\ consumption' = [state |-> artifact.state, artifact |-> artifact]
  /\ Goto(p, "settle")
  /\ UNCHANGED <<series, lock, ledger, artifact>> /\ World
Settle(p) ==
  /\ pc[p] = "settle"
  /\ series' = [series EXCEPT !.generalization = artifact.state]
  /\ pc' = [pc EXCEPT ![p] = "release"] /\ mem' = [mem EXCEPT ![p].then = "idle"]
  /\ UNCHANGED <<lock, records>> /\ World

-----------------------------------------------------------------------------
(* The campaign's promotion takes no series lock, and one that was recovered  *)
(* may be applied again.  Its writes are those of ExternalPromotion, here two. *)
BeginPromotion ==
  /\ promotion \in {"previewed", "recovered"} /\ policy = "initial"
  /\ promotion' = "applying" /\ UNCHANGED policy
ReplaceFiles ==
  /\ promotion = "applying" /\ policy = "initial"
  /\ policy' = "candidate" /\ UNCHANGED promotion
CommitPromotion ==
  /\ promotion = "applying" /\ policy = "candidate"
  /\ promotion' = "applied" /\ UNCHANGED policy
RecoverPromotion ==
  /\ promotion = "applying"
  /\ promotion' = "recovered" /\ policy' = "initial"
Promotion ==
  /\ BeginPromotion \/ ReplaceFiles \/ CommitPromotion \/ RecoverPromotion
  /\ UNCHANGED <<series, lock, records, pc, mem, called, trouble>>

(* An exception that nothing catches, such as a write that fails or an         *)
(* interrupt, releases the lock; within a call the ledger says so first.       *)
Interrupt(p) ==
  /\ pc[p] # "idle" /\ trouble < MaxTroubles
  /\ trouble' = trouble + 1
  /\ IF pc[p] = "asked" THEN Listed(p, Ending(p, "failed")) ELSE UNCHANGED records
  /\ IF pc[p] = "asked" /\ Drifted(p)
     THEN /\ mem' = [mem EXCEPT ![p].failure = "generalization_source_integrity",
                               ![p].calls = Ending(p, "failed")]
          /\ pc' = [pc EXCEPT ![p] = "writing"]
     ELSE Leave(p)
  /\ lock' = IF pc[p] \in Locked THEN NoLock ELSE lock
  /\ UNCHANGED <<series, profile, called>>

Kill(p) ==
  /\ pc[p] # "idle" /\ trouble < MaxTroubles
  /\ trouble' = trouble + 1
  /\ lock' = IF lock = p THEN Dead ELSE lock
  /\ Leave(p)
  /\ UNCHANGED <<series, profile, records, called>>

Step(p) ==
  \/ Verify(p) \/ FindStale(p) \/ UnlinkStale(p) \/ Lock(p) \/ Release(p) \/ Stop(p) \/ Reconcile(p)
  \/ Preflight(p) \/ Consume(p) \/ Mark(p)
  \/ Begin(p) \/ Call(p) \/ CallFailed(p) \/ SourceDrift(p) \/ Unusable(p) \/ Succeed(p)
  \/ WriteArtifact(p) \/ Relock(p) \/ Bind(p) \/ Settle(p)
Next == Promotion \/ \E p \in Procs : Open(p) \/ Step(p) \/ Interrupt(p) \/ Kill(p)
Spec == Init /\ [][Next]_vars

-----------------------------------------------------------------------------
(* No untouched case is put twice to an actor or an evaluator, whatever       *)
(* commands overlap, die or are run again; none is before its consumption is   *)
(* on record, and the ledger lists every call, in order, with the one in       *)
(* flight (docs/specs/0009 section 5).                                        *)
CalledOnce ==
  /\ \A i, j \in DOMAIN called : called[i].call = called[j].call => i = j
  /\ called # <<>> => /\ consumption # NoFile /\ ledger # NoFile
                      /\ Len(ledger) \in Len(called)..Len(called) + 1
                      /\ \A i \in DOMAIN called : ledger[i].call = called[i].call

(* The measurement a series reports is bound to an artifact that tells what   *)
(* the providers answered: of the policy the series was left with, over the   *)
(* cases that both policies were evaluated on, complete or with its failure,  *)
(* although a promotion may change the policy at any time.                    *)
Given(c, side) ==
  {called[i].answer.score : i \in {j \in DOMAIN called :
     /\ called[j].call = [case |-> c, step |-> [role |-> "evaluator", policy |-> side]]
     /\ called[j].answer.kind = "ok" /\ ledger[j].state = "succeeded"}}
Compared == {c \in Range(Order) : Given(c, "initial") # {} /\ Given(c, "final") # {}}
The(S) == CHOOSE x \in S : TRUE
SumOver(values) == MapThenSumSet(LAMBDA c : values[c], DOMAIN values)
MeasurementTrue ==
  series.generalization \in Terminal =>
    /\ consumption.state = series.generalization
    /\ consumption.artifact = artifact /\ artifact.state = series.generalization
    /\ artifact.calls = Len(ledger) /\ artifact.matched = Cardinality(Compared)
    /\ artifact.gain.weight = SumOver([c \in Compared |-> Weight[c]])
    /\ artifact.gain.sum =
         SumOver([c \in Compared |-> Weight[c] * (The(Given(c, "final")) - The(Given(c, "initial")))])
    /\ artifact.state = "measured" <=> artifact.failure = NoFile
    /\ promotion # "applied" => artifact.final = "initial"
=============================================================================
