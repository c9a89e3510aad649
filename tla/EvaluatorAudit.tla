--------------------------- MODULE EvaluatorAudit ---------------------------
(***************************************************************************)
(* The evaluator audit of a campaign (kpo.evaluator_audit_runtime): the      *)
(* anchors are approved by the owner (kpo.evaluator_calibration), every slot *)
(* is asked about every anchor once, under a budget of its own, and the      *)
(* report and the observations are bound by campaign.json.  Every durable    *)
(* write is an action; a write may fail, which the campaign survives as      *)
(* `failed`, and the process may die.  A digest of a file is its contents.   *)
(* Campaigns share nothing but the approvals: one command runs at a time.    *)
(***************************************************************************)
EXTENDS CalibrationMetrics, Sequences

CONSTANTS Campaigns,
          Versions, First,   \* versions of the anchor sources, and the one at first
          Expected,     \* the approved scores, by version
          Order,        \* the anchors, sorted by anchor_id
          Slots,        \* the evaluator slots of a campaign, primary first
          MaxCalls,     \* evaluator_audit.max_provider_calls, by campaign
          Answers,      \* what an evaluator may score
          Failures,     \* kinds of ProviderFailure
          Threshold,    \* drift thresholds, by campaign
          NoFile,
          MaxFaults, MaxKills, MaxEdits

VARIABLES sources,      \* the version of the anchors on disk
          reviewed,     \* versions `anchor-approve preview` has shown the owner
          approved,     \* anchors/approved/*.json
          campaign,     \* campaign.json
          checkpoint, budget, observations, report,   \* the audit's files
          run,          \* the campaign's process
          asked,        \* what the evaluators were asked, and what they answered
          verdicts,     \* drift comparisons made
          faults        \* write failures, deaths and edits so far

owner == <<sources, reviewed, approved>>
files == <<checkpoint, budget, observations, report>>
vars == <<owner, campaign, files, run, asked, verdicts, faults>>

SlotSet(c) == {Slots[c][i] : i \in DOMAIN Slots[c]}
Coordinates(c) ==
  LET m == Len(Slots[c])
  IN  [i \in 1..Len(Order) * m |-> <<Order[((i - 1) \div m) + 1], Slots[c][((i - 1) % m) + 1]>>]
Fresh(c) == [a \in Anchors |-> [s \in SlotSet(c) |-> Absent]]
Put(obs, a, s, o) == [obs EXCEPT ![a][s] = o]
Remaining(c, obs) ==
  {i \in DOMAIN Coordinates(c) : obs[Coordinates(c)[i][1]][Coordinates(c)[i][2]] = Absent}

NotAttempted == Unavailable("not_attempted_budget_exhausted")
Interrupted == Unavailable("interrupted_unknown")
Observed == {Completed(f) : f \in Answers} \cup {Unavailable(k) : k \in Failures}
              \cup {NotAttempted, Interrupted}
Observations(c) == [Anchors -> [SlotSet(c) -> Observed \cup {Absent, Pending}]]

(* A provider's failure is none of the audit's own kinds, a score and its      *)
(* threshold are not negative, and an absent file is none of what it may hold. *)
ASSUME AuditAssumption ==
  /\ Order \in Seq(Anchors) /\ \A a \in Anchors : \E i \in DOMAIN Order : Order[i] = a
  /\ \A c \in Campaigns : /\ MaxCalls[c] \in Nat \ {0}
                          /\ Slots[c] \in Seq(SlotSet(c)) /\ Slots[c] # <<>>
                          /\ Threshold[c] \in [Dims -> Nat]
                          /\ NoFile \notin Observations(c)
  /\ Full \in Nat /\ \A f \in Answers : IsScore(f)
  /\ \A v \in Versions, a \in Anchors : IsScore(Expected[v][a])
  /\ \A k \in Failures : Unavailable(k) \notin {NotAttempted, Interrupted}
  /\ NoFile \notin Nat
  /\ First \in Versions /\ MaxFaults \in Nat /\ MaxKills \in Nat /\ MaxEdits \in Nat

Idle == [pc |-> "idle"]
Writing == {"load", "budget", "loop", "invoke", "answered", "report", "reporting", "reloading"}
Points == Writing \cup {"approval", "calling", "bind", "cleanup", "optimizing", "rounds"}

TypeOK ==
  /\ sources \in Versions /\ reviewed \subseteq Versions /\ approved \subseteq Versions
  /\ \A c \in Campaigns :
       /\ campaign[c].state \in {"absent", "running", "failed", "ended"}
       /\ checkpoint[c] = NoFile \/ checkpoint[c] \in Observations(c)
       /\ budget[c] = NoFile \/ budget[c] \in 0..MaxCalls[c]
       /\ observations[c] = NoFile \/ observations[c] \in Observations(c)
       /\ report[c] # NoFile => /\ report[c].collection \in {"complete", "budget_exhausted"}
                                /\ report[c].version \in Versions
       /\ run[c] = Idle \/ /\ run[c].pc \in Points
                           /\ run[c].collector \in Observations(c)
                           /\ run[c].count \in 0..MaxCalls[c]
  /\ faults \in [write : 0..MaxFaults, kill : 0..MaxKills, edit : 0..MaxEdits]

Init ==
  /\ sources = First /\ reviewed = {} /\ approved = {}
  /\ campaign = [c \in Campaigns |-> [state |-> "absent", version |-> NoFile, binding |-> NoFile]]
  /\ checkpoint = [c \in Campaigns |-> NoFile] /\ budget = [c \in Campaigns |-> NoFile]
  /\ observations = [c \in Campaigns |-> NoFile] /\ report = [c \in Campaigns |-> NoFile]
  /\ run = [c \in Campaigns |-> Idle]
  /\ asked = [c \in Campaigns |-> <<>>]
  /\ verdicts = {}
  /\ faults = [write |-> 0, kill |-> 0, edit |-> 0]

At(c, l) == run[c].pc = l
Goto(c, l) == run' = [run EXCEPT ![c].pc = l]
World == UNCHANGED <<owner, asked, verdicts, faults>>

-----------------------------------------------------------------------------
(* The approval of the anchors (kpo.evaluator_calibration).                   *)
Preview ==
  /\ sources \notin reviewed
  /\ reviewed' = reviewed \cup {sources}
  /\ UNCHANGED <<sources, approved, campaign, files, run, asked, verdicts, faults>>

(* Mutant: the reviewed digest is not compared with the sources.              *)
ApproveUnchecked ==
  /\ sources \notin approved /\ reviewed # {}
  /\ approved' = approved \cup {sources}
  /\ UNCHANGED <<sources, reviewed, campaign, files, run, asked, verdicts, faults>>

(* The owner gives the digest of a reviewed version; the sources are loaded   *)
(* again, and the record is published by a link that fails if it exists.      *)
Approve ==
  /\ \E v \in reviewed :
       /\ v = sources /\ v \notin approved
       /\ approved' = approved \cup {v}
  /\ UNCHANGED <<sources, reviewed, campaign, files, run, asked, verdicts, faults>>

EditAnchors ==
  /\ faults.edit < MaxEdits /\ faults' = [faults EXCEPT !.edit = @ + 1]
  /\ sources' \in Versions \ {sources}
  /\ UNCHANGED <<reviewed, approved, campaign, files, run, asked, verdicts>>

-----------------------------------------------------------------------------
(* run_campaign, as far as the audit: a new campaign is written as running    *)
(* with its profile snapshot, and only a failed one of the same snapshot is   *)
(* resumed.                                                                   *)
Quiet == \A c \in Campaigns : run[c] = Idle
Process(c) == [pc |-> "approval", version |-> sources, collector |-> Fresh(c), count |-> 0, exhausted |-> FALSE]

Start(c) ==
  /\ Quiet /\ campaign[c].state = "absent"
  /\ campaign' = [campaign EXCEPT ![c].state = "running", ![c].version = sources]
  /\ run' = [run EXCEPT ![c] = Process(c)]
  /\ UNCHANGED files /\ World

Resume(c) ==
  /\ Quiet /\ campaign[c].state = "failed" /\ campaign[c].version = sources
  /\ run' = [run EXCEPT ![c] = Process(c)]
  /\ UNCHANGED <<campaign, files>> /\ World

(* A typed failure: campaign.json becomes failed and the command ends.        *)
Fail(c) == /\ campaign' = [campaign EXCEPT ![c].state = "failed"]
           /\ run' = [run EXCEPT ![c] = Idle]

(* load_anchor_approval reads the record of the anchors the profile loaded.   *)
CheckApproval(c) ==
  /\ At(c, "approval")
  /\ IF run[c].version \in approved THEN Goto(c, "load") /\ UNCHANGED campaign ELSE Fail(c)
  /\ UNCHANGED files /\ World

(* load_calibration_artifacts: the report names its observations.             *)
Existing(c) == observations[c] # NoFile /\ report[c] # NoFile
Sound(c) == Existing(c) /\ report[c].observations = observations[c]

(* Both artifacts exist: nothing is asked again, whatever the checkpoint.     *)
Rebind(c) ==
  /\ At(c, "load") /\ Sound(c) /\ report[c].version = run[c].version
  /\ Goto(c, "bind")
  /\ UNCHANGED <<campaign, files>> /\ World

(* Mutant: a pending slot is asked again.                                     *)
LoadedReplays(c) ==
  [a \in Anchors |-> [s \in SlotSet(c) |->
     IF checkpoint[c][a][s] = Pending THEN Absent ELSE checkpoint[c][a][s]]]

(* Mutant: a pending slot is reported as not attempted.                       *)
LoadedNotAttempted(c) ==
  [a \in Anchors |-> [s \in SlotSet(c) |->
     IF checkpoint[c][a][s] = Pending THEN NotAttempted ELSE checkpoint[c][a][s]]]

(* load_calibration_checkpoint: a call may have been made for a pending slot. *)
Loaded(c) ==
  [a \in Anchors |-> [s \in SlotSet(c) |->
     IF checkpoint[c][a][s] = Pending THEN Interrupted ELSE checkpoint[c][a][s]]]

Collected(c) == IF checkpoint[c] = NoFile THEN Fresh(c) ELSE Loaded(c)

(* Mutant: a checkpoint with a pending slot is refused.                       *)
LoadStrict(c) ==
  /\ At(c, "load") /\ ~Existing(c)
  /\ IF checkpoint[c] # NoFile /\ Loaded(c) # checkpoint[c]
     THEN Fail(c) /\ UNCHANGED checkpoint
     ELSE /\ run' = [run EXCEPT ![c].pc = "budget", ![c].collector = Collected(c)]
          /\ checkpoint' = [checkpoint EXCEPT ![c] = Collected(c)]
          /\ UNCHANGED campaign
  /\ UNCHANGED <<budget, observations, report>> /\ World

(* Mutant: a resumed campaign collects again, whatever is there.              *)
LoadAgain(c) ==
  /\ At(c, "load")
  /\ run' = [run EXCEPT ![c].pc = "budget", ![c].collector = Collected(c)]
  /\ checkpoint' = [checkpoint EXCEPT ![c] = Collected(c)]
  /\ UNCHANGED <<campaign, budget, observations, report>> /\ World

Load(c) ==
  /\ At(c, "load") /\ ~Existing(c)
  /\ run' = [run EXCEPT ![c].pc = "budget", ![c].collector = Collected(c)]
  /\ checkpoint' = [checkpoint EXCEPT ![c] = Collected(c)]
  /\ UNCHANGED <<campaign, budget, observations, report>> /\ World

(* EvaluatorAuditCallExecutor.__init__                                        *)
OpenBudget(c) ==
  /\ At(c, "budget")
  /\ LET count == IF budget[c] = NoFile THEN 0 ELSE budget[c]
     IN  /\ budget' = [budget EXCEPT ![c] = count]
         /\ run' = [run EXCEPT ![c].pc = "loop", ![c].count = count]
  /\ UNCHANGED <<campaign, checkpoint, observations, report>> /\ World

-----------------------------------------------------------------------------
(* The loop over anchors and slots, at its first coordinate not observed.     *)
Coming(c) == Coordinates(c)[Min(Remaining(c, run[c].collector))]
Collect(c, l, obs) == run' = [run EXCEPT ![c].pc = l, ![c].collector = obs]
Persist(c, obs) == checkpoint' = [checkpoint EXCEPT ![c] = obs]
Here(c) == CHOOSE x \in Anchors \X SlotSet(c) : run[c].collector[x[1]][x[2]] = Pending

(* Mutant: one call too many.                                                 *)
MarkOver(c) ==
  /\ At(c, "loop") /\ Remaining(c, run[c].collector) # {} /\ run[c].count <= MaxCalls[c]
  /\ LET marked == Put(run[c].collector, Coming(c)[1], Coming(c)[2], Pending)
     IN  Collect(c, "invoke", marked) /\ Persist(c, marked)
  /\ UNCHANGED <<campaign, budget, observations, report>> /\ World

Mark(c) ==
  /\ At(c, "loop") /\ Remaining(c, run[c].collector) # {} /\ run[c].count < MaxCalls[c]
  /\ LET marked == Put(run[c].collector, Coming(c)[1], Coming(c)[2], Pending)
     IN  Collect(c, "invoke", marked) /\ Persist(c, marked)
  /\ UNCHANGED <<campaign, budget, observations, report>> /\ World

(* The budget is gone: the rest is marked so, and stays so.                   *)
Exhaust(c) ==
  /\ At(c, "loop") /\ Remaining(c, run[c].collector) # {} /\ run[c].count >= MaxCalls[c]
  /\ LET marked == [a \in Anchors |-> [s \in SlotSet(c) |->
                      IF run[c].collector[a][s] = Absent THEN NotAttempted
                      ELSE run[c].collector[a][s]]]
     IN  /\ run' = [run EXCEPT ![c].pc = "report", ![c].collector = marked, ![c].exhausted = TRUE]
         /\ Persist(c, marked)
  /\ UNCHANGED <<campaign, budget, observations, report>> /\ World

(* invoke: the count is durable before the command runs.                      *)
Count(c) ==
  /\ At(c, "invoke")
  /\ budget' = [budget EXCEPT ![c] = run[c].count + 1]
  /\ run' = [run EXCEPT ![c].pc = "calling", ![c].count = @ + 1]
  /\ UNCHANGED <<campaign, checkpoint, observations, report>> /\ World

(* The evaluator answers or fails; the sources are verified before and after. *)
Call(c) ==
  /\ At(c, "calling") /\ sources = run[c].version
  /\ \E o \in {Completed(f) : f \in Answers} \cup {Unavailable(k) : k \in Failures} :
       /\ asked' = [asked EXCEPT ![c] = Append(@, [anchor |-> Here(c)[1], slot |-> Here(c)[2],
                                                   version |-> sources, answer |-> o])]
       /\ Recordable(Pending, o)
       /\ Collect(c, "answered", Put(run[c].collector, Here(c)[1], Here(c)[2], o))
  /\ UNCHANGED <<owner, campaign, files, verdicts, faults>>

(* An IntegrityViolation is caught by nobody and leaves campaign.json alone.  *)
Violate(c) ==
  /\ run[c].pc \in {"calling", "answered"} /\ sources # run[c].version
  /\ run' = [run EXCEPT ![c] = Idle]
  /\ UNCHANGED <<campaign, files>> /\ World

Save(c) ==
  /\ At(c, "answered")
  /\ Persist(c, run[c].collector) /\ Goto(c, "loop")
  /\ UNCHANGED <<campaign, budget, observations, report>> /\ World

Finish(c) ==
  /\ At(c, "loop") /\ Remaining(c, run[c].collector) = {}
  /\ Goto(c, "report")
  /\ UNCHANGED <<campaign, files>> /\ World

-----------------------------------------------------------------------------
(* build_calibration_documents and persist_calibration_artifacts              *)
WriteObservations(c) ==
  /\ At(c, "report")
  /\ observations' = [observations EXCEPT ![c] = run[c].collector]
  /\ Goto(c, "reporting")
  /\ UNCHANGED <<campaign, checkpoint, budget, report>> /\ World

WriteReport(c) ==
  /\ At(c, "reporting")
  /\ report' = [report EXCEPT ![c] =
       [collection |-> IF run[c].exhausted THEN "budget_exhausted" ELSE "complete",
        version |-> run[c].version, observations |-> run[c].collector]]
  /\ Goto(c, "reloading")
  /\ UNCHANGED <<campaign, checkpoint, budget, observations>> /\ World

Reload(c) ==
  /\ At(c, "reloading") /\ Sound(c)
  /\ Goto(c, "bind")
  /\ UNCHANGED <<campaign, files>> /\ World

BindingOf(c) ==
  [report |-> report[c], observations |-> observations[c], collection |-> report[c].collection,
   summary |-> Summary(observations[c], Expected[report[c].version], SlotSet(c))]

(* campaign.json gets the binding, and keeps the state it has on disk.        *)
Bind(c) ==
  /\ At(c, "bind")
  /\ campaign' = [campaign EXCEPT ![c].binding = BindingOf(c)]
  /\ Goto(c, "cleanup")
  /\ UNCHANGED files /\ World

(* Failing to remove the checkpoint is only logged.                           *)
Cleanup(c) ==
  /\ At(c, "cleanup")
  /\ checkpoint' \in {checkpoint, [checkpoint EXCEPT ![c] = NoFile]}
  /\ Goto(c, "optimizing")
  /\ UNCHANGED <<campaign, budget, observations, report>> /\ World

(* The campaign's rounds: campaign.json is running, and at last it ends.      *)
Optimize(c) ==
  /\ At(c, "optimizing")
  /\ campaign' = [campaign EXCEPT ![c].state = "running"] /\ Goto(c, "rounds")
  /\ UNCHANGED files /\ World
Conclude(c) ==
  /\ At(c, "rounds")
  /\ campaign' = [campaign EXCEPT ![c].state = "ended"]
  /\ run' = [run EXCEPT ![c] = Idle]
  /\ UNCHANGED files /\ World
RoundsFail(c) ==
  /\ At(c, "rounds") /\ faults.write < MaxFaults
  /\ faults' = [faults EXCEPT !.write = @ + 1]
  /\ Fail(c) /\ UNCHANGED <<owner, files, asked, verdicts>>

-----------------------------------------------------------------------------
(* A write that fails leaves the file as it was, and the campaign failed.     *)
Writes(c) ==
  \/ run[c].pc \in {"invoke", "answered", "report", "reporting", "reloading"}
  \/ At(c, "load") /\ ~Existing(c) /\ checkpoint[c] # Collected(c)
  \/ At(c, "budget") /\ budget[c] = NoFile
  \/ At(c, "loop") /\ Remaining(c, run[c].collector) # {}
WriteFails(c) ==
  /\ Writes(c) /\ faults.write < MaxFaults
  /\ faults' = [faults EXCEPT !.write = @ + 1]
  /\ Fail(c) /\ UNCHANGED <<owner, files, asked, verdicts>>

Kill(c) ==
  /\ run[c] # Idle /\ faults.kill < MaxKills
  /\ faults' = [faults EXCEPT !.kill = @ + 1]
  /\ run' = [run EXCEPT ![c] = Idle]
  /\ UNCHANGED <<owner, campaign, files, asked, verdicts>>

(* compare_profile_evaluator_drift, of campaigns whose binding still holds.   *)
Bound(c) == Sound(c) /\ campaign[c].binding = BindingOf(c)
DriftOf(b, t) == Drift(observations[b], observations[t], SlotSet(b), SlotSet(t), Threshold[t])
Compare(b, t) ==
  /\ b # t /\ Bound(b) /\ Bound(t) /\ report[b].version = report[t].version
  /\ verdicts' = verdicts \cup {[base |-> b, target |-> t, drift |-> DriftOf(b, t)]}
  /\ verdicts' # verdicts
  /\ UNCHANGED <<owner, campaign, files, run, asked, faults>>

-----------------------------------------------------------------------------
Audit(c) ==
  \/ CheckApproval(c) \/ Rebind(c) \/ Load(c) \/ OpenBudget(c)
  \/ Mark(c) \/ Exhaust(c) \/ Count(c) \/ Call(c) \/ Violate(c) \/ Save(c) \/ Finish(c)
  \/ WriteObservations(c) \/ WriteReport(c) \/ Reload(c) \/ Bind(c) \/ Cleanup(c)
  \/ Optimize(c) \/ Conclude(c)

Next ==
  \/ Preview \/ Approve \/ EditAnchors
  \/ \E c \in Campaigns : Start(c) \/ Resume(c) \/ Audit(c)
  \/ \E c \in Campaigns : RoundsFail(c) \/ WriteFails(c) \/ Kill(c)
  \/ \E b, t \in Campaigns : Compare(b, t)

Spec == Init /\ [][Next]_vars

(* A command that runs goes on; the owner reviews and approves the anchors    *)
(* and resumes a failed campaign.                                             *)
FairSpec ==
  /\ Spec
  /\ WF_vars(Preview) /\ WF_vars(Approve)
  /\ \A c \in Campaigns : WF_vars(Audit(c)) /\ SF_vars(Resume(c))

-----------------------------------------------------------------------------
(* Properties.                                                                *)

Entries(c) == {asked[c][i] : i \in DOMAIN asked[c]}
Entry(c, a, s) == {e \in Entries(c) : e.anchor = a /\ e.slot = s}

(* No evaluator is asked twice about an anchor in one campaign, and the       *)
(* durable budget accounts for every call, however often the audit is cut     *)
(* short and resumed.                                                         *)
CallsAccounted ==
  \A c \in Campaigns :
    /\ \A i, j \in DOMAIN asked[c] :
         asked[c][i].anchor = asked[c][j].anchor /\ asked[c][i].slot = asked[c][j].slot => i = j
    /\ asked[c] # <<>> => Len(asked[c]) <= budget[c] /\ budget[c] <= MaxCalls[c]

(* What the files say of a slot is what its evaluator answered, and a slot    *)
(* said not to be attempted was never asked.                                  *)
Truthful(c, obs) ==
  \A a \in Anchors, s \in SlotSet(c) :
    /\ obs[a][s] \in {Absent, NotAttempted} => Entry(c, a, s) = {}
    /\ obs[a][s] \notin {Absent, Pending, NotAttempted, Interrupted}
         => \E e \in Entry(c, a, s) : e.answer = obs[a][s]
ReportedTruly ==
  \A c \in Campaigns : /\ checkpoint[c] # NoFile => Truthful(c, checkpoint[c])
                       /\ observations[c] # NoFile => Truthful(c, observations[c])

(* What campaign.json binds is in the files, through failures, deaths and      *)
(* resumes, so that a comparison or a series may rely on it.                  *)
BindingHolds == \A c \in Campaigns : campaign[c].binding # NoFile => Bound(c)

(* Every question to an evaluator is about anchors the owner has reviewed, of *)
(* the version the campaign was started with, although the owner edits the    *)
(* sources at any time.                                                       *)
AskedReviewed ==
  \A c \in Campaigns : \A e \in Entries(c) :
    e.version \in reviewed /\ e.version = campaign[c].version

(* A drift found between two campaigns is the evaluators': some slot gave     *)
(* answers to one anchor that differ by more than the threshold.              *)
Far(v, e, f) == \E d \in Dims :
  Magnitude(f.answer.scores[d] - e.answer.scores[d]) > Threshold[v.target][d]
DriftEvidenced ==
  \A v \in verdicts : \A s \in v.drift.drifted : \E a \in Anchors :
    \E e \in Entry(v.base, a, s), f \in Entry(v.target, a, s) :
      e.answer.state = "completed" /\ f.answer.state = "completed" /\ Far(v, e, f)

(* A failed campaign whose anchors stay as they are is resumed until its       *)
(* audit is bound: no failure, violation or death during a resume bars it.    *)
AuditSettles ==
  \A c \in Campaigns :
    campaign[c].state = "failed" ~> (campaign[c].binding # NoFile \/ sources # campaign[c].version)

(* docs/specs/0007: a report over slots that the budget left unattempted says *)
(* budget_exhausted.  The code keeps this in a variable of the process only.  *)
ExhaustionReported ==
  \A c \in Campaigns : report[c] # NoFile =>
    (report[c].collection = "complete"
       <=> \A a \in Anchors, s \in SlotSet(c) : report[c].observations[a][s] # NotAttempted)
=============================================================================
