# KPO: a verification project

KPO (`src/src/kpo`, a Python package and command line) improves the *policy* of a
target profile: it runs an actor and an evaluator over cases, turns feedback into
diagnoses and candidate edits, replays them on regression cases, and lets the owner
approve the promotion of one candidate at a time. What makes it hard is the bookkeeping:
everything is kept in JSON and JSONL files, several commands write the same files, each
command is many durable writes long, and any of them may be killed. This directory holds TLA+ models of that bookkeeping, the TLC runs
that check them, and TLAPS proofs.

## Inventory

| component (source) | state it keeps | operations | correct when | modelled |
|---|---|---|---|---|
| External promotion (`external_promotion.py`) | bundles, `promotions/campaigns/*.json`, `promotions/journals/*.json`, `promotions/apply.lock`, the profile's policy files | persist bundle, preview, apply, recover | a promotion takes effect entirely or not at all, a committed one is never undone, a stale one writes nothing | `ExternalPromotion` |
| Active state (`active_state.py`) | `promotion-journal.jsonl`, `promotion-pending.json`, `active-policy.json`, `active-components.json` | initialize, preview, apply, rollback, recover, reconcile | the pointers are the journal's; lineage is a chain; a manager can always be opened | `ActiveState` |
| Campaign series (`campaign_series.py`) | `series.json` with its entries, evidence files, series lock, campaign directories | initialize, allocate, append, reconcile, stop, stale-lock recovery, generalize | entries are append-only, in order, one per campaign revision, each parent is the policy its predecessor left | `CampaignSeries` |
| Campaign loop (`campaign.py`) | `campaign.json`, round files, checkpoints, bundle | start, resume, iterate, reject, preview, terminal handlers | a campaign ends in one terminal state, which its evidence bears out; only a candidate that reaches every gate is previewed; a failed one that is resumed ends | `CampaignLoop`; with a series, `CampaignSeries` |
| Provider cache and call budget (`campaign_cache.py`) | cache entries, call count | call, replay, count | no answered call is made again, never more calls than the budget, also across resumes | `CampaignLoop` |
| Evaluator agreement (`evaluator_agreement.py`) | checkpoint, report | collect, checkpoint, resume, report | the report is about every evaluation of the campaign, once | `AgreementReport`, `CampaignLoop` |
| Regression gates (`vector_regression.py`, `regression.py`), diagnosis (`diagnosis.py`) | none | weighted gains per partition, ablation; priority of feedback | a candidate passes if it reaches every bound | `VectorGates` |
| Reasoning differential (`reasoning_differential.py`) | iteration files, summary | three calls, persist, load | the summary is about every analysis made | persistence in `CampaignLoop` |
| Evaluator audit (`evaluator_audit_runtime.py`) | checkpoint, audit budget, observations, report | approve, ask, resume, bind | no slot is asked twice; what is reported was answered; a failed audit can be finished | `EvaluatorAudit` |
| Calibration and drift (`calibration_metrics.py`, `evaluator_calibration*.py`, `evaluator_drift.py`) | approvals, observations, report | approve anchors, build report, compare | a drift stands on answers that differ | `CalibrationMetrics`, `EvaluatorAudit` |
| Dataset partitions and growth (`dataset.py`) | manifest, holdout lock, journals, snapshots | freeze, grow, recover | the holdout never changes; a committed growth stays | `CurriculumGrowth` |
| Curriculum growth (`curriculum.py`) | previews, plans, the series lock | signal, select, preview, apply, recover | a plan is applied to what it was computed from, once, or leaves no trace | `CurriculumSelection`, `CurriculumGrowth` |
| Generalization (`campaign_series.py:1696`, `generalization.py`) | consumption record, call ledger, artifact | preflight, consume, measure, bind | untouched cases are put to the providers at most once; the artifact tells what they answered | `SeriesGeneralization` |
| Integrity monitor (`integrity.py`) | digests in memory | verify around each call | a change of the sources is noticed | what it compares, in `EvaluatorAudit` and `SeriesGeneralization` |
| Profile, models, digests (`profile.py`, `campaign_profile.py`, `models.py`, `digest.py`) | the profile's files | load, validate, digest | loads or fails without side effect | what a promotion changes: `PolicyProfile` |
| Provider (`provider.py`), pipeline (`runner.py`, `pipeline.py`) | none | one subprocess a call | a failure is typed | as outcomes of calls |
| Single-file promotion (`promotion.py`), run store (`runtime.py`), feedback routing (`feedback_optimization.py`) | journal and snapshot; SQLite rows; none | replace, recover; create, transition; route | | no, see "Not modelled" |
| Hygiene, demo, cli | none | checks, a fixed example, argument parsing | | no: pure input/output |

How they interact: a campaign snapshots the profile (`campaign.py:474`), is allocated
into a series under the series lock, runs rounds whose provider calls go through the
cache and the integrity monitor, persists a promotion bundle and reports a preview; its
terminal state is appended to the series as evidence. `kpo promote` writes the profile
behind `apply.lock`, and the next campaign of the series must start from the policy
that results, which `expected_series_parent` folds from entries, campaign files and
promotion states. They meet in files.

The hard behaviours are listed with their lines under `hazards` in `PROJECT.json`:
deaths between two writes, of recoveries too; checks made before a lock and used after
it; locks unlinked by path; several files that must agree and are written one after the
other; a preview or approval applied long after it was made.

## Plan

Done: (1) `PolicyProfile`, `AtomicPromotion`, `ExternalPromotion`; (2) `ActiveState`;
(3) `CampaignSeries` with the lifecycle of a campaign; (4) `CurriculumSelection` and
`CurriculumGrowth` with the journaled growth of `dataset.py`; (5) `CalibrationMetrics`
and `EvaluatorAudit`; (6) `VectorGates`, `AgreementReport` and `CampaignLoop` with cache
and budget; (7) `SeriesGeneralization`; proofs about each of them, on `FoldLemmas`.

Every safety property that a passing run checks is also a theorem. Next, if the code
grows that way: the run store and the single-file promotion as modules, and a series and
a dataset as abstract specifications. No module has a RECURSIVE operator.

## Modules

An action is one durable write of a command with the checks that precede it, so that a
death, or another command, can come before or after each write. Digests are the values
they identify; reading several files in a row is one step, and what changes between a
check and the write that trusts it is modelled where the two are different steps.

**`PolicyProfile`** is what a promotion can change of a target profile: the bytes at
every artifact's path and the version in every row of the policy manifest.
`Loadable` is when `load_target_profile` succeeds; `ReviewedContent` and
`ReviewedManifest` are the candidate of `regression.apply_candidate`: one artifact
replaced, its row and nothing else raised by one version.

**`AtomicPromotion`** is the abstract specification: a profile in effect, the parent
every campaign started from, the set of promoted campaigns, and `Promote`, which is
atomic and possible only from the exact parent.

**`ExternalPromotion`** is `apply_campaign_promotion` and
`recover_campaign_promotion`. `content`, `manifest`, `pstate`, `journal` and `lock` are
the files; `pc[p]` is the write a process has come to and `cmd[p]` its campaign.
`CheckApply` to `ReleaseLock` follow `apply` from 897 to 979, `CheckRecover` to
`FinalizeApplied` follow `recover` from 981 to 1095. `Crash` is a death at a point of
`CrashPoints`: the files stay, the process is gone. `OwnerEdit` changes a file by hand
and happens only with no lock and no live command. The campaign that makes a bundle is
one step (`StartCampaign`, `FinishCampaign`), because the bundle is written
with a rename of its directory. `Overlap` says which commands may be alive together.

**`ActiveState`** is `ActiveStateManager`. `journal`, `pending` and `pointer` are its
files, `live` whether a manager has been constructed, `pc` and `op` the operation under
way. `Initialize`, `Advance` (preview and apply), `Rollback`, `Recover*`, `Open`
(constructor with `reconcile`) and `Crash` follow the methods; a crash ends the
operation, and the manager object with it or, if an exception was raised, not.

**`CampaignSeries`** is `campaign_series.py` without generalization, curriculum locks and status, with
the parts of `campaign.py` that write `campaign.json` or call it. `series` and `entries`
are `series.json`, `lock` the series lock, `camp[c]` the `campaign.json` of a campaign,
`evidence[c][r]` the evidence file of revision r, `bundles` the promotion bundles,
`policy` the policy of the profile. `pc[p]` is where a command is and `mem[p]` its copy
of `campaign.json`; `try[p]` whether the last handler of `run_campaign` is around it.

| actions | code |
|---|---|
| `LockSeries` to `StopSeries`, `Release`, `Refuse` | `initialize_series`, `stop_series`, `series_mutation` |
| `FindNoLock`, `FindRemovable`, `FindRepairable`, `Repair*`, `RemoveStale` | `_recover_stale_series_lock` |
| `LockReconcile`, `Scan`, `Attach`, `FinishReconcile` | `reconcile_series` |
| `Start` to `FinishAllocation`, with `Scan` and `Attach` again | allocation of `run_campaign` (the reconcile inside the lock included) |
| `Resume`, `ResumePreview` | `run_campaign --resume` |
| `EnterLoop` to `Preview` | rounds, budget, typed failures, bundle and preview |
| `PersistEvidence` to `AppendRefused`, `RewriteFailed` | `_persist_series_terminal`, the last handler |
| `BeginPromotion`, `CommitPromotion`, `RecoverPromotion` | `ExternalPromotion`, as its state files appear to the series |

**`CurriculumSelection`** is how a curriculum is computed: the signal of the latest
reports (`Signals`), what of the inbox is eligible, and the greedy selection by
relevance and novelty. `_decimal`'s fractions are integers over a common denominator.

**`CurriculumGrowth`** is what becomes of a selection: `manifest`, `frozen` (the holdout
lock), `inbox`, the parts of `series` that its state digest covers, the series `lock`
with the plan an apply writes into it, `previews` and the growth `journal`. `pc[p]` is
where a command is, `mem[p]` what it has read.

| actions | code |
|---|---|
| `OpenPreview`, `OpenApply`, `Lock`, `Preview`, `Recompute`, `Unlock` | `preview_curriculum`, `apply_curriculum`, `series_mutation` |
| `OpenGrow`, `Check`, `Prepare`, `Replace`, `Commit` | `dataset grow` and `DatasetManager.apply_growth` |
| `OpenRecover`, `FindLock`, `Examine`, `RemoveLock` | `recover_curriculum` |
| `OpenRollback`, `Restore`, `RolledBack` | `DatasetManager.recover_growth` |
| `OpenReconcile`, `Reconcile` | the curriculum branch of `_recover_stale_series_lock` |
| `Advance`, `StopSeries`, `EditInbox`, `Interrupt`, `Kill` | the world around |

`Growable` is `preview_growth`, by which every growth passes, a curriculum's too; `Valid`
and `Uncontaminated` are what loading a manifest checks: no case and no content
twice, none of an untouched case.

**`CalibrationMetrics`** is the collector of `calibration_metrics.py`, coverage and
summary of a report and the comparison of two (`Drift`). Scores are integers; the
rounding of printed numbers is left out.

**`EvaluatorAudit`** is `run_evaluator_calibration` with the approval of anchors, the
parts of `run_campaign` around it and `compare_profile_evaluator_drift`. `checkpoint`,
`budget`, `observations` and `report` are its files; `run[c]` is the process: program
point, collector and count; `asked` is what the evaluators were asked, in order.
`WriteFails` is a write that raises, `Violate` the integrity monitor, `Kill` a death.

**`VectorGates`** is the vector regression: partitions, weights, gains per dimension,
ablation over every gated case, and the order of diagnoses. **`AgreementReport`** is the
agreement collector: events, metrics, panel, summary, and what a report must satisfy to
load (`Consistent`).

**`CampaignLoop`** is `run_campaign` from the audit to the end, outside a series, with
`campaign_cache.py` under it. A call is identified by what its cache key tells apart. A
call that the cache answers changes nothing, so that a process stands at its first call
without an answer: `Calls`, `Due` and `NextCall` find it from the program point, and one
call is three actions, `Count` (the budget is written), `Answer` (the response is) and
what its caller does next. `run` is the process, with its collector; `campaign`,
`checkpoint`, `report`, `differential`, `summary` and `bundle` are the files.

| actions | code |
|---|---|
| `Start`, `Resume`, `ResumePreview` | `run_campaign`, `resume_campaign_promotion_preview` |
| `Audit`, `AuditFails`, `Open`, `OpenFails` | the evaluator audit, as done or failed (`EvaluatorAudit`); agreement checkpoint |
| `Count`, `Answer`, `Lost`, `CallFails` | `CampaignCallExecutor.invoke`; an answer lost with its process; a typed failure |
| `Iterate` to `Exhaust`, `Conclude`, `Pass`, `Reject` | the rounds |
| `PersistReport`, `PersistSummary`, `InstallBundle`, `Write`, `Cleanup` | the end of a campaign |
| `Fault`, `Kill` | an exception at any statement, met by the typed handler, the bare one or none; a death |

A response that the provider's schema refuses is a failure of a kind; a draft that
`propose_patch` refuses is a candidate in `Unfit`.

**`SeriesGeneralization`** is `generalize_series`, with `stop` and `reconcile` as the
other commands of the series that take its lock, and the promotion of the series' one
campaign beside it, which does not. `consumption`, `ledger` and `artifact` are its
files, `called` the calls that reached a provider. The integrity monitor's baseline is
the profile the command loaded. Finding a dead command's lock and unlinking it are two
steps and a lock is released by its path, so that two commands may stand behind one
lock; `series.json` is read and written in one step. The weighted scores are kept as
sums over integers, compared with their definition on the set of answered cases.

The `MC` modules give constants their values, the program points at which a run may
stop among them.

### Liberties

The code does not prevent everything that its documents ask the owner not to do. A
constant of a module names each of these, so that a run says under which it holds:

* `Overlap` (`ExternalPromotion`): `"none"`, one promote command at a time; `"apply"`,
  applies overlap and a recovery runs alone; `"any"`, also recovery beside a live apply.
* `Liberties` of `ActiveState`: `"continue"`, the next operation is started with a
  transaction pending; `"reuse"`, a preview that was committed once is applied again.
* `Liberties` of `CampaignSeries`: `"contend"`, two reconciles clear one stale lock;
  `"resume"`, a campaign is resumed while a stale lock is there or after a later one was
  allocated; `"overtake"`, an older preview is promoted, or one is promoted while the
  next campaign is being allocated (no run: it makes `Lineage` false at once, which
  docs/specs/0008 describes).
* `Liberties` of `CurriculumGrowth`: `"overlap"`, a direct growth beside another
  command (`apply_growth` takes no lock); `"blind"`, an owner who rolls back by hand while
  the manifest is neither the growth's original nor its proposal (`recover_growth` does
  not look, curriculum recovery looks before it);
  `"contend"`, two repairs of one stale lock.

## Runs

| run | shows |
|---|---|
| `EP_serial` | One process, three campaigns over two artifacts, one edit by hand, two deaths at any write once the lock names its campaign. `CommittedSurvives` and `AlwaysLoadable` hold; a stale lock is cleared by recovering again (`StaleLockCleared`). |
| `EP_overlap` | Two applies overlap. One command at a time is behind the lock, and the lock names what it writes (`MutualExclusion`); campaign state and journal agree once it is gone (`StateMatchesJournal`); the second validation keeps the promotion atomic (`ImplementsAtomic`). Deaths come after that validation. |
| `AS_index` | The policy and one component, two evidence digests, two stops at the two points the code recovers from (behind the move of the pointer, behind the commit): pointers follow the journal, its entries are a chain per slot, a manager can be constructed again. Deadlock is checked. |
| `CG_recover` | Two curriculum commands beside each other, direct growths between them, a series that advances or stops, an inbox that is edited, two deaths or interrupts behind the lock or after a write, in recoveries and rollbacks too. Until one has stopped between journal and manifest, what was committed stays (`CommittedKept`); the manifest never holds an untouched case and keeps its holdout (`Isolated`), a plan is applied only in the series it was computed for (`ApprovedInSeries`), a dead apply's lock goes only once its growth is settled (`ClearedSettled`). It does go (`LockCleared`) if the owner recovers, *and rolls back by hand where recovery refuses* (see Divergences). Deadlock is checked. |
| `AU_resume` | One campaign, two slots, two anchors and a budget of three calls; two failing writes, a death, an edit of the anchors. No slot is asked twice within the budget (`CallsAccounted`), what files say was answered (`ReportedTruly`), what campaign.json binds is there (`BindingHolds`), evaluators see reviewed anchors only (`AskedReviewed`), a failed audit that is resumed is bound (`AuditSettles`). |
| `AU_drift` | Two campaigns of different slots and budgets, compared whenever both are bound: a drift stands on two answers that differ (`DriftEvidenced`). |
| `AU_exhausted` | violated: an audit that ran out of budget and could not write its artifacts is resumed and reports itself complete. |
| `CL_resume` | Two train and three gated cases, two candidates, an observer; a failing call, an exception anywhere, a death. `CallsAccounted`; the agreement report and the analyses of a clean campaign are about every evaluation and analysis it made (`EvidenceComplete`); `PreviewJustified`; a failed campaign that is resumed ends (`ResumeConcludes`). |
| `CS_overlap` | Two processes, two campaigns with a resume each, promotions, one kill or interrupt anywhere, every interleaving, campaigns and processes interchangeable (`Symmetry`). `SerialMutations`, `OneIndexEach`, `EntriesEvidenced`, `HistoryIsPolicy` and `EntriesKept` hold. |
| `CS_recover` | One process, two kills or interrupts at the points of `RepairablePoints`, fairness: `StaleLockRemoved` and `EndAttached`. |
| `CS_refused` | violated: an append that meets a held lock or a stopped series; the last handler records `failed` over evidence that says otherwise, and no reconcile accepts the campaign again. |
| `GN_once` | Two commands of a series, one death or interrupt anywhere, the campaign's promotion at any time, a budget that suffices or not. The untouched cases are put to a provider once, also when two commands stand behind one lock (`CalledOnce`); what the series reports is what was answered, about the policy it was left with (`MeasurementTrue`). |

The sentences that the two violations disagree with are under `findings` in
`PROJECT.json`.

### Divergences

Other places where the code does not do what a document says, or where a property needs
what the code does not enforce. Each is reproduced by the change of its row.

| change | violated | what happens |
|---|---|---|
| `EP_overlap`, `CrashPoints <- LockWritten` | `CommittedSurvives` | an apply validates, another promotion commits, the first takes the lock and dies before its second validation; recovery restores its older originals (external_promotion.py:1043) over the committed ones. docs/specs/0005:165-166: "A committed transaction cannot be rolled back through this command" |
| `EP_overlap`, `Overlap = "any"` | `CommittedSurvives` | recovery beside the live apply whose lock it takes for stale (1004) |
| `AS_index`, `CrashPoints = {"prepared"}` | deadlock | a stop between the prepared entry and the pointer (active_state.py:324) leaves every constructor failing |
| `AS_index`, `Liberties = {"reuse"}` | `IndexMatchesJournal` | recovery takes the second application of a preview for its first (active_state.py:306) |
| `CS_overlap`, `Liberties = {"contend"}` | `SerialMutations` | the slower of two reconciles unlinks the lock the faster one has taken (campaign_series.py:965) |
| `CG_recover`, `Mend` without `OpenRollback` | `LockCleared` | a `prepared` journal over the original manifest, which a death at "prepared" or "restored" leaves, is refused by curriculum recovery for good (curriculum.py:1144). docs/specs/0011:354-355: it "is rolled back" |
| `CG_recover`, `CommittedKept` without `~crashes.between`, `MaxSelection = 2`, both additions train, `CrashPoints = {"prepared", "replaced"}` or `{"restored", "replaced"}` | `CommittedKept` | the same journal entry stays `prepared`; other growths commit and bring the manifest to the very proposal it names; a rollback, which now finds the manifest it looks for, takes the committed cases out (dataset.py:366) |
| `CG_recover`, `Liberties = {"overlap"}`, `{"blind"}` or `{"contend"}` | `CommittedKept` | growths without a lock (dataset.py:334); a rollback over a later growth (369); two repairs |

Not stated as a property, since they are about what cannot be done any more, or about
two behaviours:

* The proposer is told the failed gates, `ablation.*` among them, whose gain is computed
  over the holdout cases too (campaign.py:455, vector_regression.py:112);
  docs/specs/0003:117-122 excludes holdout scores and pass/fail.
* A campaign that starts while an interrupted promotion waits for recovery takes the
  half-promoted files as its parent (campaign.py:474); docs/specs/0005:248.
* A resumed preview counts its iteration again if only the last write of `campaign.json`
  had failed (external_promotion.py:711); the type invariant allows for it.
* A campaign that fails in its audit has no agreement checkpoint and cannot be resumed
  into one; one that dies while `running`, without a bundle, cannot be resumed at all.
* A measurement whose second lock is refused, or whose process dies, leaves the series
  `measuring` for good (campaign_series.py:2111); a death between the two last writes
  leaves a status that raises (1929).

### Bounds

Promotions meet in one lock, one journal and one artifact at most, so that two
processes and two campaigns reach every pairwise conflict; `EP_serial` and `EP_overlap`
have a third campaign, on an artifact that is not in the manifest yet. Two deaths let
a recovery die too. In a series, two campaigns are a predecessor and its successor, and
a resume of the older one beside the newer; the hazards need two commands; the second
kill of `CS_recover` may hit the repair of what the first one left, before its first
write only: `RepairablePoints` leaves out the points whose lock reconcile refuses, its
own three among them (campaign_series.py:1011-1049). `MaxRevision = 1` is one resume
per campaign. `MaxJournal` bounds the entries of `ActiveState`, not which operations
follow each other; six hold an initialization, an advance, a recovery and a rollback of
one slot beside another one.

`CG_recover` has two eligible candidates of which one is selected, one with the content
of an untouched case, and additions a growth must refuse; `MaxEntries = 1` is one change
of the series under a plan; deaths and exceptions come at every point behind the lock or
after a write (`MCCrashPoints`), as elsewhere they leave what a refusal leaves.
In `AU_drift` two answers may differ by the target's threshold exactly.
`AU_resume` has one call fewer than slots, so that a budget runs out before, within and
after an interruption. In `CL_resume` the first candidate passes or fails ablation alone,
as its holdout score has it, the second fails validation, a draft may be unfit, and 37
calls are two fewer than the longest campaign makes. `GN_once` has two cases of
different weight: with one measured and one not, `partial` differs from `measured`, and
the weighted gain from a plain one; budget 7 is one call too few.

CHECK_DEADLOCK is off in all runs but `AS_index` and `CG_recover`, because a system of
commands that nobody starts again has really stopped.

### Fairness

`WF(Step(p))`: a command that is alive goes on to its next write; nothing in it waits
for another command (a held lock is refused, not awaited). `SF` of `Recover` in
`ExternalPromotion` and of `Reconcile` in `CampaignSeries`: the owner starts it again
and again until it succeeds; weak fairness is not enough, since every other command
disables it for a while. `SF(CommitPromotion)`: a promotion that is interrupted and
applied again is committed at some time, as deaths are bounded. `ActiveState` has
`WF` of its steps, of recovery and of construction. Nothing forces a campaign to be
started, resumed, approved or promoted there.

`CurriculumGrowth`: `WF(Step(p))`, and `SF` of `Mend`, the owner's part after an apply
that died: a recovery that names the plan of the lock it finds or, where it refuses the
`prepared` journal over the original manifest, `DatasetManager.recover_growth` by hand,
as tests/test_curriculum_recovery.py:128 does. `LockCleared` supposes that again and
again no command runs (`Pause`), so that the owner can mend. `EvaluatorAudit`: `WF` of a
running audit, of the owner's preview and approval, and `SF(Resume)`, as another
failure disables it for a while. `CampaignLoop`: `WF(Step)`, and `WF` of resuming, as
one process runs. Faults, deaths and failing calls are bounded and never fair.

### Assumptions of the models

* Writes of single files are atomic (temporary file and rename); a half-written line
  of a JSONL journal is not modelled, nor is a failing `fsync`.
* No process id is reused while its lock exists.
* One command per campaign is alive at a time. `campaign.json` has no lock of its own.
* `reconcile_series` reads the campaigns in one step.
* A promotion's freshness is judged on the whole profile, as the code does.
* The profile of `CampaignLoop` has observers, an analyzer and an evaluator audit; its
  campaign is outside a series. `EvaluatorAudit` runs one command at a time.
* A series of `SeriesGeneralization` has one campaign; its promotion has two writes.
* A stale lock repair that meets a file it does not expect raises and leaves the lock:
  in the model it stops there, which is the same as a kill.

### Mutants

Operators under "with one line wrong" or marked "Mutant" in the modules, and the `mutants` of
`PROJECT.json`, are plausible mistakes in the code: a lock created without O_EXCL, files replaced in
the wrong order, evidence overwritten. Put in the place of the definition they vary, each makes the
property it is listed with fail in its run.

## Proofs

The modules `*Proofs` and `FoldLemmas` hold for any processes, campaigns, artifacts,
slots, cases, anchors and answers, any budgets, and any number of deaths and faults. Each
proof is by induction over the actions; TLC checked every strengthened invariant on the
component's run before it was proved. A theorem's hypotheses on liberties and program
points are listed with it; those of `Divergences` show that they are needed.

| module | theorem | property | under |
|---|---|---|---|
| `ExternalPromotionProofs` | `TypeCorrect` | `TypeOK` | |
| | `CommittedNeverRolledBack`, `ProfileAlwaysLoadable`, `StateFollowsJournal` | `CommittedSurvives`, `AlwaysLoadable`, `StateMatchesJournal` | `Orderly`: one command at a time, or overlapping applies and no death at "locked" |
| | `ImplementsAtomicPromotion` | `ImplementsAtomic` | `Orderly` |
| | `ExclusiveWriter` | `MutualExclusion` | recovery alone |
| `ActiveStateProofs` | `TypeCorrect` | `TypeOK` | |
| | `IndexFollowsJournal`, `JournalUnbroken` | `IndexMatchesJournal`, `JournalChain` | no liberties, stops at the two recoverable points |
| `CampaignSeriesProofs` | `TypeCorrect` | `TypeOK` | |
| | `SerializedMutations`, `EntriesOnlyGrow` | `SerialMutations`, `EntriesKept` | not `"contend"` |
| | `IndicesUnique`, `EntriesAreEvidenced`, `HistoryLeadsToPolicy` | `OneIndexEach`, `EntriesEvidenced`, `HistoryIsPolicy` | not `"contend"`, not `"overtake"` |
| `CurriculumGrowthProofs` | `GrowthTypeCorrect`, `ManifestIsolated` | `TypeOK`, `Isolated` | |
| | `AppliedAsApproved` | `ApprovedInSeries` | not `"contend"` |
| | `DeadApplySettled` | `ClearedSettled` | not `"contend"`, not `"overlap"` |
| | `CommittedGrowthStays` | `CommittedKept` | no liberties |
| `EvaluatorAuditProofs` | `AuditTyped`, `AuditCallsAccounted`, `AuditAskedReviewed`, `AuditReportedTruly`, `AuditBindingHolds`, `AuditDriftEvidenced` | `TypeOK`, `CallsAccounted`, `AskedReviewed`, `ReportedTruly`, `BindingHolds`, `DriftEvidenced` | |
| `CampaignLoopProofs` | `LoopTyped`, `LoopCallsAccounted`, `LoopPreviewJustified`, `LoopEvidenceComplete` | `TypeOK`, `CallsAccounted`, `PreviewJustified`, `EvidenceComplete` | |
| `SeriesGeneralizationProofs` | `GeneralizationTyped`, `UntouchedCalledOnce`, `MeasurementIsTrue` | `TypeOK`, `CalledOnce`, `MeasurementTrue` | |

### Assumptions on the constants

They are the `ASSUME` of each module, which TLC evaluates in every run. Those that the
proofs added and what in the code justifies them:

* `NoFile`, `NoLock`, `NoHoldout` differ from everything a file can hold: the code tests
  for the file's existence, not its contents.
* `Order`, `Slots`, `Train`, `Rest`, `ObserverOrder` are sequences over their sets: lists
  the profile's loader has read; `IsInjective` of `Order` and `Train`, as the loaders
  refuse a case id twice (dataset.py:98, generalization.py:132).
* Scores, expected scores, thresholds and weights are numbers, weights positive: what the
  parsers of answers and configuration accept.
* `EvaluatorAudit`: the reason a failed call leaves in a sample is neither of the two
  that the audit writes itself, since it is derived from the provider's kind.
* `SeriesGeneralization`: a budget is positive; a dead process is none of the live ones.

### How the invariants go

**`FoldLemmas`** are the lemmas under the others. The library's induction theorems take
an operator that the provers do not instantiate; here induction is stated for a *set*:
`NatInSet` (a set with zero that is closed under successor holds every natural, from the
well-foundedness of strict inclusion) and `SubsetsInFamily` for finite sets. On them
rest: that a recursive function exists at all, which a definition by CHOOSE leaves open
(`SumsExist`, `IterationExists`), that a sum over a set may take any element first
(`SumStep`) and is what the recursion over its elements yields (`SumsAre`), that a sum of
terms within a bound is within the bound times their number (`SumBounded`), that a
finite set of naturals has a greatest member (`MaxOfNaturals`), and that an image of a
finite set is finite (`ImageFinite`).

**`ExternalPromotionProofs`**. `LockInv` says who owns the lock; it holds as long as no
recovery meets a live command (`ExclusiveWriter`). On it rests `PromotionInv`, for
`Orderly` commands: any number of applies may have made their first check and go for the
lock, but only one stands behind it, and every other is still at its check or gone.
`CommittedSurvives` is not inductive by itself, since a restoring recovery keeps it only
if the bundle of the lock's campaign is newer than every committed one; this is `Kept`,
which in turn needs to know at which program points the files are the bundle's
(`FilesAt`), what the journal says there (`JournalAt`), and the same behind the lock of a
dead command (`BehindLock`). All of these speak of a transaction from its *second*
validation on (`Validated`): an apply that waited may find another campaign's promotion
committed, and it is `Revalidate` that brings the three back, because a profile that is
still the bundle's has no committed promotion of that campaign in it. With one command
at a time the first check is as good (`AloneAt`), which is why a death before the second
validation is harmless there and only there (Divergences). The refinement maps the
profile in effect to `InEffect` and shows that every step but the commit marker is a
stutter. Campaign state and journal are written one after the other, so that
`StateMatchesJournal` holds only without a lock: `StateFollowsJournal` follows the pair
through the writes that a lock stands for.

**`ActiveStateProofs`**. `IndexInv` says how far pointer and journal are apart at each
program point of an operation, and behind a pending transaction; its conjunct on
the chain says that an entry's `before` is what was active when it was made, and what a
pending operation is about to append. The digest a journal makes active is a CHOOSE of
the last entry of a slot; the lemmas on it show what an append does to it.

**`CampaignSeriesProofs`**. `TypeInv` adds to `TypeOK` that a command past an allocation
has a campaign, and one past a campaign's end a terminal state. `LockInv` says that a
command behind the lock is named by it, a repair stands behind the lock of a dead
process, and there is one repair; `LockUse` lists the eight ways a step may treat the
lock, and `UsesLock` shows that every action is one of them. `EntriesOnlyGrow` rests on
it: a stopped series stays stopped only because nobody else can stand between
`series init`'s directory and its file.
The other three need one invariant over all that files, entries and commands say of a
campaign. `LineInv`: a campaign's parent is what the applied campaigns before it left,
and the policy what all of them left. `EntriesInv`: entries tell the truth, their
indices do not fall and have no gap below `Count`. `CommandsInv`: a command's copy of
`campaign.json` agrees with the file on index and parent (`CopyInv`); before it takes an
index, a new campaign has seen every other one attached, and once its lock names the
index, no promotion is under way (`AllocationInv`); the campaign that a lock names is the
last, and has not run as long as there is no evidence of it (`AllocatedInv`), so that its
repair writes the policy it did start from (`LastParent`). The steps that leave every
campaign in its place are dealt with at once (`CommandsMoved`, `MovedQuietly`); entries,
allocation and promotion by themselves. `ParentLeft` shows that the replay of the entries
before a position is what their campaigns left; `LineageHolds` and `ExpectedIsPolicy`
follow.

**`CurriculumGrowthProofs`**. `IsolatedInv`: every growth that a plan, the journal or a
command holds was accepted by `preview_growth` for the holdout that is frozen now, so
that writing its proposal and restoring its original are both harmless; this needs no
lock. `LockInv` is the series lock's: behind it are the command it names, or the one
repair of a dead one's. From it and from `AloneInv` follows `OneWriter`, and so that what
a command has read of manifest and journal still holds when it acts (`FilesInv`).
`CommittedKept` alone is not inductive: a rollback restores an *older* manifest. `ChainInv`
is what makes that safe: of any two growths that are not rolled back, one ends before the
other begins, and all are in the manifest but one that its writer has not written yet; so
the growth whose proposal the manifest is, is the last of the chain. A stop between
journal and manifest (`Between`) breaks the chain; property and invariant hold until one
has happened (Divergences).
`SelectionTaken` proves of the greedy selection, for every inbox and counts, that it
exists and takes what is in the inbox.

**`SeriesGeneralizationProofs`**. One command owns the consumption record, since it is
created exclusively (`OneOwner`), also when two commands stand behind one lock; only the
owner has anything in flight. `CallsInv` ties its ledger and the calls that were made to
`Schedule`, the order of cases, `MeasuringAt` says so at each program point, and
`ArtifactInv` and `BoundInv` carry the measurement into the artifact and what is bound;
together they are `MeasureInv`. The gains of an artifact are compared with their
definition by the lemmas on sums.

**`EvaluatorAuditProofs`**. Per campaign: what was asked never exceeds the budget file,
and a call in flight has its unit counted there (`BudgetInv`); collector and files say
only what was answered (`Truthful`), the files agree with the collector between steps,
and the one slot that is marked has not been asked (`CollectorInv`, `OnePending`,
`FilesInv`); what is bound is complete (`BindingInv`). `AuditDriftEvidenced` needs in
addition that averages of equal answers are equal and that a difference of averages
beyond a threshold leaves two answers that differ, which is `SumBounded`.

**`CampaignLoopProofs`**. The cache only grows, and a judgement on a candidate (`Found`,
`Refuted`) is about cached answers, so that it stays true whatever happens after it.
`InFlight`: the call under way is one of those that the program point calls for, and has
no answer yet. `IterationInv` bounds the iteration, which a resumed preview may count
again, by the faults there were; `GateInv` and `PreviewInv` carry the judgement from the
gates to the bundle and the file. Six lemmas, one for each way a step may treat the
process (`MoveStep`, `StopStep`, `FailStep`, `SyncStep`, `BeginStep`, `EndStep`), reduce
every action to what it writes.

`LoopEvidenceComplete` needs to know that nothing cached is passed over when a campaign
is resumed, although its memory is gone. The evaluations of an iteration come in an order
that the *cache* decides, since the proposer's answer is cached too: the train cases, then,
if a new candidate is proposed, the gated cases. `PendingInv`: an evaluation that the
checkpoint lacks is the one that this order reaches next, so that an iteration that is
begun again finds it before it can go on; `PlaceInv` says so at each program point.
`OrderInv` and `CallInv`: observers are asked in their order, and after the output;
`LogInv`: an event of the checkpoint has every slot, those that failed included. `EndInv`
and `RecordInv` carry the complete log into report, summary, bundle and `campaign.json`.
That a report is also consistent with its events is `LogConsistent`: ratios and averages
are those of the slots that were answered.

### Only model-checked

* Liveness (`StaleLockCleared`, `Reopens`, `StaleLockRemoved`, `EndAttached`,
  `LockCleared`, `AuditSettles`, `ResumeConcludes`): fairness and ENABLED are beyond the
  prover.
* What the recursive and folded operators compute beyond the facts in `FoldLemmas` and
  `SelectionTaken`: the order of a selection, the metrics of agreement and calibration.

## Not modelled

* `promotion.py`: the journaled replacement of one file, the predecessor of
  `external_promotion.py`, of the same shape as the growth of `dataset.py`.
* `runtime.py`: rows in SQLite, whose transactions are SQLite's; no campaign command
  uses it. `transition_run` checks before it updates in another connection (279).
* `feedback_optimization.py`: partitions a list and calls the active state.
* `persist_promotion_bundle`'s staging directory, `campaign_status`, series status and
  evidence report: they write nothing that another command reads, or only read.
* The integrity monitor's snapshot of repository and target, provider processes and
  their encoding, parsing, validation and digests of documents, the validation of claim
  graphs, hygiene, demonstration and command line: input and output.
* A campaign in a series and its rounds in one module: `CampaignSeries` and
  `CampaignLoop` each have one side, and meet in the terminal states of `campaign.json`.
* Torn writes and failing syncs of JSONL files, for which the code has no recovery.
