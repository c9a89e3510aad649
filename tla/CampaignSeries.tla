---------------------------- MODULE CampaignSeries ----------------------------
(***************************************************************************)
(* kpo.campaign_series with the part of kpo.campaign that it depends on:    *)
(* commands (`series init`, `series stop`, `series reconcile`, `campaign`,  *)
(* `campaign --resume`) as processes that share series.json, the series     *)
(* lock, campaign.json and evidence of every campaign, and the profile's    *)
(* policy.  Every durable write is an action; a command may be killed or    *)
(* interrupted at a program point of CrashPoints.                           *)
(***************************************************************************)
EXTENDS Integers, Sequences, FiniteSets

CONSTANTS Procs, Campaigns,
          Initial,       \* the policy the series is initialized with
          Nobody,        \* the campaign of a command that has none
          NoLock, Dead,  \* no lock; the owner of a lock whose process is gone
          MaxCampaigns,  \* max_campaigns of the series
          MaxRevision,   \* bound on the revisions of a campaign
          Liberties,     \* what the owner does although nothing says one may
          CrashPoints, MaxCrashes

VARIABLES series,    \* series.json: absent, an empty directory, active, stopped
          entries,   \* its entries
          lock,      \* the series lock
          camp,      \* campaign.json of every campaign
          evidence,  \* series-evidence[.revision].json of every campaign
          bundles,   \* campaigns with an installed promotion bundle
          policy,    \* the policy of the profile: Initial, or a candidate
          pc, on,    \* where every command is, and for which campaign
          mem,       \* its copy of campaign.json
          try,       \* whether run_campaign's last handler is around it
          todo,      \* the entries a reconcile has still to append
          crashes

store == <<series, entries, camp, evidence, bundles, policy>>
command == <<pc, on, mem, try, todo>>
vars == <<series, entries, lock, camp, evidence, bundles, policy, pc, on, mem, try, todo, crashes>>

Policies == Campaigns \cup {Initial}
Revisions == 0..MaxRevision
None == -1
Terminal == {"failed", "exhausted", "previewed"}
NoEvidence == [state |-> "none", parent |-> Initial]

(* bound: the revision whose evidence campaign.json names; pending: the       *)
(* series_pending_report of a passing candidate.                             *)
CampaignFiles == [state : {"none", "running"} \cup Terminal, index : Nat, rev : Revisions,
                  parent : Policies, bound : Revisions \cup {None}, pending : BOOLEAN,
                  promo : {"none", "previewed", "applying", "applied", "recovered"}]
NoCampaign == [state |-> "none", index |-> 0, rev |-> 0, parent |-> Initial,
               bound |-> None, pending |-> FALSE, promo |-> "none"]

Entries == [camp : Campaigns, index : Nat, rev : Revisions, state : Terminal, parent : Policies]
EntryOf(c, k) == [camp |-> c, index |-> k.index, rev |-> k.rev, state |-> k.state,
                  parent |-> k.parent]

Operations == {"initialize", "stop", "reconcile", "allocation", "append"}
Locks == [op : Operations, camp : Campaigns \cup {Nobody}, index : Nat \cup {None},
          rev : Revisions, owner : Procs \cup {Dead}]

(* "overtake": the owner promotes an older preview, or while a campaign is    *)
(* being allocated; "contend": two reconciles clear one stale lock; "resume": *)
(* a campaign is resumed before a stale lock was cleared, or after a later    *)
(* campaign was allocated.                                                   *)
ASSUME SeriesAssumption ==
  /\ Initial \notin Campaigns /\ Nobody \notin Campaigns /\ Dead \notin Procs
  /\ MaxCampaigns \in Nat /\ MaxRevision \in Nat /\ MaxCrashes \in Nat
  /\ NoLock \notin Locks
  /\ Liberties \subseteq {"overtake", "contend", "resume"}

(* Points with the lock held, and the others.                                *)
LockedPoints == {"initialize", "directory", "stop", "scanning", "attaching",
                 "allocating", "catching up", "named", "written", "appending", "done"}
RepairPoints == {"clearing", "repairing", "evidence repaired", "campaign repaired", "entry repaired"}
RunPoints == {"running", "looping", "reported", "bundled", "ended", "evidenced",
              "recorded", "excepting"}
FreePoints == {"idle", "unlocked", "started"}

TypeOK ==
  /\ series \in {"absent", "directory", "active", "stopped"}
  /\ entries \in Seq(Entries)
  /\ lock \in Locks \cup {NoLock}
  /\ camp \in [Campaigns -> CampaignFiles]
  /\ evidence \in [Campaigns -> [Revisions -> [state : Terminal, parent : Policies] \cup {NoEvidence}]]
  /\ bundles \subseteq Campaigns
  /\ policy \in Policies
  /\ pc \in [Procs -> LockedPoints \cup RepairPoints \cup RunPoints \cup FreePoints]
  /\ on \in [Procs -> Campaigns \cup {Nobody}]
  /\ mem \in [Procs -> CampaignFiles]
  /\ try \in [Procs -> BOOLEAN]
  /\ todo \in [Procs -> SUBSET Entries]
  /\ crashes \in Nat

Init ==
  /\ series = "absent" /\ entries = <<>> /\ lock = NoLock
  /\ camp = [c \in Campaigns |-> NoCampaign]
  /\ evidence = [c \in Campaigns |-> [r \in Revisions |-> NoEvidence]]
  /\ bundles = {} /\ policy = Initial
  /\ pc = [p \in Procs |-> "idle"] /\ on = [p \in Procs |-> Nobody]
  /\ mem = [p \in Procs |-> NoCampaign] /\ try = [p \in Procs |-> FALSE]
  /\ todo = [p \in Procs |-> {}]
  /\ crashes = 0

------------------------------------------------------------------------------
(* Reading the series.                                                      *)

Attached(c, r) == \E i \in DOMAIN entries : entries[i].camp = c /\ entries[i].rev = r
EntriesOf(c) == {i \in DOMAIN entries : entries[i].camp = c}
Latest(c) == entries[CHOOSE i \in EntriesOf(c) : \A k \in EntriesOf(c) : k <= i]
Count == Cardinality({entries[i].camp : i \in DOMAIN entries})

(* effective_series_entries: the last of each run of entries of a campaign.   *)
EffectiveEntries ==
  {i \in DOMAIN entries : i = Len(entries) \/ entries[i + 1].camp # entries[i].camp}

(* The policy the effective entries before position n lead to.               *)
ParentAt(n) ==
  LET A == {i \in EffectiveEntries : i < n /\ camp[entries[i].camp].promo = "applied"}
  IN  IF A = {} THEN Initial ELSE entries[CHOOSE i \in A : \A k \in A : k <= i].camp
ExpectedParent == ParentAt(Len(entries) + 1)

NoApplying == \A i \in EffectiveEntries : camp[entries[i].camp].promo # "applying"

(* expected_series_parent raises unless all of this holds.                   *)
Lineage == \A i \in EffectiveEntries : entries[i].parent = ParentAt(i)
Binding(e) == camp[e.camp].bound = e.rev /\ EntryOf(e.camp, camp[e.camp]) = e
Replays == NoApplying /\ Lineage /\ \A i \in EffectiveEntries : Binding(entries[i])

(* What append_series_entry accepts: an identical entry, or the next one.     *)
Identical(e) == \E i \in DOMAIN entries : entries[i] = e
Follows(e) ==
  /\ ~Attached(e.camp, e.rev)
  /\ \A i \in DOMAIN entries : entries[i].index = e.index => entries[i].camp = e.camp
  /\ IF EntriesOf(e.camp) # {}
     THEN LET last == entries[Len(entries)]
          IN  /\ last.camp = e.camp /\ last.index = e.index
              /\ last.rev + 1 = e.rev /\ last.state = "failed"
     ELSE e.rev = 0 /\ e.index = Count /\ Count < MaxCampaigns
AppendableStopped(e) == Identical(e) \/ Follows(e)   \* mutant: a stopped series
Appendable(e) == series = "active" /\ (Identical(e) \/ Follows(e))
AppendEntry(e) == entries' = IF Identical(e) THEN entries ELSE Append(entries, e)

(* What reconcile's scan accepts of every campaign of the series.            *)
EvidenceAgrees(c) ==
  /\ camp[c].bound = camp[c].rev
  /\ evidence[c][camp[c].rev] = [state |-> camp[c].state, parent |-> camp[c].parent]
ScannedFirst ==   \* mutant: a reconcile that knows first results only
  {EntryOf(c, camp[c]) : c \in {d \in Campaigns : camp[d].state # "none" /\ camp[d].rev = 0}}
Scanned == {EntryOf(c, camp[c]) : c \in {d \in Campaigns : camp[d].state # "none"}}
Scannable ==
  /\ series = "active" /\ NoApplying
  /\ \A c \in Campaigns :
       camp[c].state # "none" => camp[c].state \in Terminal /\ EvidenceAgrees(c)

IsLast(c) == \A d \in Campaigns : camp[d].state # "none" => camp[d].index <= camp[c].index

------------------------------------------------------------------------------
(* Steps of a command.                                                      *)

Idle(p) == pc[p] = "idle"
At(p, s) == pc[p] = s
Goto(p, s) == pc' = [pc EXCEPT ![p] = s] /\ UNCHANGED <<on, mem, try, todo>>
Leave(p) ==
  /\ pc' = [pc EXCEPT ![p] = "idle"] /\ on' = [on EXCEPT ![p] = Nobody]
  /\ mem' = [mem EXCEPT ![p] = NoCampaign] /\ try' = [try EXCEPT ![p] = FALSE]
  /\ todo' = [todo EXCEPT ![p] = {}]
Enter(p, c, k, t, s) ==
  /\ pc' = [pc EXCEPT ![p] = s] /\ on' = [on EXCEPT ![p] = c]
  /\ mem' = [mem EXCEPT ![p] = k] /\ try' = [try EXCEPT ![p] = t]
  /\ UNCHANGED todo
Continue(p, k, s) == Enter(p, on[p], k, try[p], s)

Unlink == lock' = NoLock
TakeLock(p, op, i) ==
  /\ lock = NoLock
  /\ lock' = [op |-> op, camp |-> on[p], index |-> i, rev |-> mem[p].rev, owner |-> p]
WriteCampaignFile(c, k) == camp' = [camp EXCEPT ![c] = k]

(* An exception of _persist_series_terminal: out of run_campaign's `try` it    *)
(* meets the last handler, anywhere else it ends the command.                *)
Raise(p) ==
  IF try[p] THEN Continue(p, [mem[p] EXCEPT !.state = "failed"], "excepting") ELSE Leave(p)

------------------------------------------------------------------------------
(* The rules above with one line wrong; a run finds each (README, "Mutants").  *)

(* A stale allocation that left no campaign file, left to the owner.          *)
RemovableMutation ==
  \/ /\ lock.op = "append" /\ Replays
     /\ \E i \in EntriesOf(lock.camp) : entries[i].index = lock.index /\ entries[i].rev = lock.rev
  \/ lock.op \in {"initialize", "reconcile", "stop"} /\ series \in {"active", "stopped"} /\ NoApplying

(* The policy loaded before the lock is not compared with the replay.         *)
AllocateUncompared(p) == Replays /\ Count < MaxCampaigns

(* A lock taken for stale whether or not its process is alive.                *)
FindAnyLock(p) ==
  /\ Idle(p) /\ lock # NoLock
  /\ Goto(p, "clearing")
  /\ UNCHANGED <<store, lock, crashes>>

(* Campaigns that are not at their end are skipped, not refused.              *)
ScanTerminal(p) ==
  /\ pc[p] \in {"scanning", "allocating"} /\ series = "active" /\ NoApplying
  /\ pc' = [pc EXCEPT ![p] = IF At(p, "scanning") THEN "attaching" ELSE "catching up"]
  /\ todo' = [todo EXCEPT ![p] = {e \in Scanned : e.state \in Terminal}]
  /\ UNCHANGED <<store, lock, on, mem, try, crashes>>

(* Evidence of a revision written again.                                      *)
OverwriteEvidence(p) ==
  /\ At(p, "ended")
  /\ evidence' = [evidence EXCEPT ![on[p]][mem[p].rev] =
                    [state |-> mem[p].state, parent |-> mem[p].parent]]
  /\ Continue(p, [mem[p] EXCEPT !.bound = mem[p].rev], "evidenced")
  /\ UNCHANGED <<series, entries, lock, camp, bundles, policy, crashes>>

(* The cause of the failure recorded as the terminal state.                    *)
RepairInterrupted(p) ==
  /\ At(p, "repairing")
  /\ evidence' = [evidence EXCEPT ![on[p]][0] = [state |-> "interrupted", parent |-> policy]]
  /\ Continue(p, [mem[p] EXCEPT !.bound = 0], "evidence repaired")
  /\ UNCHANGED <<series, entries, lock, camp, bundles, policy, crashes>>

------------------------------------------------------------------------------
(* series init and series stop.                                             *)

LockSeries(p, op) ==
  /\ Idle(p) /\ op \in {"initialize", "stop"}
  /\ TakeLock(p, op, None)
  /\ Goto(p, op)
  /\ UNCHANGED <<store, crashes>>

MakeDirectory(p) ==
  /\ At(p, "initialize") /\ series = "absent"
  /\ series' = "directory"
  /\ Goto(p, "directory")
  /\ UNCHANGED <<entries, lock, camp, evidence, bundles, policy, crashes>>

WriteSeries(p) ==
  /\ At(p, "directory")
  /\ series' = "active"
  /\ Goto(p, "done")
  /\ UNCHANGED <<entries, lock, camp, evidence, bundles, policy, crashes>>

StopSeries(p) ==
  /\ At(p, "stop") /\ series \in {"active", "stopped"} /\ Replays
  /\ series' = "stopped"
  /\ Goto(p, "done")
  /\ UNCHANGED <<entries, lock, camp, evidence, bundles, policy, crashes>>

(* series_mutation unlinks by path, however its body ends.                   *)
Release(p) ==
  /\ At(p, "done")
  /\ Unlink /\ Leave(p)
  /\ UNCHANGED <<store, crashes>>

------------------------------------------------------------------------------
(* _recover_stale_series_lock and reconcile_series.                         *)

Stale == lock # NoLock /\ lock.owner = Dead

(* The lock of a dead command that recovery removes after a look, and the one *)
(* of an allocation whose campaign it first records as failed.               *)
Removable ==
  \/ /\ lock.op = "append" /\ Replays
     /\ \E i \in EntriesOf(lock.camp) : entries[i].index = lock.index /\ entries[i].rev = lock.rev
  \/ lock.op \in {"initialize", "reconcile", "stop"} /\ series \in {"active", "stopped"} /\ NoApplying
  \/ lock.op = "allocation" /\ lock.index # None /\ camp[lock.camp].state = "none"

Repairable ==
  /\ lock.op = "allocation" /\ lock.index # None
  /\ camp[lock.camp] = [NoCampaign EXCEPT !.state = "running", !.index = lock.index,
                                          !.parent = camp[lock.camp].parent]
  /\ \A r \in Revisions : evidence[lock.camp][r] = NoEvidence
  /\ lock.camp \notin bundles

MayReconcile(p) ==
  Idle(p) /\ ("contend" \in Liberties \/ \A q \in Procs : pc[q] \notin RepairPoints)

FindNoLock(p) ==
  /\ MayReconcile(p) /\ lock = NoLock
  /\ Goto(p, "unlocked")
  /\ UNCHANGED <<store, lock, crashes>>

FindRemovable(p) ==
  /\ MayReconcile(p) /\ Stale /\ Removable
  /\ Goto(p, "clearing")
  /\ UNCHANGED <<store, lock, crashes>>

FindRepairable(p) ==
  /\ MayReconcile(p) /\ Stale /\ Repairable
  /\ Enter(p, lock.camp, [camp[lock.camp] EXCEPT !.state = "failed"], FALSE, "repairing")
  /\ UNCHANGED <<store, lock, crashes>>

(* Its evidence names the policy the profile has now as the parent.  A repair  *)
(* that meets something else raises and leaves the lock, as a kill does.      *)
RepairEvidence(p) ==
  /\ At(p, "repairing")
  /\ LET e == [state |-> "failed", parent |-> policy]
     IN  /\ evidence[on[p]][0] \in {NoEvidence, e}
         /\ evidence' = [evidence EXCEPT ![on[p]][0] = e]
  /\ Continue(p, [mem[p] EXCEPT !.bound = 0], "evidence repaired")
  /\ UNCHANGED <<series, entries, lock, camp, bundles, policy, crashes>>

RepairCampaign(p) ==
  /\ At(p, "evidence repaired")
  /\ WriteCampaignFile(on[p], mem[p])
  /\ Goto(p, "campaign repaired")
  /\ UNCHANGED <<series, entries, lock, evidence, bundles, policy, crashes>>

RepairEntry(p) ==
  /\ At(p, "campaign repaired")
  /\ LET e == EntryOf(on[p], mem[p]) IN Appendable(e) /\ AppendEntry(e)
  /\ Enter(p, Nobody, NoCampaign, FALSE, "entry repaired")
  /\ UNCHANGED <<series, lock, camp, evidence, bundles, policy, crashes>>

RemoveStale(p) ==
  /\ pc[p] \in {"clearing", "entry repaired"}
  /\ Unlink
  /\ Goto(p, "unlocked")
  /\ UNCHANGED <<store, crashes>>

LockReconcile(p) ==
  /\ At(p, "unlocked")
  /\ TakeLock(p, "reconcile", None)
  /\ Goto(p, "scanning")
  /\ UNCHANGED <<store, crashes>>

(* The lock is taken: a mutation that has written nothing yet gives up.      *)
GiveUpLock(p) ==
  /\ pc[p] \in {"unlocked", "started"} /\ lock # NoLock
  /\ Leave(p)
  /\ UNCHANGED <<store, lock, crashes>>

Scan(p) ==
  /\ pc[p] \in {"scanning", "allocating"} /\ Scannable
  /\ pc' = [pc EXCEPT ![p] = IF At(p, "scanning") THEN "attaching" ELSE "catching up"]
  /\ todo' = [todo EXCEPT ![p] = Scanned]
  /\ UNCHANGED <<store, lock, on, mem, try, crashes>>

(* In index order.                                                          *)
First(e, S) == \A f \in S : e.index <= f.index

Attach(p) ==
  /\ pc[p] \in {"attaching", "catching up"}
  /\ \E e \in todo[p] :
       /\ First(e, todo[p]) /\ Appendable(e)
       /\ AppendEntry(e)
       /\ todo' = [todo EXCEPT ![p] = @ \ {e}]
  /\ UNCHANGED <<series, lock, camp, evidence, bundles, policy, pc, on, mem, try, crashes>>

(* The end of a reconcile, whether or not its last replay raises.            *)
FinishReconcile(p) ==
  /\ At(p, "attaching") /\ todo[p] = {}
  /\ Unlink /\ Leave(p)
  /\ UNCHANGED <<store, crashes>>

------------------------------------------------------------------------------
(* run_campaign: a new campaign is allocated behind the series lock.         *)

(* One command per campaign at a time; the profile is loaded before the lock. *)
Start(p, c) ==
  /\ Idle(p) /\ camp[c].state = "none" /\ \A q \in Procs : on[q] # c
  /\ Enter(p, c, [NoCampaign EXCEPT !.state = "running", !.parent = policy], FALSE, "started")
  /\ UNCHANGED <<store, lock, crashes>>

LockAllocation(p) ==
  /\ At(p, "started")
  /\ TakeLock(p, "allocation", None)
  /\ Goto(p, "allocating")
  /\ UNCHANGED <<store, crashes>>

CanAllocate(p) ==
  /\ Replays
  /\ ExpectedParent = mem[p].parent
  /\ Count < MaxCampaigns

NameLock(p) ==
  /\ At(p, "catching up") /\ todo[p] = {} /\ CanAllocate(p)
  /\ lock' = [op |-> "allocation", camp |-> on[p], index |-> Count, rev |-> 0, owner |-> p]
  /\ Continue(p, [mem[p] EXCEPT !.index = Count], "named")
  /\ UNCHANGED <<store, crashes>>

WriteAllocation(p) ==
  /\ At(p, "named")
  /\ WriteCampaignFile(on[p], mem[p])
  /\ Goto(p, "written")
  /\ UNCHANGED <<series, entries, lock, evidence, bundles, policy, crashes>>

FinishAllocation(p) ==
  /\ At(p, "written")
  /\ Unlink
  /\ Goto(p, "running")
  /\ UNCHANGED <<store, crashes>>

(* A check behind the lock raises; the lock is removed and the command ends.  *)
Refuse(p) ==
  /\ \/ At(p, "initialize") /\ series # "absent"
     \/ At(p, "stop") /\ ~(series \in {"active", "stopped"} /\ Replays)
     \/ pc[p] \in {"scanning", "allocating"} /\ ~Scannable
     \/ /\ pc[p] \in {"attaching", "catching up"}
        /\ \E e \in todo[p] : First(e, todo[p]) /\ ~Appendable(e)
     \/ At(p, "catching up") /\ todo[p] = {} /\ ~CanAllocate(p)
  /\ Unlink /\ Leave(p)
  /\ UNCHANGED <<store, crashes>>

------------------------------------------------------------------------------
(* run_campaign --resume.                                                   *)

(* The copy in memory takes the next revision if the last one is attached.    *)
NextRevision(c) == IF EntriesOf(c) = {} THEN 0 ELSE camp[c].rev + 1
RevisionBound(c) ==
  IF EntriesOf(c) = {} THEN camp[c].rev = 0
  ELSE Latest(c).state = "failed" /\ Latest(c).index = camp[c].index /\ Latest(c).rev = camp[c].rev

MayResume(p, c) ==
  /\ Idle(p) /\ \A q \in Procs : on[q] # c
  /\ "resume" \in Liberties \/ (~Stale /\ IsLast(c))
  /\ series = "active" /\ Replays /\ ExpectedParent = policy
  /\ camp[c].state \in {"running", "failed"} /\ camp[c].parent = policy
  /\ RevisionBound(c) /\ NextRevision(c) \in Revisions

Resume(p, c) ==
  /\ MayResume(p, c) /\ camp[c].state = "failed" /\ c \notin bundles
  /\ Enter(p, c, [camp[c] EXCEPT !.rev = NextRevision(c)], FALSE, "running")
  /\ UNCHANGED <<store, lock, crashes>>

(* An installed bundle is reported without a run, if its report was recorded. *)
ResumePreview(p, c) ==
  /\ MayResume(p, c) /\ c \in bundles /\ camp[c].pending
  /\ Enter(p, c, [camp[c] EXCEPT !.rev = NextRevision(c), !.state = "previewed",
                                 !.promo = "previewed", !.pending = FALSE], FALSE, "ended")
  /\ UNCHANGED <<store, lock, crashes>>

------------------------------------------------------------------------------
(* The rounds of a campaign, as far as its state and its bundle go.          *)

EnterLoop(p) ==
  /\ At(p, "running")
  /\ LET k == [mem[p] EXCEPT !.state = "running"]
     IN  WriteCampaignFile(on[p], k) /\ Enter(p, on[p], k, TRUE, "looping")
  /\ UNCHANGED <<series, entries, lock, evidence, bundles, policy, crashes>>

(* A typed failure: of a provider, of integrity, of the agreement report.     *)
Fail(p) ==
  /\ pc[p] \in {"running", "looping", "reported"}
  /\ Enter(p, on[p], [mem[p] EXCEPT !.state = "failed"], FALSE, "ended")
  /\ UNCHANGED <<store, lock, crashes>>

(* No round left or nothing to patch, inside `try`; no call left, in a handler. *)
Exhaust(p) ==
  /\ At(p, "looping")
  /\ \E t \in BOOLEAN : Enter(p, on[p], [mem[p] EXCEPT !.state = "exhausted"], t, "ended")
  /\ UNCHANGED <<store, lock, crashes>>

RecordReport(p) ==
  /\ At(p, "looping")
  /\ LET k == [mem[p] EXCEPT !.pending = TRUE]
     IN  WriteCampaignFile(on[p], k) /\ Continue(p, k, "reported")
  /\ UNCHANGED <<series, entries, lock, evidence, bundles, policy, crashes>>

(* The integrity monitor lets a bundle be installed only for the profile loaded. *)
InstallBundle(p) ==
  /\ At(p, "reported") /\ policy = mem[p].parent
  /\ bundles' = bundles \cup {on[p]}
  /\ Goto(p, "bundled")
  /\ UNCHANGED <<series, entries, lock, camp, evidence, policy, crashes>>

Preview(p) ==
  /\ At(p, "bundled")
  /\ Continue(p, [mem[p] EXCEPT !.state = "previewed", !.promo = "previewed",
                                !.pending = FALSE], "ended")
  /\ UNCHANGED <<store, lock, crashes>>

------------------------------------------------------------------------------
(* _persist_series_terminal: evidence, campaign.json, entry.                *)

EvidenceOf(p) == [state |-> mem[p].state, parent |-> mem[p].parent]

(* Evidence that exists is kept if it is the same, counts included.          *)
PersistEvidence(p) ==
  /\ At(p, "ended")
  /\ LET c == on[p]  r == mem[p].rev
     IN  /\ evidence[c][r] \in {NoEvidence, EvidenceOf(p)}
         /\ evidence' = [evidence EXCEPT ![c][r] = EvidenceOf(p)]
         /\ Continue(p, [mem[p] EXCEPT !.bound = r], "evidenced")
  /\ UNCHANGED <<series, entries, lock, camp, bundles, policy, crashes>>

EvidenceDiffers(p) ==
  /\ At(p, "ended") /\ evidence[on[p]][mem[p].rev] # NoEvidence
  /\ Raise(p)
  /\ UNCHANGED <<store, lock, crashes>>

RecordTerminal(p) ==
  /\ At(p, "evidenced")
  /\ WriteCampaignFile(on[p], mem[p])
  /\ Goto(p, "recorded")
  /\ UNCHANGED <<series, entries, lock, evidence, bundles, policy, crashes>>

LockAppend(p) ==
  /\ At(p, "recorded")
  /\ TakeLock(p, "append", mem[p].index)
  /\ Goto(p, "appending")
  /\ UNCHANGED <<store, crashes>>

AppendBusy(p) ==
  /\ At(p, "recorded") /\ lock # NoLock
  /\ Raise(p)
  /\ UNCHANGED <<store, lock, crashes>>

AppendTerminal(p) ==
  /\ At(p, "appending")
  /\ LET e == EntryOf(on[p], mem[p]) IN Appendable(e) /\ AppendEntry(e)
  /\ Goto(p, "done")
  /\ UNCHANGED <<series, lock, camp, evidence, bundles, policy, crashes>>

AppendRefused(p) ==
  /\ At(p, "appending") /\ ~Appendable(EntryOf(on[p], mem[p]))
  /\ Unlink /\ Raise(p)
  /\ UNCHANGED <<store, crashes>>

(* The last handler of run_campaign: whatever was recorded is now failed.     *)
RewriteFailed(p) ==
  /\ At(p, "excepting")
  /\ WriteCampaignFile(on[p], mem[p])
  /\ Leave(p)
  /\ UNCHANGED <<series, entries, lock, evidence, bundles, policy, crashes>>

------------------------------------------------------------------------------
(* `kpo promote`, as far as the series reads it (module ExternalPromotion).  *)

SetPromotion(c, s) == WriteCampaignFile(c, [camp[c] EXCEPT !.promo = s])

BeginPromotion(c) ==
  /\ camp[c].state = "previewed" /\ camp[c].promo \in {"previewed", "recovered"}
  /\ policy = camp[c].parent
  /\ \A d \in Campaigns : camp[d].promo # "applying"
  /\ \A p \in Procs : on[p] # c
  /\ "overtake" \in Liberties \/ (IsLast(c) /\ \A p \in Procs : ~At(p, "named"))
  /\ SetPromotion(c, "applying")
  /\ UNCHANGED <<series, entries, lock, evidence, bundles, policy, command, crashes>>

CommitPromotion(c) ==
  /\ camp[c].promo = "applying"
  /\ SetPromotion(c, "applied") /\ policy' = c
  /\ UNCHANGED <<series, entries, lock, evidence, bundles, command, crashes>>

RecoverPromotion(c) ==
  /\ camp[c].promo = "applying"
  /\ SetPromotion(c, "recovered")
  /\ UNCHANGED <<series, entries, lock, evidence, bundles, policy, command, crashes>>

------------------------------------------------------------------------------
(* A kill leaves the lock to a dead process.  An exception or an interrupt     *)
(* goes the way of Raise, through the `finally` of series_mutation if it is   *)
(* behind the lock.                                                          *)
Crash(p) ==
  /\ crashes < MaxCrashes /\ pc[p] \in CrashPoints
  /\ crashes' = crashes + 1
  /\ lock' = IF lock # NoLock /\ lock.owner = p THEN [lock EXCEPT !.owner = Dead] ELSE lock
  /\ Leave(p)
  /\ UNCHANGED store

Interrupt(p) ==
  /\ crashes < MaxCrashes /\ pc[p] \in CrashPoints
  /\ crashes' = crashes + 1
  /\ \/ /\ pc[p] \in {"looping", "reported", "bundled", "ended", "evidenced", "recorded"}
        /\ UNCHANGED lock
     \/ pc[p] \in {"appending", "done"} /\ Unlink
  /\ Raise(p)
  /\ UNCHANGED store

LockedStep(p) ==
  \/ MakeDirectory(p) \/ WriteSeries(p) \/ StopSeries(p) \/ Release(p) \/ Refuse(p)
  \/ LockReconcile(p) \/ GiveUpLock(p) \/ Scan(p) \/ Attach(p) \/ FinishReconcile(p)
  \/ LockAllocation(p) \/ NameLock(p) \/ WriteAllocation(p) \/ FinishAllocation(p)

RepairStep(p) ==
  \/ RepairEvidence(p) \/ RepairCampaign(p) \/ RepairEntry(p) \/ RemoveStale(p)

RunStep(p) ==
  \/ EnterLoop(p) \/ Fail(p) \/ Exhaust(p) \/ RecordReport(p) \/ InstallBundle(p) \/ Preview(p)
  \/ PersistEvidence(p) \/ EvidenceDiffers(p) \/ RecordTerminal(p)
  \/ LockAppend(p) \/ AppendBusy(p) \/ AppendTerminal(p) \/ AppendRefused(p) \/ RewriteFailed(p)

Step(p) == LockedStep(p) \/ RepairStep(p) \/ RunStep(p)
Reconcile(p) == FindNoLock(p) \/ FindRemovable(p) \/ FindRepairable(p)

Next ==
  \/ \E p \in Procs :
       \/ Step(p) \/ Reconcile(p) \/ Crash(p) \/ Interrupt(p)
       \/ LockSeries(p, "initialize") \/ LockSeries(p, "stop")
       \/ \E c \in Campaigns : Start(p, c) \/ Resume(p, c) \/ ResumePreview(p, c)
  \/ \E c \in Campaigns : BeginPromotion(c) \/ CommitPromotion(c) \/ RecoverPromotion(c)

Spec == Init /\ [][Next]_vars

(* A live command runs on to its end, a promotion that is tried again and     *)
(* again is committed, and the owner reconciles again and again.             *)
FairSpec ==
  /\ Spec
  /\ \A p \in Procs : WF_vars(Step(p))
  /\ \A c \in Campaigns : SF_vars(CommitPromotion(c))
  /\ SF_vars(\E p \in Procs : Reconcile(p))

------------------------------------------------------------------------------
(* Properties.                                                              *)

(* Whoever changes the series, allocates or appends holds its lock, alone     *)
(* (campaign_series.py:243-259; docs/specs/0008:268-271).                    *)
SerialMutations ==
  \A p \in Procs : pc[p] \in LockedPoints => lock # NoLock /\ lock.owner = p

(* No two campaigns are ever allocated the same index, attached or not.       *)
OneIndexEach ==
  \A c, d \in Campaigns :
    camp[c].state # "none" /\ camp[d].state # "none" /\ camp[c].index = camp[d].index => c = d

(* What an entry says is what the evidence of that revision says, also when   *)
(* the campaign is run again while a reconcile appends its last failure.      *)
EntriesEvidenced ==
  \A i \in DOMAIN entries :
    evidence[entries[i].camp][entries[i].rev] =
      [state |-> entries[i].state, parent |-> entries[i].parent]

(* Every campaign of the series started from the policy its predecessors left, *)
(* and the replay ends at the policy of the profile, as long as the owner     *)
(* promotes only the last campaign.                                          *)
HistoryIsPolicy ==
  /\ Lineage
  /\ (\A c \in Campaigns : camp[c].promo = "applied" => Attached(c, camp[c].rev))
       => ExpectedParent = policy

(* Entries are only ever appended, one revision after a failed one, and none  *)
(* after the owner stopped the series, whatever a campaign still running does. *)
EntriesKept ==
  [][/\ Len(entries') >= Len(entries)
     /\ \A i \in DOMAIN entries : entries'[i] = entries[i]
     /\ series = "stopped" => series' = "stopped" /\ entries' = entries]_<<series, entries>>

(* A lock that a dead command left is removed by reconciling, once there is a  *)
(* series.                                                                   *)
StaleLockRemoved == Stale /\ series \in {"active", "stopped"} ~> ~Stale

(* A campaign that reached its end and recorded it is attached by reconciling, *)
(* unless the owner stops the series or runs the campaign again.              *)
Unattached(c) ==
  /\ camp[c].state \in Terminal /\ EvidenceAgrees(c)
  /\ ~Attached(c, camp[c].rev) /\ series = "active"
EndAttached == \A c \in Campaigns : Unattached(c) ~> ~Unattached(c)

(* The terminal state of a campaign is the one its evidence names, so that     *)
(* reconcile can attach it whatever kept its own append from doing so         *)
(* (docs/specs/0008:286-296).                                                *)
EndReconcilable ==
  \A c \in Campaigns :
    camp[c].state \in Terminal /\ camp[c].bound = camp[c].rev => EvidenceAgrees(c)
==============================================================================
