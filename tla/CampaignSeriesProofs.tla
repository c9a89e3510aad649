------------------------ MODULE CampaignSeriesProofs ------------------------
(***************************************************************************)
(* Proofs about CampaignSeries for any processes and campaigns, any number   *)
(* of revisions, kills and interrupts at any point.                         *)
(***************************************************************************)
EXTENDS CampaignSeries, FoldLemmas

Points == LockedPoints \cup RepairPoints \cup RunPoints \cup FreePoints
EndPoints == {"ended", "evidenced", "recorded", "appending",
              "repairing", "evidence repaired", "campaign repaired"}
CampaignPoints == EndPoints \cup RunPoints \cup
                  {"started", "allocating", "catching up", "named", "written"}

CommandTyped ==
  /\ pc \in [Procs -> Points]
  /\ on \in [Procs -> Campaigns \cup {Nobody}]
  /\ mem \in [Procs -> CampaignFiles]
  /\ try \in [Procs -> BOOLEAN]
  /\ todo \in [Procs -> SUBSET Entries]

StoreTyped ==
  /\ series \in {"absent", "directory", "active", "stopped"}
  /\ entries \in Seq(Entries)
  /\ camp \in [Campaigns -> CampaignFiles]
  /\ evidence \in [Campaigns -> [Revisions -> [state : Terminal, parent : Policies] \cup {NoEvidence}]]
  /\ bundles \subseteq Campaigns
  /\ policy \in Policies

LockTyped ==
  /\ lock \in Locks \cup {NoLock}
  /\ lock # NoLock /\ lock.op = "allocation" => lock.camp \in Campaigns

(* A command that has come to a campaign's end has a campaign and its end, and *)
(* one inside run_campaign's `try` has a campaign.                            *)
CommandAt(p) ==
  /\ pc[p] \in CampaignPoints \/ try[p] => on[p] \in Campaigns
  /\ pc[p] \in EndPoints => mem[p].state \in Terminal

TypeInv ==
  /\ StoreTyped /\ LockTyped /\ CommandTyped /\ crashes \in Nat
  /\ \A p \in Procs : CommandAt(p)

-----------------------------------------------------------------------------
(* Files and entries.                                                       *)

Promotions == {"none", "previewed", "applying", "applied", "recovered"}
States == {"none", "running"} \cup Terminal

LEMMA FileFields ==
  ASSUME NEW k \in CampaignFiles
  PROVE  /\ k.state \in States /\ k.index \in Nat /\ k.rev \in Revisions
         /\ k.parent \in Policies
BY DEF CampaignFiles, States

LEMMA FileUpdates ==
  ASSUME NEW k \in CampaignFiles
  PROVE  /\ \A s \in States : [k EXCEPT !.state = s] \in CampaignFiles
         /\ \A s \in States : [k EXCEPT !.state = s].state = s
         /\ \A i \in Nat : [k EXCEPT !.index = i] \in CampaignFiles
         /\ \A r \in Revisions : [k EXCEPT !.rev = r] \in CampaignFiles
         /\ \A b \in BOOLEAN : [k EXCEPT !.pending = b] \in CampaignFiles
         /\ \A s \in Promotions : [k EXCEPT !.promo = s] \in CampaignFiles
         /\ \A r \in Revisions : [k EXCEPT !.bound = r] \in CampaignFiles
         /\ \A r \in Revisions : [k EXCEPT !.bound = r].state = k.state
BY DEF CampaignFiles, States, Promotions

LEMMA EntryTyped ==
  ASSUME NEW c \in Campaigns, NEW k \in CampaignFiles, k.state \in Terminal
  PROVE  EntryOf(c, k) \in Entries
BY DEF CampaignFiles, Entries, EntryOf

LEMMA NoCampaignTyped == NoCampaign \in CampaignFiles
BY SeriesAssumption DEF NoCampaign, CampaignFiles, Revisions, Policies

(* An append keeps every entry and adds at most one.                          *)
LEMMA Appends ==
  ASSUME entries \in Seq(Entries), NEW e \in Entries, AppendEntry(e)
  PROVE  /\ entries' \in Seq(Entries)
         /\ Len(entries') >= Len(entries)
         /\ \A i \in DOMAIN entries : entries'[i] = entries[i]
<1>1. CASE Identical(e)
  BY <1>1 DEF AppendEntry
<1>2. CASE ~Identical(e)
  BY <1>2 DEF AppendEntry
<1>. QED
  BY <1>1, <1>2

Listed == {entries[i].camp : i \in DOMAIN entries}
LEMMA ListedFinite == entries \in Seq(Entries) => IsFiniteSet(Listed)
<1> SUFFICES ASSUME entries \in Seq(Entries) PROVE IsFiniteSet(Listed)
  OBVIOUS
<1> DEFINE f == [i \in 1..Len(entries) |-> entries[i].camp]
           T == {f[i] : i \in 1..Len(entries)}
<1>1. Listed = T
  BY DEF Listed
<1>2. Len(entries) \in Nat
  OBVIOUS
<1>3. IsFiniteSet(1..Len(entries))
  BY <1>2, FS_Interval
<1>4. f \in Surjection(1..Len(entries), T)
  <2>1. f \in [1..Len(entries) -> T]
    OBVIOUS
  <2>2. \A t \in T : \E i \in 1..Len(entries) : f[i] = t
    OBVIOUS
  <2>. QED
    BY <2>1, <2>2 DEF Surjection
<1>. QED
  BY <1>1, <1>3, <1>4, FS_Surjection

LEMMA CountIsNat == entries \in Seq(Entries) => Count \in Nat /\ Count = Cardinality(Listed)
BY ListedFinite, FS_CardinalityType DEF Count, Listed

-----------------------------------------------------------------------------
(* What the three ways to move a command change.                            *)

Untouched(p) ==
  \A q \in Procs : q # p =>
    pc'[q] = pc[q] /\ on'[q] = on[q] /\ mem'[q] = mem[q] /\ try'[q] = try[q]

LEMMA GotoEffect ==
  ASSUME CommandTyped, NEW p \in Procs, NEW s \in Points, Goto(p, s)
  PROVE  /\ CommandTyped' /\ Untouched(p)
         /\ pc'[p] = s /\ on'[p] = on[p] /\ mem'[p] = mem[p] /\ try'[p] = try[p]
BY DEF CommandTyped, Goto, Untouched

LEMMA EnterEffect ==
  ASSUME CommandTyped, NEW p \in Procs, NEW s \in Points, NEW c \in Campaigns \cup {Nobody},
         NEW k \in CampaignFiles, NEW t \in BOOLEAN, Enter(p, c, k, t, s)
  PROVE  /\ CommandTyped' /\ Untouched(p)
         /\ pc'[p] = s /\ on'[p] = c /\ mem'[p] = k /\ try'[p] = t
BY DEF CommandTyped, Enter, Untouched

LEMMA ContinueEffect ==
  ASSUME CommandTyped, NEW p \in Procs, NEW s \in Points, NEW k \in CampaignFiles,
         Continue(p, k, s)
  PROVE  /\ CommandTyped' /\ Untouched(p)
         /\ pc'[p] = s /\ on'[p] = on[p] /\ mem'[p] = k /\ try'[p] = try[p]
<1>1. on[p] \in Campaigns \cup {Nobody} /\ try[p] \in BOOLEAN
  BY Zenon DEF CommandTyped
<1>2. Enter(p, on[p], k, try[p], s)
  BY DEF Continue
<1>. QED
  BY <1>1, <1>2, EnterEffect

LEMMA LeaveEffect ==
  ASSUME CommandTyped, NEW p \in Procs, Leave(p)
  PROVE  /\ CommandTyped' /\ Untouched(p)
         /\ pc'[p] = "idle" /\ ~try'[p]
BY NoCampaignTyped DEF CommandTyped, Leave, Untouched, Points, FreePoints

LEMMA RaiseEffect ==
  ASSUME CommandTyped, NEW p \in Procs, Raise(p)
  PROVE  /\ CommandTyped' /\ Untouched(p)
         /\ \/ pc'[p] = "idle" /\ ~try'[p]
            \/ pc'[p] = "excepting" /\ on'[p] = on[p] /\ try[p]
<1>1. mem[p] \in CampaignFiles
  BY DEF CommandTyped
<1>2. [mem[p] EXCEPT !.state = "failed"] \in CampaignFiles
  BY <1>1, FileUpdates DEF States, Terminal
<1>3. CASE try[p]
  BY <1>2, <1>3, ContinueEffect DEF Raise, Points, RunPoints
<1>4. CASE ~try[p]
  BY <1>4, LeaveEffect DEF Raise
<1>. QED
  BY <1>3, <1>4

(* The same with the whole invariant: what is left to show of an action.      *)

LEMMA Moved ==
  ASSUME TypeInv, NEW p \in Procs, StoreTyped', LockTyped', crashes' \in Nat,
         CommandTyped', Untouched(p),
         pc'[p] \in CampaignPoints \/ try'[p] => on'[p] \in Campaigns,
         pc'[p] \in EndPoints => mem'[p].state \in Terminal
  PROVE  TypeInv'
<1> SUFFICES ASSUME NEW q \in Procs PROVE CommandAt(q)'
  BY DEF TypeInv
<1>1. CASE q = p
  BY <1>1 DEF CommandAt
<1>2. CASE q # p
  BY <1>2 DEF CommandAt, TypeInv, Untouched
<1>. QED
  BY <1>1, <1>2

LEMMA GotoTyped ==
  ASSUME TypeInv, NEW p \in Procs, StoreTyped', LockTyped', crashes' \in Nat,
         NEW s \in Points, Goto(p, s),
         s \in CampaignPoints => on[p] \in Campaigns,
         s \in EndPoints => mem[p].state \in Terminal
  PROVE  TypeInv'
<1>1. CommandTyped
  BY DEF TypeInv
<1>2. CommandTyped' /\ Untouched(p) /\ pc'[p] = s /\ on'[p] = on[p] /\ mem'[p] = mem[p]
      /\ try'[p] = try[p]
  BY <1>1, GotoEffect
<1>3. try[p] => on[p] \in Campaigns
  BY DEF TypeInv, CommandAt
<1>. QED
  BY <1>2, <1>3, Moved

LEMMA EnterTyped ==
  ASSUME TypeInv, NEW p \in Procs, StoreTyped', LockTyped', crashes' \in Nat,
         NEW s \in Points, NEW c \in Campaigns \cup {Nobody},
         NEW k \in CampaignFiles, NEW t \in BOOLEAN, Enter(p, c, k, t, s),
         s \in CampaignPoints \/ t => c \in Campaigns,
         s \in EndPoints => k.state \in Terminal
  PROVE  TypeInv'
<1>1. CommandTyped
  BY DEF TypeInv
<1>2. CommandTyped' /\ Untouched(p) /\ pc'[p] = s /\ on'[p] = c /\ mem'[p] = k /\ try'[p] = t
  BY <1>1, EnterEffect
<1>. QED
  BY <1>2, Moved

LEMMA ContinueTyped ==
  ASSUME TypeInv, NEW p \in Procs, StoreTyped', LockTyped', crashes' \in Nat,
         NEW s \in Points, NEW k \in CampaignFiles, Continue(p, k, s),
         s \in CampaignPoints => on[p] \in Campaigns,
         s \in EndPoints => k.state \in Terminal
  PROVE  TypeInv'
<1>1. CommandTyped
  BY DEF TypeInv
<1>2. CommandTyped' /\ Untouched(p) /\ pc'[p] = s /\ on'[p] = on[p] /\ mem'[p] = k
      /\ try'[p] = try[p]
  BY <1>1, ContinueEffect
<1>3. try[p] => on[p] \in Campaigns
  BY DEF TypeInv, CommandAt
<1>. QED
  BY <1>2, <1>3, Moved

LEMMA LeaveTyped ==
  ASSUME TypeInv, NEW p \in Procs, StoreTyped', LockTyped', crashes' \in Nat, Leave(p)
  PROVE  TypeInv'
<1>1. CommandTyped
  BY DEF TypeInv
<1>2. CommandTyped' /\ Untouched(p) /\ pc'[p] = "idle" /\ ~try'[p]
  BY <1>1, LeaveEffect
<1>. QED
  BY <1>2, Moved DEF CampaignPoints, EndPoints, RunPoints

LEMMA RaiseTyped ==
  ASSUME TypeInv, NEW p \in Procs, StoreTyped', LockTyped', crashes' \in Nat, Raise(p)
  PROVE  TypeInv'
<1>1. CommandTyped
  BY DEF TypeInv
<1>2. /\ CommandTyped' /\ Untouched(p)
      /\ \/ pc'[p] = "idle" /\ ~try'[p]
         \/ pc'[p] = "excepting" /\ on'[p] = on[p] /\ try[p]
  BY <1>1, RaiseEffect
<1>3. try[p] => on[p] \in Campaigns
  BY DEF TypeInv, CommandAt
<1>. QED
  BY <1>2, <1>3, Moved DEF CampaignPoints, EndPoints, RunPoints

-----------------------------------------------------------------------------
(* What the writes keep typed.                                              *)

LEMMA StoreKept == StoreTyped /\ UNCHANGED store => StoreTyped'
BY DEF StoreTyped, store

LEMMA LockKept == LockTyped /\ UNCHANGED lock => LockTyped'
BY DEF LockTyped

LEMMA Unlinked == Unlink => LockTyped'
BY DEF Unlink, LockTyped

LEMMA Taken ==
  ASSUME TypeInv, NEW p \in Procs, NEW op \in Operations, NEW i \in Nat \cup {None},
         TakeLock(p, op, i), op = "allocation" => on[p] \in Campaigns
  PROVE  LockTyped'
<1>1. on[p] \in Campaigns \cup {Nobody} /\ mem[p].rev \in Revisions
  BY FileFields DEF TypeInv, CommandTyped
<1>. QED
  BY <1>1 DEF TakeLock, Locks, LockTyped

LEMMA CampaignWritten ==
  ASSUME StoreTyped, NEW c \in Campaigns, NEW k \in CampaignFiles, WriteCampaignFile(c, k),
         UNCHANGED <<series, entries, evidence, bundles, policy>>
  PROVE  StoreTyped'
BY DEF StoreTyped, WriteCampaignFile

LEMMA EvidenceWritten ==
  ASSUME StoreTyped, NEW c \in Campaigns, NEW r \in Revisions,
         NEW e \in [state : Terminal, parent : Policies],
         evidence' = [evidence EXCEPT ![c][r] = e],
         UNCHANGED <<series, entries, camp, bundles, policy>>
  PROVE  StoreTyped'
BY DEF StoreTyped

LEMMA SeriesWritten ==
  ASSUME StoreTyped, series' \in {"absent", "directory", "active", "stopped"},
         UNCHANGED <<entries, camp, evidence, bundles, policy>>
  PROVE  StoreTyped'
BY DEF StoreTyped

LEMMA EntryWritten ==
  ASSUME StoreTyped, NEW e \in Entries, AppendEntry(e),
         UNCHANGED <<series, camp, evidence, bundles, policy>>
  PROVE  StoreTyped'
<1>1. entries' \in Seq(Entries)
  BY Appends DEF StoreTyped
<1>. QED
  BY <1>1 DEF StoreTyped

-----------------------------------------------------------------------------
(* Every step keeps the types.                                              *)

LEMMA LockedTyped ==
  ASSUME TypeInv, NEW p \in Procs, LockedStep(p)
  PROVE  TypeInv'
<1>1. /\ StoreTyped /\ LockTyped /\ CommandTyped /\ crashes \in Nat
      /\ mem[p] \in CampaignFiles /\ on[p] \in Campaigns \cup {Nobody} /\ try[p] \in BOOLEAN
      /\ todo[p] \in SUBSET Entries /\ CommandAt(p)
  BY DEF TypeInv, CommandTyped
<1>2. CASE MakeDirectory(p)
  <2>1. StoreTyped' /\ LockTyped' /\ crashes' \in Nat /\ Goto(p, "directory")
    BY <1>1, <1>2, SeriesWritten, LockKept DEF MakeDirectory
  <2>. QED
    BY <2>1, GotoTyped DEF Points, LockedPoints, CampaignPoints, EndPoints, RunPoints
<1>3. CASE WriteSeries(p)
  <2>1. StoreTyped' /\ LockTyped' /\ crashes' \in Nat /\ Goto(p, "done")
    BY <1>1, <1>3, SeriesWritten, LockKept DEF WriteSeries
  <2>. QED
    BY <2>1, GotoTyped DEF Points, LockedPoints, CampaignPoints, EndPoints, RunPoints
<1>4. CASE StopSeries(p)
  <2>1. StoreTyped' /\ LockTyped' /\ crashes' \in Nat /\ Goto(p, "done")
    BY <1>1, <1>4, SeriesWritten, LockKept DEF StopSeries
  <2>. QED
    BY <2>1, GotoTyped DEF Points, LockedPoints, CampaignPoints, EndPoints, RunPoints
<1>5. CASE Release(p) \/ Refuse(p) \/ FinishReconcile(p)
  <2>1. StoreTyped' /\ LockTyped' /\ crashes' \in Nat /\ Leave(p)
    BY <1>1, <1>5, StoreKept, Unlinked DEF Release, Refuse, FinishReconcile
  <2>. QED
    BY <2>1, LeaveTyped
<1>6. CASE LockReconcile(p)
  <2>1. TakeLock(p, "reconcile", None) /\ Goto(p, "scanning") /\ UNCHANGED <<store, crashes>>
    BY <1>6 DEF LockReconcile
  <2>2. StoreTyped' /\ LockTyped' /\ crashes' \in Nat
    BY <1>1, <2>1, StoreKept, Taken DEF Operations
  <2>. QED
    BY <2>1, <2>2, GotoTyped DEF Points, LockedPoints, CampaignPoints, EndPoints, RunPoints
<1>7. CASE GiveUpLock(p)
  <2>1. StoreTyped' /\ LockTyped' /\ crashes' \in Nat /\ Leave(p)
    BY <1>1, <1>7, StoreKept, LockKept DEF GiveUpLock
  <2>. QED
    BY <2>1, LeaveTyped
<1>8. CASE Scan(p)
  <2>1. Scanned \subseteq Entries
    <3> SUFFICES ASSUME NEW c \in Campaigns, camp[c].state # "none"
                 PROVE  EntryOf(c, camp[c]) \in Entries
      BY DEF Scanned
    <3>1. camp[c] \in CampaignFiles /\ camp[c].state \in Terminal
      BY <1>1, <1>8 DEF Scan, Scannable, StoreTyped
    <3>. QED
      BY <3>1, EntryTyped
  <2>2. StoreTyped' /\ LockTyped' /\ crashes' \in Nat
    BY <1>1, <1>8, StoreKept, LockKept DEF Scan
  <2>3. /\ pc[p] \in {"scanning", "allocating"}
        /\ pc' = [pc EXCEPT ![p] = IF pc[p] = "scanning" THEN "attaching" ELSE "catching up"]
        /\ todo' = [todo EXCEPT ![p] = Scanned] /\ UNCHANGED <<on, mem, try>>
    BY <1>8 DEF Scan, At
  <2>4. CommandTyped' /\ Untouched(p)
    BY <1>1, <2>1, <2>3 DEF CommandTyped, Untouched, Points, LockedPoints
  <2>5. pc'[p] = "attaching" \/ (pc'[p] = "catching up" /\ pc[p] = "allocating")
    BY <1>1, <2>3 DEF CommandTyped
  <2>6. pc'[p] \in CampaignPoints => on'[p] \in Campaigns
    BY <1>1, <2>3, <2>5 DEF CommandAt, CampaignPoints, EndPoints, RunPoints
  <2>7. try'[p] => on'[p] \in Campaigns
    BY <1>1, <2>3 DEF CommandAt
  <2>. QED
    BY <2>2, <2>4, <2>5, <2>6, <2>7, Moved DEF EndPoints
<1>9. CASE Attach(p)
  <2>1. PICK e \in todo[p] : AppendEntry(e) /\ todo' = [todo EXCEPT ![p] = @ \ {e}]
    BY <1>9 DEF Attach
  <2>2. UNCHANGED <<series, lock, camp, evidence, bundles, policy, pc, on, mem, try, crashes>>
    BY <1>9 DEF Attach
  <2>3. StoreTyped' /\ LockTyped' /\ crashes' \in Nat
    BY <1>1, <2>1, <2>2, EntryWritten, LockKept
  <2>4. CommandTyped' /\ Untouched(p)
    BY <1>1, <2>1, <2>2 DEF CommandTyped, Untouched
  <2>. QED
    BY <1>1, <2>2, <2>3, <2>4, Moved DEF CommandAt
<1>10. CASE LockAllocation(p)
  <2>1. TakeLock(p, "allocation", None) /\ Goto(p, "allocating") /\ UNCHANGED <<store, crashes>>
    BY <1>10 DEF LockAllocation
  <2>2. on[p] \in Campaigns
    BY <1>1, <1>10 DEF LockAllocation, At, CommandAt, CampaignPoints
  <2>3. StoreTyped' /\ LockTyped' /\ crashes' \in Nat
    BY <1>1, <2>1, <2>2, StoreKept, Taken DEF Operations
  <2>. QED
    BY <2>1, <2>2, <2>3, GotoTyped DEF Points, LockedPoints, EndPoints
<1>11. CASE NameLock(p)
  <2>1. on[p] \in Campaigns
    BY <1>1, <1>11 DEF NameLock, At, CommandAt, CampaignPoints
  <2>2. Count \in Nat
    BY <1>1, CountIsNat DEF StoreTyped
  <2>3. lock' = [op |-> "allocation", camp |-> on[p], index |-> Count, rev |-> 0, owner |-> p]
    BY <1>11 DEF NameLock
  <2>4. 0 \in Revisions
    BY SeriesAssumption DEF Revisions
  <2>5. LockTyped'
    BY <2>1, <2>2, <2>3, <2>4 DEF LockTyped, Locks, Operations
  <2>6. StoreTyped' /\ crashes' \in Nat /\ Continue(p, [mem[p] EXCEPT !.index = Count], "named")
    BY <1>1, <1>11, StoreKept DEF NameLock
  <2>7. [mem[p] EXCEPT !.index = Count] \in CampaignFiles
    BY <1>1, <2>2, FileUpdates
  <2>. QED
    BY <2>1, <2>5, <2>6, <2>7, ContinueTyped DEF Points, LockedPoints, EndPoints
<1>12. CASE WriteAllocation(p)
  <2>1. on[p] \in Campaigns
    BY <1>1, <1>12 DEF WriteAllocation, At, CommandAt, CampaignPoints
  <2>2. StoreTyped' /\ LockTyped' /\ crashes' \in Nat /\ Goto(p, "written")
    BY <1>1, <1>12, <2>1, CampaignWritten, LockKept DEF WriteAllocation
  <2>. QED
    BY <2>1, <2>2, GotoTyped DEF Points, LockedPoints, EndPoints
<1>13. CASE FinishAllocation(p)
  <2>1. on[p] \in Campaigns
    BY <1>1, <1>13 DEF FinishAllocation, At, CommandAt, CampaignPoints
  <2>2. StoreTyped' /\ LockTyped' /\ crashes' \in Nat /\ Goto(p, "running")
    BY <1>1, <1>13, StoreKept, Unlinked DEF FinishAllocation
  <2>. QED
    BY <2>1, <2>2, GotoTyped DEF Points, RunPoints, EndPoints
<1>. QED
  BY <1>2, <1>3, <1>4, <1>5, <1>6, <1>7, <1>8, <1>9, <1>10, <1>11, <1>12, <1>13
     DEF LockedStep

LEMMA RepairTyped ==
  ASSUME TypeInv, NEW p \in Procs, RepairStep(p)
  PROVE  TypeInv'
<1>1. /\ StoreTyped /\ LockTyped /\ CommandTyped /\ crashes \in Nat
      /\ mem[p] \in CampaignFiles /\ on[p] \in Campaigns \cup {Nobody} /\ try[p] \in BOOLEAN
      /\ CommandAt(p)
  BY DEF TypeInv, CommandTyped
<1>2. CASE RepairEvidence(p)
  <2>1. on[p] \in Campaigns
    BY <1>1, <1>2 DEF RepairEvidence, At, CommandAt, CampaignPoints, EndPoints, RunPoints
  <2>2. mem[p].state \in Terminal
    BY <1>1, <1>2 DEF RepairEvidence, At, CommandAt, EndPoints
  <2>3. 0 \in Revisions
    BY SeriesAssumption DEF Revisions
  <2>4. [mem[p] EXCEPT !.bound = 0] \in CampaignFiles /\ [mem[p] EXCEPT !.bound = 0].state = mem[p].state
    BY <1>1, <2>3, FileUpdates
  <2>5. [state |-> "failed", parent |-> policy] \in [state : Terminal, parent : Policies]
    BY <1>1 DEF StoreTyped, Terminal
  <2>6. /\ evidence' = [evidence EXCEPT ![on[p]][0] = [state |-> "failed", parent |-> policy]]
        /\ Continue(p, [mem[p] EXCEPT !.bound = 0], "evidence repaired")
        /\ UNCHANGED <<series, entries, lock, camp, bundles, policy, crashes>>
    BY <1>2 DEF RepairEvidence
  <2>7. StoreTyped' /\ LockTyped' /\ crashes' \in Nat
    BY <1>1, <2>1, <2>3, <2>5, <2>6, EvidenceWritten, LockKept
  <2>. QED
    BY <2>1, <2>2, <2>4, <2>6, <2>7, ContinueTyped DEF Points, RepairPoints
<1>3. CASE RepairCampaign(p)
  <2>1. on[p] \in Campaigns
    BY <1>1, <1>3 DEF RepairCampaign, At, CommandAt, CampaignPoints, EndPoints, RunPoints
  <2>2. mem[p].state \in Terminal
    BY <1>1, <1>3 DEF RepairCampaign, At, CommandAt, EndPoints
  <2>3. StoreTyped' /\ LockTyped' /\ crashes' \in Nat /\ Goto(p, "campaign repaired")
    BY <1>1, <1>3, <2>1, CampaignWritten, LockKept DEF RepairCampaign
  <2>. QED
    BY <2>1, <2>2, <2>3, GotoTyped DEF Points, RepairPoints
<1>4. CASE RepairEntry(p)
  <2>1. on[p] \in Campaigns
    BY <1>1, <1>4 DEF RepairEntry, At, CommandAt, CampaignPoints, EndPoints, RunPoints
  <2>2. mem[p].state \in Terminal
    BY <1>1, <1>4 DEF RepairEntry, At, CommandAt, EndPoints
  <2>3. EntryOf(on[p], mem[p]) \in Entries
    BY <1>1, <2>1, <2>2, EntryTyped
  <2>4. StoreTyped' /\ LockTyped' /\ crashes' \in Nat
    BY <1>1, <1>4, <2>3, EntryWritten, LockKept DEF RepairEntry
  <2>5. Enter(p, Nobody, NoCampaign, FALSE, "entry repaired")
    BY <1>4 DEF RepairEntry
  <2>. QED
    BY <2>4, <2>5, NoCampaignTyped, EnterTyped
       DEF Points, RepairPoints, CampaignPoints, EndPoints, RunPoints
<1>5. CASE RemoveStale(p)
  <2>1. StoreTyped' /\ LockTyped' /\ crashes' \in Nat /\ Goto(p, "unlocked")
    BY <1>1, <1>5, StoreKept, Unlinked DEF RemoveStale
  <2>. QED
    BY <2>1, GotoTyped DEF Points, FreePoints, CampaignPoints, EndPoints, RunPoints
<1>. QED
  BY <1>2, <1>3, <1>4, <1>5 DEF RepairStep

LEMMA RunTyped ==
  ASSUME TypeInv, NEW p \in Procs, RunStep(p)
  PROVE  TypeInv'
<1>1. /\ StoreTyped /\ LockTyped /\ CommandTyped /\ crashes \in Nat
      /\ mem[p] \in CampaignFiles /\ on[p] \in Campaigns \cup {Nobody} /\ try[p] \in BOOLEAN
      /\ CommandAt(p)
  BY DEF TypeInv, CommandTyped
<1>2. CASE EnterLoop(p)
  <2>1. on[p] \in Campaigns
    BY <1>1, <1>2 DEF EnterLoop, At, CommandAt, CampaignPoints, EndPoints, RunPoints
  <2> DEFINE k == [mem[p] EXCEPT !.state = "running"]
  <2>2. k \in CampaignFiles
    BY <1>1, FileUpdates DEF States
  <2>3. /\ WriteCampaignFile(on[p], k) /\ Enter(p, on[p], k, TRUE, "looping")
        /\ UNCHANGED <<series, entries, lock, evidence, bundles, policy, crashes>>
    BY <1>2 DEF EnterLoop
  <2>4. StoreTyped' /\ LockTyped' /\ crashes' \in Nat
    BY <1>1, <2>1, <2>2, <2>3, CampaignWritten, LockKept
  <2>. QED
    BY <2>1, <2>2, <2>3, <2>4, EnterTyped DEF Points, RunPoints, EndPoints
<1>3. CASE Fail(p)
  <2>1. on[p] \in Campaigns
    BY <1>1, <1>3 DEF Fail, At, CommandAt, CampaignPoints, EndPoints, RunPoints
  <2>2. /\ [mem[p] EXCEPT !.state = "failed"] \in CampaignFiles
        /\ [mem[p] EXCEPT !.state = "failed"].state \in Terminal
    BY <1>1, FileUpdates DEF States, Terminal
  <2>3. StoreTyped' /\ LockTyped' /\ crashes' \in Nat
    BY <1>1, <1>3, StoreKept, LockKept DEF Fail
  <2>4. Enter(p, on[p], [mem[p] EXCEPT !.state = "failed"], FALSE, "ended")
    BY <1>3 DEF Fail
  <2>. QED
    BY <2>1, <2>2, <2>3, <2>4, EnterTyped DEF Points, RunPoints
<1>4. CASE Exhaust(p)
  <2>1. on[p] \in Campaigns
    BY <1>1, <1>4 DEF Exhaust, At, CommandAt, CampaignPoints, EndPoints, RunPoints
  <2>2. /\ [mem[p] EXCEPT !.state = "exhausted"] \in CampaignFiles
        /\ [mem[p] EXCEPT !.state = "exhausted"].state \in Terminal
    BY <1>1, FileUpdates DEF States, Terminal
  <2>3. StoreTyped' /\ LockTyped' /\ crashes' \in Nat
    BY <1>1, <1>4, StoreKept, LockKept DEF Exhaust
  <2>4. PICK t \in BOOLEAN : Enter(p, on[p], [mem[p] EXCEPT !.state = "exhausted"], t, "ended")
    BY <1>4 DEF Exhaust
  <2>. QED
    BY <2>1, <2>2, <2>3, <2>4, EnterTyped DEF Points, RunPoints
<1>5. CASE RecordReport(p)
  <2>1. on[p] \in Campaigns
    BY <1>1, <1>5 DEF RecordReport, At, CommandAt, CampaignPoints, EndPoints, RunPoints
  <2> DEFINE k == [mem[p] EXCEPT !.pending = TRUE]
  <2>2. k \in CampaignFiles
    BY <1>1, FileUpdates
  <2>3. /\ WriteCampaignFile(on[p], k) /\ Continue(p, k, "reported")
        /\ UNCHANGED <<series, entries, lock, evidence, bundles, policy, crashes>>
    BY <1>5 DEF RecordReport
  <2>4. StoreTyped' /\ LockTyped' /\ crashes' \in Nat
    BY <1>1, <2>1, <2>2, <2>3, CampaignWritten, LockKept
  <2>. QED
    BY <2>1, <2>2, <2>3, <2>4, ContinueTyped DEF Points, RunPoints, EndPoints
<1>6. CASE InstallBundle(p)
  <2>1. on[p] \in Campaigns
    BY <1>1, <1>6 DEF InstallBundle, At, CommandAt, CampaignPoints, EndPoints, RunPoints
  <2>2. StoreTyped' /\ LockTyped' /\ crashes' \in Nat /\ Goto(p, "bundled")
    BY <1>1, <1>6, <2>1, LockKept DEF InstallBundle, StoreTyped
  <2>. QED
    BY <2>1, <2>2, GotoTyped DEF Points, RunPoints, EndPoints
<1>7. CASE Preview(p)
  <2>1. on[p] \in Campaigns
    BY <1>1, <1>7 DEF Preview, At, CommandAt, CampaignPoints, EndPoints, RunPoints
  <2> DEFINE k == [mem[p] EXCEPT !.state = "previewed", !.promo = "previewed", !.pending = FALSE]
  <2>2. k \in CampaignFiles /\ k.state \in Terminal
    BY <1>1 DEF CampaignFiles, Terminal
  <2>3. StoreTyped' /\ LockTyped' /\ crashes' \in Nat /\ Continue(p, k, "ended")
    BY <1>1, <1>7, StoreKept, LockKept DEF Preview
  <2>. QED
    BY <2>1, <2>2, <2>3, ContinueTyped DEF Points, RunPoints
<1>8. CASE PersistEvidence(p)
  <2>1. on[p] \in Campaigns
    BY <1>1, <1>8 DEF PersistEvidence, At, CommandAt, CampaignPoints, EndPoints, RunPoints
  <2>2. mem[p].state \in Terminal
    BY <1>1, <1>8 DEF PersistEvidence, At, CommandAt, EndPoints
  <2>3. mem[p].rev \in Revisions
    BY <1>1, FileFields
  <2>4. EvidenceOf(p) \in [state : Terminal, parent : Policies]
    BY <1>1, <2>2, FileFields DEF EvidenceOf
  <2>5. /\ evidence' = [evidence EXCEPT ![on[p]][mem[p].rev] = EvidenceOf(p)]
        /\ Continue(p, [mem[p] EXCEPT !.bound = mem[p].rev], "evidenced")
        /\ UNCHANGED <<series, entries, lock, camp, bundles, policy, crashes>>
    BY <1>8 DEF PersistEvidence
  <2>6. StoreTyped' /\ LockTyped' /\ crashes' \in Nat
    BY <1>1, <2>1, <2>3, <2>4, <2>5, EvidenceWritten, LockKept
  <2>7. /\ [mem[p] EXCEPT !.bound = mem[p].rev] \in CampaignFiles
        /\ [mem[p] EXCEPT !.bound = mem[p].rev].state = mem[p].state
    BY <1>1, <2>3, FileUpdates
  <2>. QED
    BY <2>1, <2>2, <2>5, <2>6, <2>7, ContinueTyped DEF Points, RunPoints
<1>9. CASE EvidenceDiffers(p) \/ AppendBusy(p)
  <2>1. StoreTyped' /\ LockTyped' /\ crashes' \in Nat /\ Raise(p)
    BY <1>1, <1>9, StoreKept, LockKept DEF EvidenceDiffers, AppendBusy
  <2>. QED
    BY <2>1, RaiseTyped
<1>10. CASE RecordTerminal(p)
  <2>1. on[p] \in Campaigns
    BY <1>1, <1>10 DEF RecordTerminal, At, CommandAt, CampaignPoints, EndPoints, RunPoints
  <2>2. mem[p].state \in Terminal
    BY <1>1, <1>10 DEF RecordTerminal, At, CommandAt, EndPoints
  <2>3. StoreTyped' /\ LockTyped' /\ crashes' \in Nat /\ Goto(p, "recorded")
    BY <1>1, <1>10, <2>1, CampaignWritten, LockKept DEF RecordTerminal
  <2>. QED
    BY <2>1, <2>2, <2>3, GotoTyped DEF Points, RunPoints
<1>11. CASE LockAppend(p)
  <2>1. on[p] \in Campaigns
    BY <1>1, <1>11 DEF LockAppend, At, CommandAt, CampaignPoints, EndPoints, RunPoints
  <2>2. mem[p].state \in Terminal
    BY <1>1, <1>11 DEF LockAppend, At, CommandAt, EndPoints
  <2>3. mem[p].index \in Nat
    BY <1>1, FileFields
  <2>4. TakeLock(p, "append", mem[p].index) /\ Goto(p, "appending") /\ UNCHANGED <<store, crashes>>
    BY <1>11 DEF LockAppend
  <2>5. StoreTyped' /\ LockTyped' /\ crashes' \in Nat
    BY <1>1, <2>3, <2>4, StoreKept, Taken DEF Operations
  <2>. QED
    BY <2>1, <2>2, <2>4, <2>5, GotoTyped DEF Points, LockedPoints
<1>12. CASE AppendTerminal(p)
  <2>1. on[p] \in Campaigns
    BY <1>1, <1>12 DEF AppendTerminal, At, CommandAt, CampaignPoints, EndPoints, RunPoints
  <2>2. mem[p].state \in Terminal
    BY <1>1, <1>12 DEF AppendTerminal, At, CommandAt, EndPoints
  <2>3. EntryOf(on[p], mem[p]) \in Entries
    BY <1>1, <2>1, <2>2, EntryTyped
  <2>4. StoreTyped' /\ LockTyped' /\ crashes' \in Nat /\ Goto(p, "done")
    BY <1>1, <1>12, <2>3, EntryWritten, LockKept DEF AppendTerminal
  <2>. QED
    BY <2>4, GotoTyped DEF Points, LockedPoints, CampaignPoints, EndPoints, RunPoints
<1>13. CASE AppendRefused(p)
  <2>1. StoreTyped' /\ LockTyped' /\ crashes' \in Nat /\ Raise(p)
    BY <1>1, <1>13, StoreKept, Unlinked DEF AppendRefused
  <2>. QED
    BY <2>1, RaiseTyped
<1>14. CASE RewriteFailed(p)
  <2>1. on[p] \in Campaigns
    BY <1>1, <1>14 DEF RewriteFailed, At, CommandAt, CampaignPoints, EndPoints, RunPoints
  <2>2. StoreTyped' /\ LockTyped' /\ crashes' \in Nat /\ Leave(p)
    BY <1>1, <1>14, <2>1, CampaignWritten, LockKept DEF RewriteFailed
  <2>. QED
    BY <2>2, LeaveTyped
<1>. QED
  BY <1>2, <1>3, <1>4, <1>5, <1>6, <1>7, <1>8, <1>9, <1>10, <1>11, <1>12, <1>13, <1>14
     DEF RunStep

Begin(p) ==
  \/ Reconcile(p) \/ LockSeries(p, "initialize") \/ LockSeries(p, "stop")
  \/ \E c \in Campaigns : Start(p, c) \/ Resume(p, c) \/ ResumePreview(p, c)

LEMMA BeginTyped ==
  ASSUME TypeInv, NEW p \in Procs, Begin(p)
  PROVE  TypeInv'
<1>1. /\ StoreTyped /\ LockTyped /\ CommandTyped /\ crashes \in Nat
      /\ mem[p] \in CampaignFiles /\ on[p] \in Campaigns \cup {Nobody} /\ try[p] \in BOOLEAN
      /\ CommandAt(p)
  BY DEF TypeInv, CommandTyped
<1>2. CASE FindNoLock(p)
  <2>1. StoreTyped' /\ LockTyped' /\ crashes' \in Nat /\ Goto(p, "unlocked")
    BY <1>1, <1>2, StoreKept, LockKept DEF FindNoLock
  <2>. QED
    BY <2>1, GotoTyped DEF Points, FreePoints, CampaignPoints, EndPoints, RunPoints
<1>3. CASE FindRemovable(p)
  <2>1. StoreTyped' /\ LockTyped' /\ crashes' \in Nat /\ Goto(p, "clearing")
    BY <1>1, <1>3, StoreKept, LockKept DEF FindRemovable
  <2>. QED
    BY <2>1, GotoTyped DEF Points, RepairPoints, CampaignPoints, EndPoints, RunPoints
<1>4. CASE FindRepairable(p)
  <2>1. lock.camp \in Campaigns
    BY <1>1, <1>4 DEF FindRepairable, Repairable, Stale, LockTyped
  <2> DEFINE k == [camp[lock.camp] EXCEPT !.state = "failed"]
  <2>2. camp[lock.camp] \in CampaignFiles
    BY <1>1, <2>1 DEF StoreTyped
  <2>3. k \in CampaignFiles /\ k.state \in Terminal
    BY <2>2, FileUpdates DEF States, Terminal
  <2>4. StoreTyped' /\ LockTyped' /\ crashes' \in Nat
    BY <1>1, <1>4, StoreKept, LockKept DEF FindRepairable
  <2>5. Enter(p, lock.camp, k, FALSE, "repairing")
    BY <1>4 DEF FindRepairable
  <2>. QED
    BY <2>1, <2>3, <2>4, <2>5, EnterTyped DEF Points, RepairPoints
<1>5. ASSUME NEW op \in {"initialize", "stop"}, LockSeries(p, op)
      PROVE  TypeInv'
  <2>1. TakeLock(p, op, None) /\ Goto(p, op) /\ UNCHANGED <<store, crashes>>
    BY <1>5 DEF LockSeries
  <2>2. StoreTyped' /\ LockTyped' /\ crashes' \in Nat
    BY <1>1, <2>1, StoreKept, Taken DEF Operations
  <2>. QED
    BY <2>1, <2>2, GotoTyped DEF Points, LockedPoints, CampaignPoints, EndPoints, RunPoints
<1>6. ASSUME NEW c \in Campaigns, Start(p, c)
      PROVE  TypeInv'
  <2> DEFINE k == [NoCampaign EXCEPT !.state = "running", !.parent = policy]
  <2>1. k \in CampaignFiles
    BY <1>1, NoCampaignTyped DEF StoreTyped, CampaignFiles
  <2>2. StoreTyped' /\ LockTyped' /\ crashes' \in Nat /\ Enter(p, c, k, FALSE, "started")
    BY <1>1, <1>6, StoreKept, LockKept DEF Start
  <2>. QED
    BY <2>1, <2>2, EnterTyped DEF Points, FreePoints, EndPoints
<1>7. ASSUME NEW c \in Campaigns, Resume(p, c)
      PROVE  TypeInv'
  <2> DEFINE k == [camp[c] EXCEPT !.rev = NextRevision(c)]
  <2>1. camp[c] \in CampaignFiles /\ NextRevision(c) \in Revisions
    BY <1>1, <1>7 DEF StoreTyped, Resume, MayResume
  <2>2. k \in CampaignFiles
    BY <2>1, FileUpdates
  <2>3. StoreTyped' /\ LockTyped' /\ crashes' \in Nat /\ Enter(p, c, k, FALSE, "running")
    BY <1>1, <1>7, StoreKept, LockKept DEF Resume
  <2>. QED
    BY <2>2, <2>3, EnterTyped DEF Points, RunPoints, EndPoints
<1>8. ASSUME NEW c \in Campaigns, ResumePreview(p, c)
      PROVE  TypeInv'
  <2> DEFINE k == [camp[c] EXCEPT !.rev = NextRevision(c), !.state = "previewed",
                                  !.promo = "previewed", !.pending = FALSE]
  <2>1. camp[c] \in CampaignFiles /\ NextRevision(c) \in Revisions
    BY <1>1, <1>8 DEF StoreTyped, ResumePreview, MayResume
  <2>2. k \in CampaignFiles /\ k.state \in Terminal
    BY <2>1 DEF CampaignFiles, Terminal
  <2>3. StoreTyped' /\ LockTyped' /\ crashes' \in Nat /\ Enter(p, c, k, FALSE, "ended")
    BY <1>1, <1>8, StoreKept, LockKept DEF ResumePreview
  <2>. QED
    BY <2>2, <2>3, EnterTyped DEF Points, RunPoints
<1>. QED
  BY <1>2, <1>3, <1>4, <1>5, <1>6, <1>7, <1>8 DEF Begin, Reconcile

(* The owner's promotions leave every command where it is.                    *)
LEMMA PromotionTyped ==
  ASSUME TypeInv, NEW c \in Campaigns,
         BeginPromotion(c) \/ CommitPromotion(c) \/ RecoverPromotion(c)
  PROVE  TypeInv'
<1>1. camp[c] \in CampaignFiles
  BY DEF TypeInv, StoreTyped
<1>2. \A s \in Promotions : [camp[c] EXCEPT !.promo = s] \in CampaignFiles
  BY <1>1, FileUpdates
<1>3. PICK s \in Promotions : SetPromotion(c, s)
  BY DEF BeginPromotion, CommitPromotion, RecoverPromotion, Promotions
<1>4. /\ policy' = policy \/ policy' = c
      /\ UNCHANGED <<series, entries, lock, evidence, bundles, command, crashes>>
  BY DEF BeginPromotion, CommitPromotion, RecoverPromotion
<1>5. camp' \in [Campaigns -> CampaignFiles]
  BY <1>2, <1>3 DEF TypeInv, StoreTyped, SetPromotion, WriteCampaignFile
<1>6. StoreTyped' /\ LockTyped' /\ crashes' \in Nat
  BY <1>4, <1>5 DEF TypeInv, StoreTyped, LockTyped, Policies
<1>7. CommandTyped' /\ \A p \in Procs : CommandAt(p)'
  BY <1>4 DEF TypeInv, CommandTyped, CommandAt, command
<1>. QED
  BY <1>6, <1>7 DEF TypeInv

LEMMA StopTyped ==
  ASSUME TypeInv, NEW p \in Procs, Crash(p) \/ Interrupt(p)
  PROVE  TypeInv'
<1>1. /\ StoreTyped /\ LockTyped /\ CommandTyped /\ crashes \in Nat
      /\ mem[p] \in CampaignFiles /\ on[p] \in Campaigns \cup {Nobody} /\ try[p] \in BOOLEAN
      /\ CommandAt(p)
  BY DEF TypeInv, CommandTyped
<1>2. StoreTyped' /\ crashes' \in Nat
  BY <1>1, StoreKept, SeriesAssumption DEF Crash, Interrupt
<1>3. CASE Crash(p)
  <2>1. CASE lock # NoLock /\ lock.owner = p
    <3>1. lock \in Locks /\ lock' = [lock EXCEPT !.owner = Dead]
      BY <1>1, <1>3, <2>1 DEF Crash, LockTyped
    <3>2. lock' \in Locks /\ lock'.op = lock.op /\ lock'.camp = lock.camp
      BY <3>1 DEF Locks
    <3>. QED
      BY <1>1, <1>2, <1>3, <2>1, <3>2, LeaveTyped DEF Crash, LockTyped
  <2>2. CASE ~(lock # NoLock /\ lock.owner = p)
    <3>1. LockTyped'
      BY <1>1, <1>3, <2>2, LockKept DEF Crash
    <3>. QED
      BY <1>2, <1>3, <3>1, LeaveTyped DEF Crash
  <2>. QED
    BY <2>1, <2>2
<1>4. CASE Interrupt(p)
  <2>1. LockTyped' /\ Raise(p)
    BY <1>1, <1>4, LockKept, Unlinked DEF Interrupt
  <2>. QED
    BY <1>2, <2>1, RaiseTyped
<1>. QED
  BY <1>3, <1>4

LEMMA InitTyped == Init => TypeInv
<1> SUFFICES ASSUME Init PROVE TypeInv
  OBVIOUS
<1>1. 0 \in Revisions
  BY SeriesAssumption DEF Revisions
<1>2. StoreTyped
  BY <1>1, NoCampaignTyped DEF Init, StoreTyped, Policies
<1>3. LockTyped
  BY DEF Init, LockTyped
<1>4. CommandTyped
  BY NoCampaignTyped DEF Init, CommandTyped, Points, FreePoints
<1>5. \A p \in Procs : CommandAt(p)
  BY DEF Init, CommandAt, CampaignPoints, EndPoints, RunPoints
<1>. QED
  BY <1>2, <1>3, <1>4, <1>5 DEF Init, TypeInv

LEMMA TypeStep == TypeInv /\ [Next]_vars => TypeInv'
<1> SUFFICES ASSUME TypeInv, [Next]_vars PROVE TypeInv'
  OBVIOUS
<1>1. ASSUME NEW p \in Procs, Step(p) PROVE TypeInv'
  BY <1>1, LockedTyped, RepairTyped, RunTyped DEF Step
<1>2. ASSUME NEW p \in Procs, Begin(p) PROVE TypeInv'
  BY <1>2, BeginTyped
<1>3. ASSUME NEW p \in Procs, Crash(p) \/ Interrupt(p) PROVE TypeInv'
  BY <1>3, StopTyped
<1>4. ASSUME NEW c \in Campaigns,
             BeginPromotion(c) \/ CommitPromotion(c) \/ RecoverPromotion(c)
      PROVE  TypeInv'
  BY <1>4, PromotionTyped
<1>5. CASE UNCHANGED vars
  <2>1. StoreTyped' /\ LockTyped' /\ CommandTyped' /\ crashes' \in Nat
    BY <1>5 DEF TypeInv, vars, StoreTyped, LockTyped, CommandTyped
  <2>2. \A p \in Procs : CommandAt(p)'
    BY <1>5 DEF TypeInv, vars, CommandAt
  <2>. QED
    BY <2>1, <2>2 DEF TypeInv
<1>. QED
  BY <1>1, <1>2, <1>3, <1>4, <1>5 DEF Next, Begin

(* Every durable record and every command's copy of one has its shape, at any *)
(* interleaving of the commands with kills and interrupts.                   *)
THEOREM TypeCorrect == Spec => []TypeOK
<1>1. TypeInv => TypeOK
  BY DEF TypeInv, TypeOK, StoreTyped, LockTyped, CommandTyped, Points
<1>. QED
  BY <1>1, InitTyped, TypeStep, PTL DEF Spec

-----------------------------------------------------------------------------
(* One holder.  A mutation runs behind a lock that names it as the owner; a    *)
(* repair runs behind the lock of a dead process, and there is one repair at   *)
(* a time: nothing but the owner of the profile keeps a second one away.      *)

LockInv ==
  /\ \A p \in Procs : pc[p] \in LockedPoints => lock # NoLock /\ lock.owner = p
  /\ \A p \in Procs : pc[p] \in RepairPoints => Stale
  /\ \A p, q \in Procs : pc[p] \in RepairPoints /\ pc[q] \in RepairPoints => p = q

Moves(p, s) == pc' = [pc EXCEPT ![p] = s]
Outside == Points \ (LockedPoints \cup RepairPoints)

LEMMA OutsidePoints == RunPoints \cup FreePoints \subseteq Outside
BY DEF Outside, Points, LockedPoints, RepairPoints, RunPoints, FreePoints

(* The ways a command's step may treat the lock.                              *)
LockUse(p, s) ==
  \/ lock' = lock /\ s \in Outside
  \/ lock' = lock /\ pc[p] \in LockedPoints /\ s \in LockedPoints
  \/ lock' = lock /\ pc[p] \in RepairPoints /\ s \in RepairPoints
  \/ lock' = lock /\ Stale /\ s \in RepairPoints /\ \A q \in Procs : pc[q] \notin RepairPoints
  \/ lock = NoLock /\ lock' # NoLock /\ lock'.owner = p /\ s \in LockedPoints
  \/ pc[p] \in LockedPoints /\ s \in LockedPoints /\ lock' # NoLock /\ lock'.owner = p
  \/ pc[p] \in LockedPoints \cup RepairPoints /\ lock' = NoLock /\ s \in Outside
  \/ lock # NoLock /\ lock.owner = p /\ lock' # NoLock /\ lock'.owner = Dead /\ s \in Outside

LEMMA LockUsed ==
  ASSUME pc \in [Procs -> Points], LockInv, NEW p \in Procs, NEW s \in Points,
         Moves(p, s), LockUse(p, s)
  PROVE  LockInv'
<1>1. LockedPoints \cap RepairPoints = {}
  BY DEF LockedPoints, RepairPoints
<1>2. pc'[p] = s /\ \A q \in Procs : q # p => pc'[q] = pc[q]
  BY DEF Moves
<1>3. \A q \in Procs : q # Dead
  BY SeriesAssumption
<1>4. /\ \A q \in Procs : pc[q] \in LockedPoints => lock # NoLock /\ lock.owner = q
      /\ \A q \in Procs : pc[q] \in RepairPoints => lock # NoLock /\ lock.owner = Dead
      /\ \A q, r \in Procs : pc[q] \in RepairPoints /\ pc[r] \in RepairPoints => q = r
  BY DEF LockInv, Stale
<1>5. CASE lock' = lock
  BY <1>1, <1>2, <1>3, <1>4, <1>5 DEF LockUse, LockInv, Stale, Outside
<1>6. CASE lock' # lock
  BY <1>1, <1>2, <1>3, <1>4, <1>6 DEF LockUse, LockInv, Stale, Outside
<1>. QED
  BY <1>5, <1>6

LEMMA TakenBy ==
  ASSUME TypeInv, NEW p \in Procs, NEW op \in Operations, NEW i \in Nat \cup {None},
         TakeLock(p, op, i)
  PROVE  lock = NoLock /\ lock' # NoLock /\ lock'.owner = p
<1>1. on[p] \in Campaigns \cup {Nobody} /\ mem[p].rev \in Revisions
  BY FileFields DEF TypeInv, CommandTyped
<1>2. lock' \in Locks /\ lock'.owner = p
  BY <1>1 DEF TakeLock, Locks
<1>. QED
  BY <1>2, SeriesAssumption DEF TakeLock

LEMMA NamedBy ==
  ASSUME TypeInv, NEW p \in Procs, NameLock(p)
  PROVE  lock' # NoLock /\ lock'.owner = p
<1>1. on[p] \in Campaigns \cup {Nobody} /\ Count \in Nat /\ 0 \in Revisions
  BY CountIsNat, SeriesAssumption DEF TypeInv, CommandTyped, StoreTyped, Revisions
<1>2. lock' \in Locks /\ lock'.owner = p
  BY <1>1 DEF NameLock, Locks, Operations
<1>. QED
  BY <1>2, SeriesAssumption

(* How every step but Attach uses the lock, and who comes to "directory".     *)
Uses(p) == \E s \in Points : Moves(p, s) /\ LockUse(p, s) /\ (s = "directory" => MakeDirectory(p))

LEMMA UsesAt ==
  ASSUME NEW p \in Procs, NEW s \in Points, Moves(p, s), LockUse(p, s),
         s = "directory" => MakeDirectory(p)
  PROVE  Uses(p)
BY Zenon DEF Uses

LEMMA UsesLock ==
  ASSUME TypeInv, LockInv, "contend" \notin Liberties, NEW p \in Procs,
         (Step(p) /\ ~Attach(p)) \/ Begin(p) \/ Crash(p) \/ Interrupt(p)
  PROVE  Uses(p)
<1>1. pc \in [Procs -> Points]
  BY DEF TypeInv, CommandTyped
<1>2. CASE MakeDirectory(p)
  <2>1. Moves(p, "directory") /\ LockUse(p, "directory")
    BY <1>1, <1>2 DEF MakeDirectory, Moves, LockUse, At, Goto, Leave, Enter, Continue,
       Unlink, TakeLock, Points, LockedPoints, RepairPoints, RunPoints, FreePoints, Outside
  <2>. QED
    BY <1>2, <2>1, UsesAt DEF Points, LockedPoints, RepairPoints, RunPoints, FreePoints
<1>3. CASE WriteSeries(p) \/ StopSeries(p) \/ AppendTerminal(p)
  <2>1. Moves(p, "done") /\ LockUse(p, "done")
    BY <1>1, <1>3 DEF WriteSeries, StopSeries, AppendTerminal, Moves, LockUse, At, Goto, Leave, Enter, Continue,
       Unlink, TakeLock, Points, LockedPoints, RepairPoints, RunPoints, FreePoints, Outside
  <2>. QED
    BY <2>1, UsesAt DEF Points, LockedPoints, RepairPoints, RunPoints, FreePoints
<1>4. CASE Release(p) \/ Refuse(p) \/ FinishReconcile(p)
  <2>1. Moves(p, "idle") /\ LockUse(p, "idle")
    BY <1>1, <1>4 DEF Release, Refuse, FinishReconcile, Moves, LockUse, At, Goto, Leave, Enter, Continue,
       Unlink, TakeLock, Points, LockedPoints, RepairPoints, RunPoints, FreePoints, Outside
  <2>. QED
    BY <2>1, UsesAt DEF Points, LockedPoints, RepairPoints, RunPoints, FreePoints
<1>5. CASE LockReconcile(p)
  <2>1. TakeLock(p, "reconcile", None) /\ Goto(p, "scanning")
    BY <1>5 DEF LockReconcile
  <2>2. lock = NoLock /\ lock' # NoLock /\ lock'.owner = p
    BY <2>1, TakenBy DEF Operations
  <2>3. Moves(p, "scanning") /\ LockUse(p, "scanning")
    BY <2>1, <2>2 DEF Goto, Moves, LockUse, LockedPoints
  <2>. QED
    BY <2>3, UsesAt DEF Points, LockedPoints, RepairPoints, RunPoints, FreePoints
<1>6. CASE GiveUpLock(p) \/ RewriteFailed(p)
  <2>1. Moves(p, "idle") /\ LockUse(p, "idle")
    BY <1>1, <1>6 DEF GiveUpLock, RewriteFailed, Moves, LockUse, At, Goto, Leave, Enter, Continue,
       Unlink, TakeLock, Points, LockedPoints, RepairPoints, RunPoints, FreePoints, Outside
  <2>. QED
    BY <2>1, UsesAt DEF Points, LockedPoints, RepairPoints, RunPoints, FreePoints
<1>7. CASE LockAllocation(p)
  <2>1. TakeLock(p, "allocation", None) /\ Goto(p, "allocating")
    BY <1>7 DEF LockAllocation
  <2>2. lock = NoLock /\ lock' # NoLock /\ lock'.owner = p
    BY <2>1, TakenBy DEF Operations
  <2>3. Moves(p, "allocating") /\ LockUse(p, "allocating")
    BY <2>1, <2>2 DEF Goto, Moves, LockUse, LockedPoints
  <2>. QED
    BY <2>3, UsesAt DEF Points, LockedPoints, RepairPoints, RunPoints, FreePoints
<1>8. CASE NameLock(p)
  <2>1. Moves(p, "named") /\ LockUse(p, "named")
    BY <1>8, NamedBy DEF NameLock, At, Continue, Enter, Moves, LockUse, LockedPoints
  <2>. QED
    BY <2>1, UsesAt DEF Points, LockedPoints, RepairPoints, RunPoints, FreePoints
<1>9. CASE WriteAllocation(p)
  <2>1. Moves(p, "written") /\ LockUse(p, "written")
    BY <1>1, <1>9 DEF WriteAllocation, Moves, LockUse, At, Goto, Leave, Enter, Continue,
       Unlink, TakeLock, Points, LockedPoints, RepairPoints, RunPoints, FreePoints, Outside
  <2>. QED
    BY <2>1, UsesAt DEF Points, LockedPoints, RepairPoints, RunPoints, FreePoints
<1>10. CASE FinishAllocation(p)
  <2>1. Moves(p, "running") /\ LockUse(p, "running")
    BY <1>1, <1>10 DEF FinishAllocation, Moves, LockUse, At, Goto, Leave, Enter, Continue,
       Unlink, TakeLock, Points, LockedPoints, RepairPoints, RunPoints, FreePoints, Outside
  <2>. QED
    BY <2>1, UsesAt DEF Points, LockedPoints, RepairPoints, RunPoints, FreePoints
<1>11. CASE RepairEvidence(p)
  <2>1. Moves(p, "evidence repaired") /\ LockUse(p, "evidence repaired")
    BY <1>1, <1>11 DEF RepairEvidence, Moves, LockUse, At, Goto, Leave, Enter, Continue,
       Unlink, TakeLock, Points, LockedPoints, RepairPoints, RunPoints, FreePoints, Outside
  <2>. QED
    BY <2>1, UsesAt DEF Points, LockedPoints, RepairPoints, RunPoints, FreePoints
<1>12. CASE RepairCampaign(p)
  <2>1. Moves(p, "campaign repaired") /\ LockUse(p, "campaign repaired")
    BY <1>1, <1>12 DEF RepairCampaign, Moves, LockUse, At, Goto, Leave, Enter, Continue,
       Unlink, TakeLock, Points, LockedPoints, RepairPoints, RunPoints, FreePoints, Outside
  <2>. QED
    BY <2>1, UsesAt DEF Points, LockedPoints, RepairPoints, RunPoints, FreePoints
<1>13. CASE RepairEntry(p)
  <2>1. Moves(p, "entry repaired") /\ LockUse(p, "entry repaired")
    BY <1>1, <1>13 DEF RepairEntry, Moves, LockUse, At, Goto, Leave, Enter, Continue,
       Unlink, TakeLock, Points, LockedPoints, RepairPoints, RunPoints, FreePoints, Outside
  <2>. QED
    BY <2>1, UsesAt DEF Points, LockedPoints, RepairPoints, RunPoints, FreePoints
<1>14. CASE RemoveStale(p) \/ FindNoLock(p)
  <2>1. Moves(p, "unlocked") /\ LockUse(p, "unlocked")
    BY <1>1, <1>14 DEF RemoveStale, FindNoLock, Moves, LockUse, At, Goto, Leave, Enter, Continue,
       Unlink, TakeLock, Points, LockedPoints, RepairPoints, RunPoints, FreePoints, Outside
  <2>. QED
    BY <2>1, UsesAt DEF Points, LockedPoints, RepairPoints, RunPoints, FreePoints
<1>15. CASE EnterLoop(p)
  <2>1. Moves(p, "looping") /\ LockUse(p, "looping")
    BY <1>1, <1>15 DEF EnterLoop, Moves, LockUse, At, Goto, Leave, Enter, Continue,
       Unlink, TakeLock, Points, LockedPoints, RepairPoints, RunPoints, FreePoints, Outside
  <2>. QED
    BY <2>1, UsesAt DEF Points, LockedPoints, RepairPoints, RunPoints, FreePoints
<1>16. CASE Fail(p) \/ Exhaust(p) \/ Preview(p)
  <2>1. Moves(p, "ended") /\ LockUse(p, "ended")
    BY <1>1, <1>16 DEF Fail, Exhaust, Preview, Moves, LockUse, At, Goto, Leave, Enter, Continue,
       Unlink, TakeLock, Points, LockedPoints, RepairPoints, RunPoints, FreePoints, Outside
  <2>. QED
    BY <2>1, UsesAt DEF Points, LockedPoints, RepairPoints, RunPoints, FreePoints
<1>17. CASE RecordReport(p)
  <2>1. Moves(p, "reported") /\ LockUse(p, "reported")
    BY <1>1, <1>17 DEF RecordReport, Moves, LockUse, At, Goto, Leave, Enter, Continue,
       Unlink, TakeLock, Points, LockedPoints, RepairPoints, RunPoints, FreePoints, Outside
  <2>. QED
    BY <2>1, UsesAt DEF Points, LockedPoints, RepairPoints, RunPoints, FreePoints
<1>18. CASE InstallBundle(p)
  <2>1. Moves(p, "bundled") /\ LockUse(p, "bundled")
    BY <1>1, <1>18 DEF InstallBundle, Moves, LockUse, At, Goto, Leave, Enter, Continue,
       Unlink, TakeLock, Points, LockedPoints, RepairPoints, RunPoints, FreePoints, Outside
  <2>. QED
    BY <2>1, UsesAt DEF Points, LockedPoints, RepairPoints, RunPoints, FreePoints
<1>19. CASE PersistEvidence(p)
  <2>1. Moves(p, "evidenced") /\ LockUse(p, "evidenced")
    BY <1>1, <1>19 DEF PersistEvidence, Moves, LockUse, At, Goto, Leave, Enter, Continue,
       Unlink, TakeLock, Points, LockedPoints, RepairPoints, RunPoints, FreePoints, Outside
  <2>. QED
    BY <2>1, UsesAt DEF Points, LockedPoints, RepairPoints, RunPoints, FreePoints
<1>20. CASE RecordTerminal(p)
  <2>1. Moves(p, "recorded") /\ LockUse(p, "recorded")
    BY <1>1, <1>20 DEF RecordTerminal, Moves, LockUse, At, Goto, Leave, Enter, Continue,
       Unlink, TakeLock, Points, LockedPoints, RepairPoints, RunPoints, FreePoints, Outside
  <2>. QED
    BY <2>1, UsesAt DEF Points, LockedPoints, RepairPoints, RunPoints, FreePoints
<1>21. CASE LockAppend(p)
  <2>1. TakeLock(p, "append", mem[p].index) /\ Goto(p, "appending")
    BY <1>21 DEF LockAppend
  <2>2. mem[p].index \in Nat
    BY FileFields DEF TypeInv, CommandTyped
  <2>3. lock = NoLock /\ lock' # NoLock /\ lock'.owner = p
    BY <2>1, <2>2, TakenBy DEF Operations
  <2>4. Moves(p, "appending") /\ LockUse(p, "appending")
    BY <2>1, <2>3 DEF Goto, Moves, LockUse, LockedPoints
  <2>. QED
    BY <2>4, UsesAt DEF Points, LockedPoints, RepairPoints, RunPoints, FreePoints
<1>22. CASE Interrupt(p)
  <2>1. /\ Moves(p, "excepting") \/ Moves(p, "idle")
        /\ lock' = lock \/ (pc[p] \in {"appending", "done"} /\ lock' = NoLock)
    BY <1>22 DEF Interrupt, Raise, Moves, Leave, Enter, Continue, Unlink
  <2>2. "excepting" \in Outside \cap Points /\ "idle" \in Outside \cap Points
    BY DEF Points, LockedPoints, RepairPoints, RunPoints, FreePoints, Outside
  <2>3. {"appending", "done"} \subseteq LockedPoints
    BY DEF LockedPoints
  <2>. QED
    BY <2>1, <2>2, <2>3, UsesAt DEF LockUse
<1>23. CASE FindRemovable(p)
  <2>1. Moves(p, "clearing") /\ LockUse(p, "clearing")
    BY <1>1, <1>23 DEF FindRemovable, Moves, LockUse, At, Goto, Leave, Enter, Continue,
       Unlink, TakeLock, Points, LockedPoints, RepairPoints, RunPoints, FreePoints, Outside, MayReconcile
  <2>. QED
    BY <2>1, UsesAt DEF Points, LockedPoints, RepairPoints, RunPoints, FreePoints
<1>24. CASE FindRepairable(p)
  <2>1. Moves(p, "repairing") /\ LockUse(p, "repairing")
    BY <1>1, <1>24 DEF FindRepairable, Moves, LockUse, At, Goto, Leave, Enter, Continue,
       Unlink, TakeLock, Points, LockedPoints, RepairPoints, RunPoints, FreePoints, Outside, MayReconcile
  <2>. QED
    BY <2>1, UsesAt DEF Points, LockedPoints, RepairPoints, RunPoints, FreePoints
<1>25. CASE Scan(p)
  <2>1. pc[p] = "scanning" => Moves(p, "attaching") /\ LockUse(p, "attaching")
    BY <1>1, <1>25 DEF Scan, Moves, LockUse, At, Points, LockedPoints, RepairPoints, RunPoints, FreePoints, Outside
  <2>2. pc[p] = "allocating" => Moves(p, "catching up") /\ LockUse(p, "catching up")
    BY <1>1, <1>25 DEF Scan, Moves, LockUse, At, Points, LockedPoints, RepairPoints, RunPoints, FreePoints, Outside
  <2>. QED
    BY <1>25, <2>1, <2>2, UsesAt DEF Scan, Points, LockedPoints
<1>26. CASE EvidenceDiffers(p) \/ AppendBusy(p) \/ AppendRefused(p)
  <2>1. (Moves(p, "excepting") \/ Moves(p, "idle")) /\ (lock' = lock \/ (pc[p] = "appending" /\ lock' = NoLock))
    BY <1>26 DEF EvidenceDiffers, AppendBusy, AppendRefused, Raise, Moves, At, Leave, Enter,
       Continue, Unlink
  <2>2. "excepting" \in Outside \cap Points /\ "idle" \in Outside \cap Points
    BY DEF Points, LockedPoints, RepairPoints, RunPoints, FreePoints, Outside
  <2>3. pc[p] = "appending" => pc[p] \in LockedPoints
    BY DEF LockedPoints
  <2>. QED
    BY <2>1, <2>2, <2>3, UsesAt DEF LockUse
<1>27. CASE Crash(p)
  <2>1. Moves(p, "idle") /\ (lock' = lock \/ (lock # NoLock /\ lock.owner = p /\ lock' = [lock EXCEPT !.owner = Dead]))
    BY <1>27 DEF Crash, Leave, Moves
  <2>2. lock # NoLock => lock' # NoLock /\ (lock' = [lock EXCEPT !.owner = Dead] => lock'.owner = Dead)
    <3>1. lock # NoLock => lock \in Locks
      BY DEF TypeInv, LockTyped
    <3>2. lock # NoLock => [lock EXCEPT !.owner = Dead] \in Locks /\ [lock EXCEPT !.owner = Dead].owner = Dead
      BY <3>1 DEF Locks
    <3>. QED
      BY <2>1, <3>2, SeriesAssumption
  <2>3. "idle" \in Outside \cap Points
    BY DEF Points, LockedPoints, RepairPoints, RunPoints, FreePoints, Outside
  <2>4. LockUse(p, "idle")
    BY <2>1, <2>2, <2>3 DEF LockUse
  <2>. QED
    BY <2>1, <2>3, <2>4, UsesAt
<1>28. CASE LockSeries(p, "initialize")
  <2>1. TakeLock(p, "initialize", None) /\ Goto(p, "initialize")
    BY <1>28 DEF LockSeries
  <2>2. lock = NoLock /\ lock' # NoLock /\ lock'.owner = p
    BY <2>1, TakenBy DEF Operations
  <2>3. Moves(p, "initialize") /\ LockUse(p, "initialize")
    BY <2>1, <2>2 DEF Goto, Moves, LockUse, LockedPoints
  <2>. QED
    BY <2>3, UsesAt DEF Points, LockedPoints
<1>29. CASE LockSeries(p, "stop")
  <2>1. TakeLock(p, "stop", None) /\ Goto(p, "stop")
    BY <1>29 DEF LockSeries
  <2>2. lock = NoLock /\ lock' # NoLock /\ lock'.owner = p
    BY <2>1, TakenBy DEF Operations
  <2>3. Moves(p, "stop") /\ LockUse(p, "stop")
    BY <2>1, <2>2 DEF Goto, Moves, LockUse, LockedPoints
  <2>. QED
    BY <2>3, UsesAt DEF Points, LockedPoints
<1>30. ASSUME NEW c \in Campaigns, Start(p, c)
      PROVE  Uses(p)
  <2>1. Moves(p, "started") /\ LockUse(p, "started")
    BY <1>1, <1>30 DEF Start, Enter, Moves, LockUse, Points, LockedPoints, RepairPoints, RunPoints, FreePoints, Outside
  <2>. QED
    BY <2>1, UsesAt DEF Points, RunPoints, FreePoints
<1>31. ASSUME NEW c \in Campaigns, Resume(p, c)
      PROVE  Uses(p)
  <2>1. Moves(p, "running") /\ LockUse(p, "running")
    BY <1>1, <1>31 DEF Resume, Enter, Moves, LockUse, Points, LockedPoints, RepairPoints, RunPoints, FreePoints, Outside
  <2>. QED
    BY <2>1, UsesAt DEF Points, RunPoints, FreePoints
<1>32. ASSUME NEW c \in Campaigns, ResumePreview(p, c)
      PROVE  Uses(p)
  <2>1. Moves(p, "ended") /\ LockUse(p, "ended")
    BY <1>1, <1>32 DEF ResumePreview, Enter, Moves, LockUse, Points, LockedPoints, RepairPoints, RunPoints, FreePoints, Outside
  <2>. QED
    BY <2>1, UsesAt DEF Points, RunPoints, FreePoints
<1>. QED
  BY <1>2, <1>3, <1>4, <1>5, <1>6, <1>7, <1>8, <1>9, <1>10, <1>11, <1>12, <1>13, <1>14, <1>15, <1>16, <1>17,
     <1>18, <1>19, <1>20, <1>21, <1>22, <1>23, <1>24, <1>25, <1>26, <1>27, <1>28, <1>29, <1>30, <1>31, <1>32
     DEF Step, LockedStep, RepairStep, RunStep, Begin, Reconcile

LEMMA LockStep ==
  ASSUME "contend" \notin Liberties, TypeInv, LockInv, [Next]_vars
  PROVE  LockInv'
<1>1. pc \in [Procs -> Points]
  BY DEF TypeInv, CommandTyped
<1>2. ASSUME NEW p \in Procs,
             (Step(p) /\ ~Attach(p)) \/ Begin(p) \/ Crash(p) \/ Interrupt(p)
      PROVE  LockInv'
  <2>1. PICK s \in Points : Moves(p, s) /\ LockUse(p, s)
    BY <1>2, UsesLock DEF Uses
  <2>. QED
    BY <1>1, <2>1, LockUsed
<1>3. CASE UNCHANGED <<lock, pc>>
  BY <1>3 DEF LockInv, Stale
<1>4. ASSUME NEW p \in Procs, Attach(p)
      PROVE  UNCHANGED <<lock, pc>>
  BY <1>4 DEF Attach
<1>5. ASSUME NEW c \in Campaigns,
             BeginPromotion(c) \/ CommitPromotion(c) \/ RecoverPromotion(c)
      PROVE  UNCHANGED <<lock, pc>>
  BY <1>5 DEF BeginPromotion, CommitPromotion, RecoverPromotion, command
<1>6. UNCHANGED vars => UNCHANGED <<lock, pc>>
  BY DEF vars
<1>. QED
  BY <1>2, <1>3, <1>4, <1>5, <1>6 DEF Next, Begin

LEMMA InitLock == Init => LockInv
BY DEF Init, LockInv, LockedPoints, RepairPoints

(* As long as two reconciles do not clear one stale lock, whoever changes the  *)
(* series holds the lock that names it, whatever is killed and whenever.      *)
THEOREM SerializedMutations ==
  ASSUME "contend" \notin Liberties
  PROVE  Spec => []SerialMutations
<1>1. TypeInv /\ LockInv /\ [Next]_vars => TypeInv' /\ LockInv'
  BY TypeStep, LockStep
<1>2. LockInv => SerialMutations
  BY DEF LockInv, SerialMutations
<1>3. Init => TypeInv /\ LockInv
  BY InitTyped, InitLock
<1>. QED
  BY <1>1, <1>2, <1>3, PTL DEF Spec

-----------------------------------------------------------------------------
(* Entries.  Only Appendable entries are appended, and those only to an active *)
(* series; a series that was stopped does not become active again, because     *)
(* whoever writes series.json for the first time is alone with the lock.      *)

DirectoryInv == \A p \in Procs : pc[p] = "directory" => series = "directory"

LEMMA SeriesChange ==
  ASSUME NEW p \in Procs, Step(p) \/ Begin(p) \/ Crash(p) \/ Interrupt(p)
  PROVE  UNCHANGED series \/ MakeDirectory(p) \/ WriteSeries(p) \/ StopSeries(p)
<1>1. CASE LockedStep(p)
  BY <1>1 DEF LockedStep, Release, Refuse, LockReconcile, GiveUpLock, Scan, Attach,
     FinishReconcile, LockAllocation, NameLock, WriteAllocation, FinishAllocation, store
<1>2. CASE RepairStep(p)
  BY <1>2 DEF RepairStep, RepairEvidence, RepairCampaign, RepairEntry, RemoveStale, store
<1>3. CASE RunStep(p)
  BY <1>3 DEF RunStep, EnterLoop, Fail, Exhaust, RecordReport, InstallBundle, Preview,
     PersistEvidence, EvidenceDiffers, RecordTerminal, LockAppend, AppendBusy, AppendTerminal,
     AppendRefused, RewriteFailed, store
<1>4. CASE Begin(p)
  BY <1>4 DEF Begin, Reconcile, FindNoLock, FindRemovable, FindRepairable, LockSeries, Start,
     Resume, ResumePreview, store
<1>5. CASE Crash(p) \/ Interrupt(p)
  BY <1>5 DEF Crash, Interrupt, store
<1>. QED
  BY <1>1, <1>2, <1>3, <1>4, <1>5 DEF Step

LEMMA EntriesChange ==
  ASSUME TypeInv, NEW p \in Procs, Step(p) \/ Begin(p) \/ Crash(p) \/ Interrupt(p)
  PROVE  \/ UNCHANGED entries
         \/ \E e \in Entries : Appendable(e) /\ AppendEntry(e) /\ UNCHANGED series
<1>1. /\ on[p] \in Campaigns \cup {Nobody} /\ mem[p] \in CampaignFiles
      /\ todo[p] \in SUBSET Entries /\ CommandAt(p)
  BY DEF TypeInv, CommandTyped
<1>2. CASE Attach(p)
  BY <1>1, <1>2 DEF Attach
<1>3. CASE RepairEntry(p) \/ AppendTerminal(p)
  <2>1. on[p] \in Campaigns /\ mem[p].state \in Terminal
    BY <1>1, <1>3 DEF RepairEntry, AppendTerminal, At, CommandAt, CampaignPoints, EndPoints
  <2>2. EntryOf(on[p], mem[p]) \in Entries
    BY <1>1, <2>1, EntryTyped
  <2>. QED
    BY <1>3, <2>2 DEF RepairEntry, AppendTerminal
<1>4. CASE LockedStep(p) /\ ~Attach(p)
  BY <1>4 DEF LockedStep, MakeDirectory, WriteSeries, StopSeries, Release, Refuse,
     LockReconcile, GiveUpLock, Scan, FinishReconcile, LockAllocation, NameLock,
     WriteAllocation, FinishAllocation, store
<1>5. CASE RepairStep(p) /\ ~RepairEntry(p)
  BY <1>5 DEF RepairStep, RepairEvidence, RepairCampaign, RemoveStale, store
<1>6. CASE RunStep(p) /\ ~AppendTerminal(p)
  BY <1>6 DEF RunStep, EnterLoop, Fail, Exhaust, RecordReport, InstallBundle, Preview,
     PersistEvidence, EvidenceDiffers, RecordTerminal, LockAppend, AppendBusy,
     AppendRefused, RewriteFailed, store
<1>7. CASE Begin(p)
  BY <1>7 DEF Begin, Reconcile, FindNoLock, FindRemovable, FindRepairable, LockSeries, Start,
     Resume, ResumePreview, store
<1>8. CASE Crash(p) \/ Interrupt(p)
  BY <1>8 DEF Crash, Interrupt, store
<1>. QED
  BY <1>2, <1>3, <1>4, <1>5, <1>6, <1>7, <1>8 DEF Step

LEMMA PromotionApart ==
  ASSUME NEW c \in Campaigns, BeginPromotion(c) \/ CommitPromotion(c) \/ RecoverPromotion(c)
  PROVE  UNCHANGED <<series, entries, pc>>
BY DEF BeginPromotion, CommitPromotion, RecoverPromotion, command

LEMMA DirectoryStep ==
  ASSUME "contend" \notin Liberties, TypeInv, LockInv, DirectoryInv, [Next]_vars
  PROVE  DirectoryInv'
<1>1. ASSUME NEW p \in Procs, Step(p) \/ Begin(p) \/ Crash(p) \/ Interrupt(p)
      PROVE  DirectoryInv'
  <2>1. pc \in [Procs -> Points]
    BY DEF TypeInv, CommandTyped
  <2>2. CASE Attach(p)
    BY <2>2 DEF Attach, DirectoryInv
  <2>3. CASE ~Attach(p)
    <3>1. PICK s \in Points : Moves(p, s) /\ (s = "directory" => MakeDirectory(p))
      BY <1>1, <2>3, UsesLock DEF Uses
    <3>2. ASSUME NEW q \in Procs, pc'[q] = "directory"
          PROVE  MakeDirectory(p) \/ (pc[q] = "directory" /\ q # p)
      BY <2>1, <3>1, <3>2 DEF Moves
    <3>3. CASE MakeDirectory(p)
      BY <3>3 DEF MakeDirectory, DirectoryInv
    <3>4. CASE WriteSeries(p) \/ StopSeries(p)
      <4>1. \A q \in Procs : q # p => pc[q] # "directory"
        BY <3>4 DEF WriteSeries, StopSeries, At, LockInv, LockedPoints
      <4>2. ~MakeDirectory(p)
        BY <3>4 DEF WriteSeries, StopSeries, MakeDirectory, At
      <4>. QED
        BY <3>2, <4>1, <4>2 DEF DirectoryInv
    <3>5. CASE UNCHANGED series /\ ~MakeDirectory(p)
      BY <3>2, <3>5 DEF DirectoryInv
    <3>. QED
      BY <1>1, <3>3, <3>4, <3>5, SeriesChange
  <2>. QED
    BY <2>2, <2>3
<1>2. CASE UNCHANGED <<series, pc>>
  BY <1>2 DEF DirectoryInv
<1>3. UNCHANGED vars => UNCHANGED <<series, pc>>
  BY DEF vars
<1>. QED
  BY <1>1, <1>2, <1>3, PromotionApart DEF Next, Begin

KeptEntries ==
  /\ Len(entries') >= Len(entries)
  /\ \A i \in DOMAIN entries : entries'[i] = entries[i]
  /\ series = "stopped" => series' = "stopped" /\ entries' = entries

LEMMA KeptStep ==
  ASSUME "contend" \notin Liberties, TypeInv, DirectoryInv, [Next]_vars
  PROVE  KeptEntries
<1>1. entries \in Seq(Entries)
  BY DEF TypeInv, StoreTyped
<1>2. CASE UNCHANGED <<series, entries>>
  BY <1>1, <1>2 DEF KeptEntries
<1>3. ASSUME NEW p \in Procs, Step(p) \/ Begin(p) \/ Crash(p) \/ Interrupt(p)
      PROVE  KeptEntries
  <2>1. CASE \E e \in Entries : Appendable(e) /\ AppendEntry(e) /\ UNCHANGED series
    <3>1. series # "stopped"
      BY <2>1 DEF Appendable
    <3>2. PICK e \in Entries : AppendEntry(e)
      BY <2>1
    <3>. QED
      BY <1>1, <3>1, <3>2, Appends DEF KeptEntries
  <2>2. CASE MakeDirectory(p) \/ WriteSeries(p) \/ StopSeries(p)
    <3>1. UNCHANGED entries /\ (series = "stopped" => series' = "stopped")
      BY <2>2 DEF MakeDirectory, WriteSeries, StopSeries, At, DirectoryInv
    <3>. QED
      BY <1>1, <3>1 DEF KeptEntries
  <2>. QED
    BY <1>2, <1>3, <2>1, <2>2, SeriesChange, EntriesChange
<1>4. UNCHANGED vars => UNCHANGED <<series, entries>>
  BY DEF vars
<1>. QED
  BY <1>2, <1>3, <1>4, PromotionApart DEF Next, Begin

(* Entries are only ever appended, and none after the owner stopped the        *)
(* series, however commands interleave and wherever they are killed.         *)
THEOREM EntriesOnlyGrow ==
  ASSUME "contend" \notin Liberties
  PROVE  Spec => EntriesKept
<1> DEFINE I == TypeInv /\ LockInv /\ DirectoryInv
<1>1. Init => I
  BY InitTyped, InitLock DEF Init, DirectoryInv
<1>2. I /\ [Next]_vars => I'
  BY TypeStep, LockStep, DirectoryStep
<1>3. I /\ [Next]_vars => [KeptEntries]_<<series, entries>>
  BY KeptStep
<1>4. EntriesKept <=> [][KeptEntries]_<<series, entries>>
  BY DEF EntriesKept, KeptEntries
<1>. QED
  BY <1>1, <1>2, <1>3, <1>4, PTL DEF Spec

-----------------------------------------------------------------------------
(* History.  Campaigns are allocated one after the other, each from the policy *)
(* that those before it left, and only the last of them can be promoted.      *)

Exists(c) == camp[c].state # "none"
Applied(c) == camp[c].promo = "applied"
Before(n) == {d \in Campaigns : Exists(d) /\ camp[d].index < n}

(* The policy that the campaigns of S leave to the one after them.            *)
LeftBy(S, v) ==
  \/ v = Initial /\ \A d \in S : ~Applied(d)
  \/ v \in S /\ Applied(v) /\ \A d \in S : Applied(d) => camp[d].index <= camp[v].index

(* What an entry says is what campaign and evidence say.                      *)
Truthful(e) ==
  /\ Exists(e.camp) /\ e.index = camp[e.camp].index /\ e.parent = camp[e.camp].parent
  /\ evidence[e.camp][e.rev] = [state |-> e.state, parent |-> e.parent]

EntriesInv ==
  /\ \A i \in DOMAIN entries : Truthful(entries[i]) /\ entries[i].index < Count
  /\ \A i, j \in DOMAIN entries : i <= j => entries[i].index <= entries[j].index
  /\ \A n \in 0..Count - 1 : \E i \in DOMAIN entries : entries[i].index = n

LineInv ==
  /\ OneIndexEach
  /\ \A c \in Campaigns : Exists(c) => LeftBy(Before(camp[c].index), camp[c].parent)
  /\ LeftBy(Campaigns, policy)

Promoted == {"applying", "applied", "recovered"}
PromotionInv ==
  \A c \in Campaigns :
    /\ camp[c].promo \in Promoted => camp[c].state = "previewed" /\ \A p \in Procs : on[p] # c
    /\ camp[c].promo = "applying" => IsLast(c) /\ \A p \in Procs : pc[p] # "named"
    /\ ~Exists(c) => c \notin bundles

StartPoints == {"started", "allocating", "catching up", "named"}
RecordedPoints == {"evidenced", "recorded", "appending", "evidence repaired", "campaign repaired"}
StartOf(c, k) == ~Exists(c) /\ k.state = "running" /\ k.promo = "none"
CopyOf(c, k) ==
  /\ Exists(c) /\ k.state # "none" /\ k.promo \in {"none", "previewed"}
  /\ k.index = camp[c].index /\ k.parent = camp[c].parent

(* What a command at s knows of its campaign c by its copy k of the file.     *)
Knows(c, k, s) ==
  /\ c # Nobody => IF s \in StartPoints THEN StartOf(c, k) ELSE CopyOf(c, k)
  /\ s \in RecordedPoints => evidence[c][k.rev] = [state |-> k.state, parent |-> k.parent]
  /\ s = "repairing" => k.rev = 0 /\ IsLast(c) /\ k.state = "failed"

CopyInv(p) == Knows(on[p], mem[p], pc[p]) /\ \A e \in todo[p] : Truthful(e)

AllocationInv(p) ==
  /\ pc[p] = "catching up" =>
       \A d \in Campaigns : Exists(d) => EntriesOf(d) # {} \/ \E e \in todo[p] : e.camp = d
  /\ pc[p] = "named" =>
       /\ lock.op = "allocation" /\ lock.camp = on[p] /\ lock.index = mem[p].index
       /\ \A d \in Campaigns : Exists(d) => camp[d].index < mem[p].index
       /\ policy = mem[p].parent

OnOnce == \A p, q \in Procs : on[p] # Nobody /\ on[p] = on[q] => p = q

(* The campaign of an allocation that has written its file is the last; no one *)
(* runs it until there is evidence of it.                                     *)
NamedLock == lock # NoLock /\ lock.op = "allocation" /\ lock.index # None
Unrun(c) ==
  /\ camp[c].state = "running" /\ c \notin bundles
  /\ \A q \in Procs : on[q] = c => pc[q] \in {"written", "repairing"}
AllocatedInv ==
  NamedLock /\ Exists(lock.camp) =>
    /\ IsLast(lock.camp)
    /\ (\A r \in Revisions : evidence[lock.camp][r] = NoEvidence) => Unrun(lock.camp)

CommandsInv ==
  /\ PromotionInv /\ OnOnce /\ AllocatedInv
  /\ \A p \in Procs : CopyInv(p) /\ AllocationInv(p)
LinesInv == LineInv /\ EntriesInv

-----------------------------------------------------------------------------
(* Files that keep what they say of a campaign's place in the series.         *)

EvidenceKept ==
  \A c \in Campaigns, r \in Revisions :
    evidence[c][r] # NoEvidence => evidence'[c][r] = evidence[c][r]
Grows ==
  /\ EvidenceKept
  /\ \A c \in Campaigns :
       Exists(c) => Exists(c)' /\ camp'[c].index = camp[c].index /\ camp'[c].parent = camp[c].parent
SamePlaces ==
  \A c \in Campaigns :
    /\ Exists(c)' <=> Exists(c)
    /\ camp[c].promo \in Promoted \/ camp'[c].promo \in Promoted => camp'[c] = camp[c]

LEMMA TruthKept ==
  ASSUME Grows, NEW e \in Entries, Truthful(e)
  PROVE  Truthful(e)'
<1>1. e.camp \in Campaigns /\ e.rev \in Revisions /\ e.state \in Terminal
  BY DEF Entries
<1>2. [state |-> e.state, parent |-> e.parent] # NoEvidence
  BY <1>1 DEF NoEvidence, Terminal
<1>. QED
  BY <1>1, <1>2 DEF Truthful, Grows, EvidenceKept

LEMMA LastKept ==
  ASSUME Grows, SamePlaces, NEW c \in Campaigns, Exists(c), IsLast(c)
  PROVE  IsLast(c)'
BY DEF Grows, SamePlaces, IsLast, Exists

LEMMA LinesKept ==
  ASSUME TypeInv, LinesInv, Grows, SamePlaces, UNCHANGED <<entries, policy>>
  PROVE  LinesInv'
<1>1. OneIndexEach'
  BY DEF LinesInv, LineInv, OneIndexEach, Grows, SamePlaces, Exists
<1>2. \A c \in Campaigns : Applied(c)' <=> Applied(c)
  BY DEF SamePlaces, Applied, Promoted
<1>3. \A c \in Campaigns : Applied(c) => camp'[c].index = camp[c].index
  BY DEF SamePlaces, Applied, Promoted
<1>4. \A n : Before(n)' = Before(n)
  BY DEF Before, Grows, SamePlaces
<1>5. ASSUME NEW S \in SUBSET Campaigns, NEW v, LeftBy(S, v)
      PROVE  LeftBy(S, v)'
  BY <1>2, <1>3, <1>5 DEF LeftBy
<1>6. ASSUME NEW c \in Campaigns, Exists(c)'
      PROVE  LeftBy(Before(camp[c].index), camp[c].parent)'
  <2>1. Exists(c) /\ camp'[c].index = camp[c].index /\ camp'[c].parent = camp[c].parent
    BY <1>6 DEF Grows, SamePlaces
  <2>2. Before(camp[c].index) \in SUBSET Campaigns /\ LeftBy(Before(camp[c].index), camp[c].parent)
    BY <2>1 DEF LinesInv, LineInv, Before
  <2>. QED
    BY <1>2, <1>3, <1>4, <2>1, <2>2 DEF LeftBy
<1>7. LeftBy(Campaigns, policy)'
  BY <1>2, <1>3 DEF LeftBy, LinesInv, LineInv
<1>8. EntriesInv'
  <2>1. \A i \in DOMAIN entries : entries[i] \in Entries
    BY DEF TypeInv, StoreTyped
  <2>2. \A i \in DOMAIN entries : Truthful(entries[i])'
    BY <2>1, TruthKept DEF LinesInv, EntriesInv
  <2>. QED
    BY <2>2 DEF LinesInv, EntriesInv, Count, Truthful
<1>. QED
  BY <1>1, <1>6, <1>7, <1>8 DEF LinesInv, LineInv

-----------------------------------------------------------------------------
(* What a command's step leaves alone.                                       *)

(* A command may rewrite the file of its campaign, add its evidence and its    *)
(* bundle.                                                                   *)
Rewrites(p) ==
  \E k \in CampaignFiles : on[p] \in Campaigns /\ WriteCampaignFile(on[p], k) /\ CopyOf(on[p], k)
FilesKept(p) ==
  /\ camp' = camp \/ (Rewrites(p) /\ pc[p] \notin {"written", "repairing"})
  /\ \/ bundles' = bundles
     \/ /\ bundles' = bundles \cup {on[p]} /\ CopyOf(on[p], mem[p])
        /\ pc[p] \notin {"written", "repairing"}
  /\ EvidenceKept /\ UNCHANGED policy

LEMMA FilesSame ==
  ASSUME TypeInv, CommandsInv, NEW p \in Procs, FilesKept(p)
  PROVE  Grows /\ SamePlaces
<1>1. camp \in [Campaigns -> CampaignFiles]
  BY DEF TypeInv, StoreTyped
<1>2. CASE camp' = camp
  BY <1>2 DEF Grows, SamePlaces, FilesKept, Exists
<1>3. CASE Rewrites(p)
  <2>1. PICK k \in CampaignFiles : on[p] \in Campaigns /\ WriteCampaignFile(on[p], k) /\ CopyOf(on[p], k)
    BY <1>3 DEF Rewrites
  <2>2. camp'[on[p]] = k /\ \A c \in Campaigns : c # on[p] => camp'[c] = camp[c]
    BY <1>1, <2>1 DEF WriteCampaignFile
  <2>3. camp[on[p]].promo \notin Promoted
    BY <2>1 DEF CommandsInv, PromotionInv
  <2>4. k.promo \notin Promoted /\ k.state # "none" /\ Exists(on[p])
        /\ k.index = camp[on[p]].index /\ k.parent = camp[on[p]].parent
    BY <2>1 DEF CopyOf, Promoted
  <2>. QED
    BY <2>2, <2>3, <2>4 DEF Grows, SamePlaces, FilesKept, Exists
<1>. QED
  BY <1>2, <1>3 DEF FilesKept

(* The lock that a step leaves is gone, or new without a campaign's index, or   *)
(* says what it said.                                                        *)
LockKeeps ==
  \/ ~NamedLock' \/ ~Exists(lock.camp)'
  \/ lock' = lock
  \/ lock # NoLock /\ lock'.op = lock.op /\ lock'.camp = lock.camp /\ lock'.index = lock.index

OthersTodo(p) == \A q \in Procs : q # p => todo'[q] = todo[q]
MoreEntries == \A d \in Campaigns : EntriesOf(d) # {} => EntriesOf(d)' # {}

LEMMA KnowsStill ==
  ASSUME Grows, SamePlaces, NEW c \in Campaigns \cup {Nobody}, NEW k \in CampaignFiles,
         NEW s \in Points, Knows(c, k, s),
         s \in CampaignPoints => c \in Campaigns /\ (s \in EndPoints => k.state \in Terminal)
  PROVE  Knows(c, k, s)'
<1>1. c # Nobody => c \in Campaigns
  OBVIOUS
<1>2. StartOf(c, k) /\ c \in Campaigns => StartOf(c, k)'
  BY DEF StartOf, SamePlaces
<1>3. CopyOf(c, k) /\ c \in Campaigns => CopyOf(c, k)'
  BY DEF CopyOf, Grows
<1>4. c # Nobody => IF s \in StartPoints THEN StartOf(c, k)' ELSE CopyOf(c, k)'
  BY <1>1, <1>2, <1>3 DEF Knows
<1>5. ASSUME s \in RecordedPoints
      PROVE  evidence'[c][k.rev] = [state |-> k.state, parent |-> k.parent]
  <2>1. c \in Campaigns /\ k.state \in Terminal /\ k.rev \in Revisions
    BY <1>5, FileFields DEF RecordedPoints, CampaignPoints, EndPoints
  <2>2. evidence[c][k.rev] = [state |-> k.state, parent |-> k.parent]
    BY <1>5 DEF Knows
  <2>3. evidence[c][k.rev] # NoEvidence
    BY <2>1, <2>2 DEF NoEvidence, Terminal
  <2>. QED
    BY <2>1, <2>2, <2>3 DEF Grows, EvidenceKept
<1>6. ASSUME s = "repairing"
      PROVE  k.rev = 0 /\ IsLast(c)' /\ k.state = "failed"
  <2>1. c \in Campaigns /\ k.rev = 0 /\ IsLast(c) /\ k.state = "failed" /\ CopyOf(c, k)
    BY <1>6, SeriesAssumption DEF Knows, CampaignPoints, EndPoints, StartPoints
  <2>. QED
    BY <2>1, LastKept DEF CopyOf
<1>. QED
  BY <1>4, <1>5, <1>6 DEF Knows

(* Whom the step leaves running a campaign, and since when.                   *)
OnWhich(p) ==
  \/ on'[p] \in {on[p], Nobody}
  \/ on'[p] \in Campaigns /\ camp[on'[p]].promo \notin Promoted /\ \A q \in Procs : on[q] # on'[p]
RunsWhich(p) ==
  \/ ~NamedLock' \/ on'[p] = Nobody \/ pc'[p] \in {"written", "repairing"}
  \/ on'[p] = on[p] /\ pc[p] \notin {"written", "repairing"}
  \/ camp[on'[p]].state # "running" \/ on'[p] \in bundles
  \/ \E r \in Revisions : evidence'[on'[p]][r] # NoEvidence

LEMMA AllocatedStill ==
  ASSUME TypeInv, CommandsInv, NEW p \in Procs, Grows, SamePlaces, Untouched(p), FilesKept(p),
         LockTyped', LockKeeps, OnWhich(p), RunsWhich(p)
  PROVE  AllocatedInv'
<1> SUFFICES ASSUME NamedLock', NEW c, c = lock'.camp, Exists(lock.camp)'
             PROVE  /\ IsLast(c)'
                    /\ (\A r \in Revisions : evidence'[c][r] = NoEvidence) => Unrun(c)'
  BY DEF AllocatedInv
<1>0. Exists(c)'
  BY DEF Exists
<1>1. NamedLock /\ lock.camp = c /\ c \in Campaigns
  BY DEF LockKeeps, NamedLock, LockTyped
<1>2. Exists(c) /\ IsLast(c)
  BY <1>0, <1>1 DEF SamePlaces, CommandsInv, AllocatedInv
<1>3. IsLast(c)'
  BY <1>1, <1>2, LastKept
<1>4. ASSUME \A r \in Revisions : evidence'[c][r] = NoEvidence
      PROVE  Unrun(c)'
  <2>1. \A r \in Revisions : evidence[c][r] = NoEvidence
    BY <1>1, <1>4 DEF Grows, EvidenceKept
  <2>2. Unrun(c)
    BY <1>1, <1>2, <2>1 DEF CommandsInv, AllocatedInv
  <2>3. on[p] = c => pc[p] \in {"written", "repairing"}
    BY <2>2 DEF Unrun
  <2>4. camp'[c] = camp[c]
    BY <1>1, <2>3 DEF FilesKept, Rewrites, WriteCampaignFile, TypeInv, StoreTyped
  <2>5. c \notin bundles'
    BY <2>2, <2>3 DEF FilesKept, Unrun
  <2>6. c # Nobody
    BY <1>1, SeriesAssumption
  <2>7. on'[p] = c => pc'[p] \in {"written", "repairing"}
    BY <1>4, <2>2, <2>3, <2>6 DEF RunsWhich, Unrun
  <2>. QED
    BY <2>2, <2>4, <2>5, <2>7 DEF Unrun, Untouched
<1>. QED
  BY <1>3, <1>4

LEMMA CommandsMoved ==
  ASSUME TypeInv, LockTyped', CommandsInv, NEW p \in Procs,
         Untouched(p), OthersTodo(p), MoreEntries, FilesKept(p), LockKeeps,
         \A q \in Procs : q # p /\ pc[q] = "named" => lock' = lock,
         OnWhich(p), RunsWhich(p),
         pc'[p] = "named" => \A c \in Campaigns : camp[c].promo # "applying",
         CopyInv(p)', AllocationInv(p)'
  PROVE  CommandsInv'
<1>1. Grows /\ SamePlaces
  BY FilesSame
<1>2. AllocatedInv'
  BY <1>1, AllocatedStill
<1>3. OnOnce'
  <2>1. OnOnce
    BY DEF CommandsInv
  <2>2. \A q \in Procs : q # p => on'[q] = on[q]
    BY DEF Untouched
  <2>. QED
    BY <2>1, <2>2 DEF OnOnce, OnWhich
<1>4. PromotionInv'
  <2> SUFFICES ASSUME NEW c \in Campaigns
               PROVE  /\ (camp[c].promo \in Promoted =>
                           camp[c].state = "previewed" /\ \A q \in Procs : on[q] # c)'
                      /\ (camp[c].promo = "applying" => IsLast(c) /\ \A q \in Procs : pc[q] # "named")'
                      /\ (~Exists(c) => c \notin bundles)'
    BY DEF PromotionInv
  <2>1. /\ camp[c].promo \in Promoted => camp[c].state = "previewed" /\ \A q \in Procs : on[q] # c
        /\ camp[c].promo = "applying" => IsLast(c) /\ \A q \in Procs : pc[q] # "named"
        /\ ~Exists(c) => c \notin bundles
    BY DEF CommandsInv, PromotionInv
  <2>2. c # Nobody
    BY SeriesAssumption
  <2>3. camp'[c].promo \in Promoted => camp'[c] = camp[c]
    BY <1>1 DEF SamePlaces
  <2>4. ASSUME camp'[c].promo \in Promoted
        PROVE  camp'[c].state = "previewed" /\ \A q \in Procs : on'[q] # c
    <3>1. on'[p] # c
      BY <2>1, <2>2, <2>3, <2>4 DEF OnWhich
    <3>. QED
      BY <2>1, <2>3, <2>4, <3>1 DEF Untouched
  <2>5. ASSUME camp'[c].promo = "applying"
        PROVE  IsLast(c)' /\ \A q \in Procs : pc'[q] # "named"
    <3>1. camp[c] = camp'[c]
      BY <2>3, <2>5 DEF Promoted
    <3>2. Exists(c)
      BY <2>1, <2>5, <3>1 DEF Exists, Promoted
    <3>3. IsLast(c)'
      BY <1>1, <2>1, <2>5, <3>1, <3>2, LastKept
    <3>4. pc'[p] # "named"
      BY <2>5, <3>1
    <3>. QED
      BY <2>1, <2>5, <3>1, <3>3, <3>4 DEF Untouched
  <2>6. ~Exists(c)' => c \notin bundles'
    BY <1>1, <2>1 DEF SamePlaces, FilesKept, CopyOf
  <2>. QED
    BY <2>4, <2>5, <2>6
<1>5. ASSUME NEW q \in Procs, q # p
      PROVE  CopyInv(q)' /\ AllocationInv(q)'
  <2>1. pc'[q] = pc[q] /\ on'[q] = on[q] /\ mem'[q] = mem[q] /\ todo'[q] = todo[q]
    BY <1>5 DEF Untouched, OthersTodo
  <2>2. CopyInv(q) /\ AllocationInv(q)
    BY DEF CommandsInv
  <2>3. /\ on[q] \in Campaigns \cup {Nobody} /\ mem[q] \in CampaignFiles /\ pc[q] \in Points
        /\ todo[q] \in SUBSET Entries /\ CommandAt(q)
    BY DEF TypeInv, CommandTyped
  <2>4. pc[q] \in EndPoints => pc[q] \in CampaignPoints
    BY DEF CampaignPoints
  <2>5. Knows(on[q], mem[q], pc[q])'
    BY <1>1, <2>1, <2>2, <2>3, <2>4, KnowsStill DEF CopyInv, CommandAt
  <2>6. \A e \in todo'[q] : Truthful(e)'
    BY <1>1, <2>1, <2>2, <2>3, TruthKept DEF CopyInv
  <2>7. ASSUME pc[q] = "catching up", NEW d \in Campaigns, Exists(d)'
        PROVE  EntriesOf(d)' # {} \/ \E e \in todo'[q] : e.camp = d
    <3>1. Exists(d)
      BY <1>1, <2>7 DEF SamePlaces
    <3>. QED
      BY <2>1, <2>2, <2>7, <3>1 DEF AllocationInv, MoreEntries
  <2>8. ASSUME pc[q] = "named"
        PROVE  /\ lock'.op = "allocation" /\ lock'.camp = on[q] /\ lock'.index = mem[q].index
               /\ \A d \in Campaigns : Exists(d)' => camp'[d].index < mem[q].index
               /\ policy' = mem[q].parent
    <3>1. lock' = lock /\ policy' = policy
      BY <1>5, <2>8 DEF FilesKept
    <3>2. \A d \in Campaigns : Exists(d)' => Exists(d) /\ camp'[d].index = camp[d].index
      BY <1>1 DEF Grows, SamePlaces
    <3>. QED
      BY <2>2, <2>8, <3>1, <3>2 DEF AllocationInv
  <2>. QED
    BY <2>1, <2>5, <2>6, <2>7, <2>8 DEF CopyInv, AllocationInv
<1>. QED
  BY <1>2, <1>3, <1>4, <1>5 DEF CommandsInv

-----------------------------------------------------------------------------
(* The three ways to move a command, with what it has to know where it goes.   *)

OtherPoints == Points \ {"catching up", "named"}
SeriesInv == TypeInv /\ LockInv /\ CommandsInv /\ LinesInv
Unnamed(p) == \A q \in Procs : q # p /\ pc[q] = "named" => lock' = lock
Quiet(p) ==
  /\ FilesKept(p) /\ UNCHANGED entries /\ LockKeeps /\ OnWhich(p) /\ RunsWhich(p) /\ Unnamed(p)

LEMMA OtherLock ==
  ASSUME LockInv, NEW p \in Procs, Uses(p)
  PROVE  Unnamed(p)
<1> SUFFICES ASSUME NEW q \in Procs, q # p, pc[q] = "named" PROVE lock' = lock
  BY DEF Unnamed
<1>1. lock # NoLock /\ lock.owner = q /\ q # Dead
  BY SeriesAssumption DEF LockInv, LockedPoints
<1>2. pc[p] \notin LockedPoints
  BY <1>1 DEF LockInv
<1>3. pc[p] \notin RepairPoints
  BY <1>1 DEF LockInv, Stale
<1>. QED
  BY <1>1, <1>2, <1>3 DEF Uses, LockUse

LEMMA MovedQuietly ==
  ASSUME SeriesInv, TypeInv', NEW p \in Procs, NEW s \in OtherPoints,
         Untouched(p), OthersTodo(p), pc'[p] = s, todo'[p] \in {todo[p], {}},
         Knows(on[p], mem[p], s)', Quiet(p)
  PROVE  CommandsInv' /\ LinesInv'
<1>1. Grows /\ SamePlaces
  BY FilesSame DEF Quiet, SeriesInv
<1>2. LinesInv'
  BY <1>1, LinesKept DEF Quiet, FilesKept, SeriesInv
<1>3. CopyInv(p)'
  <2>1. \A e \in todo[p] : Truthful(e)
    BY DEF SeriesInv, CommandsInv, CopyInv
  <2>2. todo[p] \in SUBSET Entries
    BY DEF SeriesInv, TypeInv, CommandTyped
  <2>3. \A e \in todo'[p] : Truthful(e)'
    BY <1>1, <2>1, <2>2, TruthKept
  <2>. QED
    BY <2>3 DEF CopyInv
<1>4. AllocationInv(p)'
  BY DEF AllocationInv, OtherPoints
<1>5. MoreEntries
  BY DEF MoreEntries, EntriesOf, Quiet
<1>6. LockTyped' /\ TypeInv /\ CommandsInv
  BY DEF TypeInv, SeriesInv
<1>. QED
  BY <1>2, <1>3, <1>4, <1>5, <1>6, CommandsMoved DEF Quiet, OtherPoints, Unnamed

LEMMA EnterQuietly ==
  ASSUME SeriesInv, TypeInv', NEW p \in Procs, NEW s \in OtherPoints,
         NEW c \in Campaigns \cup {Nobody}, NEW k \in CampaignFiles, NEW t \in BOOLEAN,
         Enter(p, c, k, t, s), Knows(c, k, s), Quiet(p)
  PROVE  CommandsInv' /\ LinesInv'
<1>1. CommandTyped /\ s \in Points
  BY DEF SeriesInv, TypeInv, OtherPoints
<1>2. Untouched(p) /\ pc'[p] = s /\ on'[p] = c /\ mem'[p] = k
  BY <1>1, EnterEffect
<1>3. todo' = todo
  BY DEF Enter
<1>4. s \in CampaignPoints => c \in Campaigns /\ (s \in EndPoints => k.state \in Terminal)
  BY <1>2 DEF TypeInv, CommandAt
<1>5. Grows /\ SamePlaces
  BY FilesSame DEF SeriesInv, Quiet
<1>6. Knows(c, k, s)'
  BY <1>1, <1>4, <1>5, KnowsStill
<1>7. Knows(on[p], mem[p], s)'
  BY <1>2, <1>6 DEF Knows
<1>. QED
  BY <1>2, <1>3, <1>7, MovedQuietly DEF OthersTodo

LEMMA ContinueQuietly ==
  ASSUME SeriesInv, TypeInv', NEW p \in Procs, NEW s \in OtherPoints,
         NEW k \in CampaignFiles, Continue(p, k, s), Knows(on[p], k, s), Quiet(p)
  PROVE  CommandsInv' /\ LinesInv'
<1>1. on[p] \in Campaigns \cup {Nobody} /\ try[p] \in BOOLEAN
  BY Zenon DEF SeriesInv, TypeInv, CommandTyped
<1>2. Enter(p, on[p], k, try[p], s)
  BY DEF Continue
<1>. QED
  BY <1>1, <1>2, EnterQuietly

LEMMA GotoQuietly ==
  ASSUME SeriesInv, TypeInv', NEW p \in Procs, NEW s \in OtherPoints \ {"repairing"},
         Goto(p, s), s \in StartPoints <=> pc[p] \in StartPoints,
         s \in RecordedPoints => pc[p] \in RecordedPoints, Quiet(p)
  PROVE  CommandsInv' /\ LinesInv'
<1>1. CommandTyped /\ s \in OtherPoints /\ s \in Points /\ s # "repairing"
  BY DEF SeriesInv, TypeInv, OtherPoints
<1>4. Knows(on[p], mem[p], pc[p])
  BY DEF SeriesInv, CommandsInv, CopyInv
<1>5. Knows(on[p], mem[p], s)
  BY <1>1, <1>4 DEF Knows
<1>6. on[p] \in Campaigns \cup {Nobody} /\ mem[p] \in CampaignFiles /\ try[p] \in BOOLEAN
  BY <1>1 DEF CommandTyped
<1>7. Enter(p, on[p], mem[p], try[p], s)
  BY <1>1, <1>6 DEF Goto, Enter, CommandTyped
<1>. QED
  BY <1>1, <1>5, <1>6, <1>7, EnterQuietly

LEMMA LeaveQuietly ==
  ASSUME SeriesInv, TypeInv', NEW p \in Procs, Leave(p),
         FilesKept(p), UNCHANGED entries, LockKeeps, Unnamed(p)
  PROVE  CommandsInv' /\ LinesInv'
<1>1. CommandTyped
  BY DEF SeriesInv, TypeInv
<1>2. Untouched(p) /\ pc'[p] = "idle"
  BY <1>1, LeaveEffect
<1>3. on'[p] = Nobody /\ todo'[p] = {} /\ OthersTodo(p)
  BY <1>1 DEF Leave, CommandTyped, OthersTodo
<1>4. Knows(on[p], mem[p], "idle")'
  BY <1>3 DEF Knows, RecordedPoints
<1>5. Quiet(p)
  BY <1>3 DEF Quiet, OnWhich, RunsWhich
<1>6. "idle" \in OtherPoints
  BY DEF OtherPoints, Points, FreePoints
<1>. QED
  BY <1>2, <1>3, <1>4, <1>5, <1>6, MovedQuietly

(* A copy that a run has changed is still one.                                *)
LEMMA CopyChanged ==
  ASSUME NEW c \in Campaigns, NEW k \in CampaignFiles, CopyOf(c, k)
  PROVE  /\ \A s \in States \ {"none"} : CopyOf(c, [k EXCEPT !.state = s])
         /\ \A b \in BOOLEAN : CopyOf(c, [k EXCEPT !.pending = b])
         /\ \A r \in Revisions : CopyOf(c, [k EXCEPT !.bound = r])
         /\ CopyOf(c, [k EXCEPT !.state = "previewed", !.promo = "previewed", !.pending = FALSE])
BY DEF CopyOf, CampaignFiles

LEMMA CopyHeld ==
  ASSUME SeriesInv, NEW p \in Procs, pc[p] \in CampaignPoints \ StartPoints
  PROVE  on[p] \in Campaigns /\ mem[p] \in CampaignFiles /\ CopyOf(on[p], mem[p])
<1>1. on[p] \in Campaigns /\ mem[p] \in CampaignFiles
  BY DEF SeriesInv, TypeInv, CommandTyped, CommandAt
<1>2. on[p] # Nobody
  BY <1>1, SeriesAssumption
<1>. QED
  BY <1>1, <1>2 DEF SeriesInv, CommandsInv, CopyInv, Knows

LEMMA RaiseQuietly ==
  ASSUME SeriesInv, TypeInv', NEW p \in Procs, Raise(p), pc[p] \in RunPoints \cup {"appending", "done"},
         FilesKept(p), UNCHANGED entries, LockKeeps, Unnamed(p)
  PROVE  CommandsInv' /\ LinesInv'
<1>1. CASE ~try[p]
  BY <1>1, LeaveQuietly DEF Raise
<1>2. CASE try[p]
  <2> DEFINE k == [mem[p] EXCEPT !.state = "failed"]
  <2>1. Continue(p, k, "excepting")
    BY <1>2 DEF Raise
  <2>2. pc[p] \notin StartPoints /\ pc[p] \notin {"written", "repairing"}
    BY DEF RunPoints, StartPoints
  <2>3. on[p] \in Campaigns /\ mem[p] \in CampaignFiles /\ CopyOf(on[p], mem[p])
    <3>1. on[p] \in Campaigns /\ mem[p] \in CampaignFiles
      BY <1>2 DEF SeriesInv, TypeInv, CommandTyped, CommandAt
    <3>2. on[p] # Nobody
      BY <3>1, SeriesAssumption
    <3>. QED
      BY <2>2, <3>1, <3>2 DEF SeriesInv, CommandsInv, CopyInv, Knows
  <2>4. "failed" \in States \ {"none"}
    BY DEF States, Terminal
  <2>5. k \in CampaignFiles /\ CopyOf(on[p], k)
    BY <2>3, <2>4, CopyChanged, FileUpdates
  <2>6. Knows(on[p], k, "excepting")
    BY <2>5 DEF Knows, StartPoints, RecordedPoints
  <2>7. on'[p] = on[p]
    <3>1. CommandTyped /\ "excepting" \in Points
      BY DEF SeriesInv, TypeInv, Points, RunPoints
    <3>. QED
      BY <2>1, <2>5, <3>1, ContinueEffect
  <2>8. Quiet(p)
    BY <2>2, <2>7 DEF Quiet, OnWhich, RunsWhich
  <2>. QED
    BY <2>1, <2>5, <2>6, <2>8, ContinueQuietly DEF OtherPoints, Points, RunPoints
<1>. QED
  BY <1>1, <1>2

-----------------------------------------------------------------------------
(* The steps that leave every campaign where it is.                          *)

LEMMA StoreQuiet ==
  ASSUME NEW p \in Procs, UNCHANGED <<camp, evidence, bundles, policy>>
  PROVE  FilesKept(p)
BY DEF FilesKept, EvidenceKept

LEMMA UnlinkKeeps == Unlink => LockKeeps /\ ~NamedLock'
BY DEF Unlink, LockKeeps, NamedLock

LEMMA TakeKeeps ==
  ASSUME NEW p \in Procs, NEW op, NEW i, TakeLock(p, op, i), op # "allocation" \/ i = None
  PROVE  LockKeeps /\ ~NamedLock'
BY DEF TakeLock, LockKeeps, NamedLock

LEMMA GotoSame ==
  ASSUME SeriesInv, TypeInv', NEW p \in Procs, NEW s \in OtherPoints \ {"repairing"},
         Goto(p, s), s \in StartPoints <=> pc[p] \in StartPoints,
         s \in RecordedPoints => pc[p] \in RecordedPoints,
         pc[p] \notin {"written", "repairing"} \/ ~NamedLock',
         FilesKept(p), UNCHANGED entries, LockKeeps, Unnamed(p)
  PROVE  CommandsInv' /\ LinesInv'
BY GotoQuietly DEF Goto, Quiet, OnWhich, RunsWhich

LEMMA EnterSame ==
  ASSUME SeriesInv, TypeInv', NEW p \in Procs, NEW s \in RunPoints \ RecordedPoints,
         NEW k \in CampaignFiles, NEW t \in BOOLEAN, Enter(p, on[p], k, t, s),
         on[p] \in Campaigns, CopyOf(on[p], k), pc[p] \notin {"written", "repairing"},
         FilesKept(p), UNCHANGED entries, LockKeeps, Unnamed(p)
  PROVE  CommandsInv' /\ LinesInv'
<1>1. on'[p] = on[p]
  BY DEF Enter, SeriesInv, TypeInv, CommandTyped
<1>2. Knows(on[p], k, s)
  BY DEF Knows, RunPoints, StartPoints
<1>3. Quiet(p)
  BY <1>1 DEF Quiet, OnWhich, RunsWhich
<1>4. s \in OtherPoints
  BY DEF OtherPoints, Points, RunPoints
<1>. QED
  BY <1>2, <1>3, <1>4, EnterQuietly

LEMMA LockedQuiet ==
  ASSUME "contend" \notin Liberties, SeriesInv, TypeInv', NEW p \in Procs, LockedStep(p),
         ~Attach(p), ~Scan(p), ~NameLock(p), ~WriteAllocation(p)
  PROVE  CommandsInv' /\ LinesInv'
<1> USE DEF OtherPoints, Points, LockedPoints, RepairPoints, RunPoints, FreePoints, StartPoints,
        RecordedPoints
<1>1. Unnamed(p)
  BY UsesLock, OtherLock DEF SeriesInv, Step
<1>2. CASE MakeDirectory(p)
  <2>1. FilesKept(p) /\ UNCHANGED entries /\ LockKeeps /\ Goto(p, "directory") /\ pc[p] = "initialize"
    BY <1>2, StoreQuiet DEF MakeDirectory, LockKeeps, At
  <2>. QED
    BY <1>1, <2>1, GotoSame
<1>3. CASE WriteSeries(p) \/ StopSeries(p)
  <2>1. FilesKept(p) /\ UNCHANGED entries /\ LockKeeps /\ Goto(p, "done") /\ pc[p] \in {"directory", "stop"}
    BY <1>3, StoreQuiet DEF WriteSeries, StopSeries, LockKeeps, At
  <2>. QED
    BY <1>1, <2>1, GotoSame
<1>4. CASE Release(p) \/ Refuse(p) \/ FinishReconcile(p) \/ GiveUpLock(p)
  <2>1. FilesKept(p) /\ UNCHANGED entries /\ LockKeeps /\ Leave(p)
    BY <1>4, StoreQuiet, UnlinkKeeps DEF Release, Refuse, FinishReconcile, GiveUpLock, LockKeeps, store
  <2>. QED
    BY <1>1, <2>1, LeaveQuietly
<1>5. CASE LockReconcile(p)
  <2>1. FilesKept(p) /\ UNCHANGED entries /\ LockKeeps /\ Goto(p, "scanning") /\ pc[p] = "unlocked"
    BY <1>5, StoreQuiet, TakeKeeps DEF LockReconcile, At, store
  <2>. QED
    BY <1>1, <2>1, GotoSame
<1>6. CASE LockAllocation(p)
  <2>1. FilesKept(p) /\ UNCHANGED entries /\ LockKeeps /\ Goto(p, "allocating") /\ pc[p] = "started"
    BY <1>6, StoreQuiet, TakeKeeps DEF LockAllocation, At, store
  <2>. QED
    BY <1>1, <2>1, GotoSame
<1>7. CASE FinishAllocation(p)
  <2>1. FilesKept(p) /\ UNCHANGED entries /\ LockKeeps /\ ~NamedLock' /\ Goto(p, "running") /\ pc[p] = "written"
    BY <1>7, StoreQuiet, UnlinkKeeps DEF FinishAllocation, At, store
  <2>. QED
    BY <1>1, <2>1, GotoSame
<1>. QED
  BY <1>2, <1>3, <1>4, <1>5, <1>6, <1>7 DEF LockedStep

(* A run's file is rewritten with a copy of it.                               *)
LEMMA RewriteKeeps ==
  ASSUME SeriesInv, NEW p \in Procs, pc[p] \in RunPoints, NEW k \in CampaignFiles,
         on[p] \in Campaigns, CopyOf(on[p], k), WriteCampaignFile(on[p], k),
         UNCHANGED <<series, entries, lock, evidence, bundles, policy, crashes>>
  PROVE  FilesKept(p) /\ LockKeeps
BY DEF FilesKept, EvidenceKept, LockKeeps, Rewrites, RunPoints

LEMMA RunQuiet ==
  ASSUME "contend" \notin Liberties, SeriesInv, TypeInv', NEW p \in Procs, RunStep(p),
         ~PersistEvidence(p), ~AppendTerminal(p)
  PROVE  CommandsInv' /\ LinesInv'
<1>1. Unnamed(p)
  <2>1. ~Attach(p)
    BY DEF Attach, RunStep, EnterLoop, Fail, Exhaust, RecordReport, InstallBundle, Preview,
       EvidenceDiffers, RecordTerminal, LockAppend, AppendBusy, AppendRefused, RewriteFailed, At
  <2>. QED
    BY <2>1, UsesLock, OtherLock DEF SeriesInv, Step
<1>2. ASSUME pc[p] \in RunPoints
      PROVE  /\ on[p] \in Campaigns /\ mem[p] \in CampaignFiles /\ CopyOf(on[p], mem[p])
             /\ pc[p] \notin {"written", "repairing"} /\ try[p] \in BOOLEAN
  <2>1. pc[p] \in CampaignPoints \ StartPoints /\ pc[p] \notin {"written", "repairing"}
    BY <1>2 DEF CampaignPoints, RunPoints, StartPoints
  <2>. QED
    BY <2>1, CopyHeld DEF SeriesInv, TypeInv, CommandTyped
<1>3. {"running", "failed", "exhausted"} \subseteq States \ {"none"}
  BY DEF States, Terminal
<1>4. {"running", "looping", "reported", "bundled", "ended", "excepting"} \subseteq RunPoints \ RecordedPoints
  BY DEF RunPoints, RecordedPoints
<1>5. {"running", "looping", "reported", "bundled", "ended", "evidenced", "recorded", "excepting"} = RunPoints
  BY DEF RunPoints
<1>6. \A s \in RunPoints : s \in OtherPoints \ {"repairing"} /\ s \notin StartPoints
  BY DEF RunPoints, OtherPoints, Points, StartPoints
<1>7. CASE EnterLoop(p)
  <2>1. PICK k : k = [mem[p] EXCEPT !.state = "running"]
    OBVIOUS
  <2>2. /\ pc[p] \in RunPoints /\ WriteCampaignFile(on[p], k) /\ Enter(p, on[p], k, TRUE, "looping")
        /\ UNCHANGED <<series, entries, lock, evidence, bundles, policy, crashes>>
    BY <1>5, <1>7, <2>1 DEF EnterLoop, At
  <2>3. on[p] \in Campaigns /\ k \in CampaignFiles /\ CopyOf(on[p], k)
    BY <1>2, <1>3, <2>1, <2>2, CopyChanged, FileUpdates
  <2>. QED
    BY <1>1, <1>2, <1>4, <2>2, <2>3, RewriteKeeps, EnterSame
<1>8. CASE Fail(p)
  <2>1. PICK k : k = [mem[p] EXCEPT !.state = "failed"]
    OBVIOUS
  <2>2. pc[p] \in RunPoints /\ Enter(p, on[p], k, FALSE, "ended") /\ UNCHANGED <<store, lock>>
    BY <1>5, <1>8, <2>1 DEF Fail
  <2>3. on[p] \in Campaigns /\ k \in CampaignFiles /\ CopyOf(on[p], k)
    BY <1>2, <1>3, <2>1, <2>2, CopyChanged, FileUpdates
  <2>4. FilesKept(p) /\ LockKeeps /\ UNCHANGED entries
    BY <2>2, StoreQuiet DEF store, LockKeeps
  <2>. QED
    BY <1>1, <1>2, <1>4, <2>2, <2>3, <2>4, EnterSame
<1>9. CASE Exhaust(p)
  <2>0. PICK k : k = [mem[p] EXCEPT !.state = "exhausted"]
    OBVIOUS
  <2>1. PICK t \in BOOLEAN : k = [mem[p] EXCEPT !.state = "exhausted"] /\ Enter(p, on[p], k, t, "ended")
    BY <1>9, <2>0 DEF Exhaust
  <2>2. pc[p] \in RunPoints /\ UNCHANGED <<store, lock>>
    BY <1>5, <1>9 DEF Exhaust, At
  <2>3. on[p] \in Campaigns /\ k \in CampaignFiles /\ CopyOf(on[p], k)
    BY <1>2, <1>3, <2>1, <2>2, CopyChanged, FileUpdates
  <2>4. FilesKept(p) /\ LockKeeps /\ UNCHANGED entries
    BY <2>2, StoreQuiet DEF store, LockKeeps
  <2>. QED
    BY <1>1, <1>2, <1>4, <2>1, <2>2, <2>3, <2>4, EnterSame
<1>10. CASE RecordReport(p)
  <2>1. PICK k : k = [mem[p] EXCEPT !.pending = TRUE]
    OBVIOUS
  <2>2. /\ pc[p] \in RunPoints /\ WriteCampaignFile(on[p], k) /\ Enter(p, on[p], k, try[p], "reported")
        /\ UNCHANGED <<series, entries, lock, evidence, bundles, policy, crashes>>
    BY <1>5, <1>10, <2>1 DEF RecordReport, At, Continue
  <2>3. on[p] \in Campaigns /\ k \in CampaignFiles /\ CopyOf(on[p], k)
    BY <1>2, <2>1, <2>2, CopyChanged, FileUpdates
  <2>. QED
    BY <1>1, <1>2, <1>4, <2>2, <2>3, RewriteKeeps, EnterSame
<1>11. CASE InstallBundle(p)
  <2>1. /\ pc[p] = "reported" /\ bundles' = bundles \cup {on[p]} /\ Goto(p, "bundled")
        /\ UNCHANGED <<entries, lock, camp, evidence, policy>>
    BY <1>11 DEF InstallBundle, At
  <2>2. FilesKept(p) /\ LockKeeps
    BY <1>2, <1>5, <2>1 DEF FilesKept, EvidenceKept, LockKeeps
  <2>. QED
    BY <1>1, <1>4, <1>5, <1>6, <2>1, <2>2, GotoSame
<1>12. CASE Preview(p)
  <2>1. PICK k : k = [mem[p] EXCEPT !.state = "previewed", !.promo = "previewed", !.pending = FALSE]
    OBVIOUS
  <2>2. pc[p] \in RunPoints /\ Enter(p, on[p], k, try[p], "ended") /\ UNCHANGED <<store, lock>>
    BY <1>5, <1>12, <2>1 DEF Preview, At, Continue
  <2>3. k \in CampaignFiles
    BY <1>2, <2>1, <2>2 DEF CampaignFiles, Terminal
  <2>4. on[p] \in Campaigns /\ CopyOf(on[p], k)
    BY <1>2, <2>1, <2>2, CopyChanged
  <2>5. FilesKept(p) /\ LockKeeps /\ UNCHANGED entries
    BY <2>2, StoreQuiet DEF store, LockKeeps
  <2>. QED
    BY <1>1, <1>2, <1>4, <2>2, <2>3, <2>4, <2>5, EnterSame
<1>13. CASE EvidenceDiffers(p) \/ AppendBusy(p) \/ AppendRefused(p)
  <2>1. /\ pc[p] \in RunPoints \cup {"appending"} /\ Raise(p) /\ UNCHANGED store
        /\ UNCHANGED lock \/ Unlink
    BY <1>5, <1>13 DEF EvidenceDiffers, AppendBusy, AppendRefused, At
  <2>2. FilesKept(p) /\ LockKeeps /\ UNCHANGED entries
    BY <2>1, StoreQuiet, UnlinkKeeps DEF store, LockKeeps
  <2>. QED
    BY <1>1, <2>1, <2>2, RaiseQuietly
<1>14. CASE RecordTerminal(p)
  <2>1. /\ pc[p] = "evidenced" /\ WriteCampaignFile(on[p], mem[p]) /\ Goto(p, "recorded")
        /\ UNCHANGED <<series, entries, lock, evidence, bundles, policy, crashes>>
    BY <1>14 DEF RecordTerminal, At
  <2>2. FilesKept(p) /\ LockKeeps
    BY <1>2, <1>5, <2>1, RewriteKeeps
  <2>3. pc[p] \in RecordedPoints
    BY <2>1 DEF RecordedPoints
  <2>. QED
    BY <1>1, <1>5, <1>6, <2>1, <2>2, <2>3, GotoSame
<1>15. CASE LockAppend(p)
  <2>1. /\ pc[p] = "recorded" /\ TakeLock(p, "append", mem[p].index) /\ Goto(p, "appending")
        /\ UNCHANGED store
    BY <1>15 DEF LockAppend, At
  <2>2. FilesKept(p) /\ LockKeeps /\ UNCHANGED entries
    BY <2>1, StoreQuiet, TakeKeeps DEF store
  <2>3. /\ pc[p] \in RecordedPoints \ StartPoints
        /\ "appending" \in (OtherPoints \ {"repairing"}) \ StartPoints
    BY <2>1 DEF RecordedPoints, OtherPoints, Points, LockedPoints, StartPoints
  <2>. QED
    BY <1>1, <2>1, <2>2, <2>3, GotoSame
<1>16. CASE RewriteFailed(p)
  <2>1. /\ pc[p] \in RunPoints /\ WriteCampaignFile(on[p], mem[p]) /\ Leave(p)
        /\ UNCHANGED <<series, entries, lock, evidence, bundles, policy, crashes>>
    BY <1>5, <1>16 DEF RewriteFailed, At
  <2>2. FilesKept(p) /\ LockKeeps
    BY <1>2, <2>1, RewriteKeeps
  <2>. QED
    BY <1>1, <2>1, <2>2, LeaveQuietly
<1>. QED
  BY <1>7, <1>8, <1>9, <1>10, <1>11, <1>12, <1>13, <1>14, <1>15, <1>16 DEF RunStep

LEMMA BeginQuiet ==
  ASSUME "contend" \notin Liberties, SeriesInv, TypeInv', NEW p \in Procs, Begin(p)
  PROVE  CommandsInv' /\ LinesInv'
<1>1. Unnamed(p)
  BY UsesLock, OtherLock DEF SeriesInv
<1>2. pc[p] = "idle" /\ UNCHANGED store
  BY DEF Begin, Reconcile, FindNoLock, FindRemovable, FindRepairable, MayReconcile, Idle,
     LockSeries, Start, Resume, ResumePreview, MayResume
<1>3. FilesKept(p) /\ UNCHANGED entries
  BY <1>2, StoreQuiet DEF store
<1>4. {"unlocked", "clearing", "initialize", "stop"} \subseteq (OtherPoints \ {"repairing"}) \ StartPoints
  BY DEF OtherPoints, Points, FreePoints, RepairPoints, LockedPoints, StartPoints
<1>5. {"unlocked", "clearing", "initialize", "stop", "started", "repairing", "running", "ended"} \cap RecordedPoints = {}
      /\ "idle" \notin StartPoints /\ "idle" \notin RecordedPoints
  BY DEF RecordedPoints, StartPoints
<1>6. {"started", "repairing", "running", "ended"} \subseteq OtherPoints
  BY DEF OtherPoints, Points, FreePoints, RepairPoints, RunPoints
<1>7. \A c \in Campaigns : camp[c] \in CampaignFiles /\ (camp[c].promo \in Promoted => camp[c].state = "previewed")
  BY DEF SeriesInv, TypeInv, StoreTyped, CommandsInv, PromotionInv
<1>8. CASE FindNoLock(p) \/ FindRemovable(p)
  <2>1. LockKeeps /\ (Goto(p, "unlocked") \/ Goto(p, "clearing"))
    BY <1>8 DEF FindNoLock, FindRemovable, LockKeeps
  <2>. QED
    BY <1>1, <1>2, <1>3, <1>4, <1>5, <2>1, GotoSame
<1>9. CASE LockSeries(p, "initialize") \/ LockSeries(p, "stop")
  <2>1. LockKeeps /\ (Goto(p, "initialize") \/ Goto(p, "stop"))
    BY <1>9, TakeKeeps DEF LockSeries
  <2>. QED
    BY <1>1, <1>2, <1>3, <1>4, <1>5, <2>1, GotoSame
<1>10. ASSUME NEW c \in Campaigns, NEW k \in CampaignFiles, NEW s \in {"started", "running", "ended"},
              Enter(p, c, k, FALSE, s), UNCHANGED lock, \A q \in Procs : on[q] # c,
              IF s = "started" THEN StartOf(c, k) ELSE CopyOf(c, k),
              camp[c].promo \notin Promoted, camp[c].state # "running" \/ c \in bundles
       PROVE  CommandsInv' /\ LinesInv'
  <2>1. on'[p] = c
    BY <1>10 DEF Enter, SeriesInv, TypeInv, CommandTyped
  <2>2. bundles' = bundles
    BY <1>2 DEF store
  <2>3. Quiet(p)
    BY <1>1, <1>3, <1>10, <2>1, <2>2 DEF Quiet, OnWhich, RunsWhich, LockKeeps
  <2>4. Knows(c, k, s)
    BY <1>5, <1>10 DEF Knows, StartPoints
  <2>. QED
    BY <1>6, <1>10, <2>3, <2>4, EnterQuietly
<1>11. ASSUME NEW c \in Campaigns, Start(p, c)
       PROVE  CommandsInv' /\ LinesInv'
  <2>1. PICK k : k = [NoCampaign EXCEPT !.state = "running", !.parent = policy]
    OBVIOUS
  <2>2. k \in CampaignFiles /\ k.state = "running" /\ k.promo = "none"
    BY <2>1, NoCampaignTyped DEF SeriesInv, TypeInv, StoreTyped, CampaignFiles, NoCampaign
  <2>3. Enter(p, c, k, FALSE, "started") /\ UNCHANGED lock /\ camp[c].state = "none" /\ \A q \in Procs : on[q] # c
    BY <1>11, <2>1 DEF Start
  <2>4. StartOf(c, k)
    BY <2>2, <2>3 DEF StartOf, Exists
  <2>. QED
    BY <1>7, <1>10, <2>2, <2>3, <2>4
<1>12. ASSUME NEW c \in Campaigns, Resume(p, c)
       PROVE  CommandsInv' /\ LinesInv'
  <2>1. PICK k : k = [camp[c] EXCEPT !.rev = NextRevision(c)]
    OBVIOUS
  <2>2. /\ Enter(p, c, k, FALSE, "running") /\ UNCHANGED lock /\ camp[c].state = "failed"
        /\ NextRevision(c) \in Revisions /\ \A q \in Procs : on[q] # c
    BY <1>12, <2>1 DEF Resume, MayResume
  <2>3. k \in CampaignFiles
    BY <1>7, <2>1, <2>2, FileUpdates
  <2>4. CopyOf(c, k)
    BY <1>7, <2>1, <2>2 DEF CopyOf, Exists, CampaignFiles, Promoted
  <2>. QED
    BY <1>7, <1>10, <2>2, <2>3, <2>4
<1>13. ASSUME NEW c \in Campaigns, ResumePreview(p, c)
       PROVE  CommandsInv' /\ LinesInv'
  <2>1. PICK k : k = [camp[c] EXCEPT !.rev = NextRevision(c), !.state = "previewed",
                                     !.promo = "previewed", !.pending = FALSE]
    OBVIOUS
  <2>2. /\ Enter(p, c, k, FALSE, "ended") /\ UNCHANGED lock /\ camp[c].state \in {"running", "failed"}
        /\ c \in bundles /\ NextRevision(c) \in Revisions /\ \A q \in Procs : on[q] # c
    BY <1>13, <2>1 DEF ResumePreview, MayResume
  <2>3. k \in CampaignFiles
    BY <1>7, <2>1, <2>2 DEF CampaignFiles, Terminal
  <2>4. CopyOf(c, k)
    BY <1>7, <2>1, <2>2 DEF CopyOf, Exists, CampaignFiles
  <2>. QED
    BY <1>7, <1>10, <2>2, <2>3, <2>4
<1>14. CASE FindRepairable(p)
  <2>1. PICK c, k : c = lock.camp /\ k = [camp[c] EXCEPT !.state = "failed"]
    OBVIOUS
  <2>2. /\ Enter(p, c, k, FALSE, "repairing") /\ UNCHANGED lock /\ Stale /\ Repairable
        /\ \A q \in Procs : pc[q] \notin RepairPoints
    BY <1>14, <2>1 DEF FindRepairable, MayReconcile
  <2>3. c \in Campaigns /\ NamedLock
    BY <2>1, <2>2 DEF Stale, Repairable, SeriesInv, TypeInv, LockTyped, NamedLock
  <2>4. /\ camp[c] = [NoCampaign EXCEPT !.state = "running", !.index = lock.index, !.parent = camp[c].parent]
        /\ \A r \in Revisions : evidence[c][r] = NoEvidence
    BY <2>1, <2>2 DEF Repairable
  <2>5. camp[c].state = "running" /\ camp[c].promo = "none" /\ camp[c].rev = 0 /\ Exists(c)
    BY <2>4 DEF NoCampaign, Exists
  <2>6. IsLast(c) /\ Unrun(c)
    BY <2>1, <2>3, <2>4, <2>5 DEF SeriesInv, CommandsInv, AllocatedInv
  <2>7. \A q \in Procs : on[q] # c
    <3>1. \A q \in Procs : pc[q] # "written"
      BY <2>2, SeriesAssumption DEF SeriesInv, LockInv, LockedPoints, Stale
    <3>. QED
      BY <2>2, <2>6, <3>1 DEF Unrun, RepairPoints
  <2>8. k \in CampaignFiles /\ k.rev = 0 /\ k.state = "failed" /\ k.promo = "none"
        /\ k.index = camp[c].index /\ k.parent = camp[c].parent
    BY <1>7, <2>1, <2>3, <2>5 DEF CampaignFiles, Terminal
  <2>9. Knows(c, k, "repairing")
    BY <1>5, <2>5, <2>6, <2>8 DEF Knows, CopyOf, StartPoints
  <2>10. on'[p] = c /\ pc'[p] = "repairing"
    BY <2>2 DEF Enter, SeriesInv, TypeInv, CommandTyped
  <2>11. Quiet(p)
    BY <1>1, <1>3, <2>2, <2>3, <2>5, <2>7, <2>10 DEF Quiet, OnWhich, RunsWhich, LockKeeps, Promoted
  <2>. QED
    BY <1>6, <2>2, <2>3, <2>8, <2>9, <2>11, EnterQuietly
<1>. QED
  BY <1>8, <1>9, <1>11, <1>12, <1>13, <1>14 DEF Begin, Reconcile

LEMMA StopQuiet ==
  ASSUME "contend" \notin Liberties, SeriesInv, TypeInv', NEW p \in Procs, Crash(p) \/ Interrupt(p)
  PROVE  CommandsInv' /\ LinesInv'
<1>1. Unnamed(p)
  BY UsesLock, OtherLock DEF SeriesInv
<1>2. FilesKept(p) /\ UNCHANGED entries
  BY StoreQuiet DEF Crash, Interrupt, store
<1>3. CASE Crash(p)
  <2>1. Leave(p) /\ (lock' = lock \/ (lock # NoLock /\ lock' = [lock EXCEPT !.owner = Dead]))
    BY <1>3 DEF Crash
  <2>2. lock # NoLock => lock \in Locks
    BY DEF SeriesInv, TypeInv, LockTyped
  <2>3. LockKeeps
    BY <2>1, <2>2 DEF LockKeeps, Locks
  <2>. QED
    BY <1>1, <1>2, <2>1, <2>3, LeaveQuietly
<1>4. CASE Interrupt(p)
  <2>1. pc[p] \in RunPoints \cup {"appending", "done"} /\ Raise(p) /\ (UNCHANGED lock \/ Unlink)
    BY <1>4 DEF Interrupt, RunPoints
  <2>2. LockKeeps
    BY <2>1, UnlinkKeeps DEF LockKeeps
  <2>. QED
    BY <1>1, <1>2, <2>1, <2>2, RaiseQuietly
<1>. QED
  BY <1>3, <1>4

-----------------------------------------------------------------------------
(* Evidence, and the repair of an allocation.                                *)

LEMMA AppliedExists ==
  ASSUME SeriesInv, NEW c \in Campaigns, Applied(c)
  PROVE  Exists(c) /\ camp[c].index \in Nat
BY FileFields DEF SeriesInv, CommandsInv, PromotionInv, TypeInv, StoreTyped, Applied, Exists, Promoted

(* Sets with the same applied campaigns leave the same policy.                *)
LEMMA LeftOnce ==
  ASSUME SeriesInv, NEW S \in SUBSET Campaigns, NEW T \in SUBSET Campaigns, NEW v, NEW w,
         LeftBy(S, v), LeftBy(T, w), \A c \in Campaigns : Applied(c) => (c \in S <=> c \in T)
  PROVE  v = w
<1>1. CASE \A c \in S : ~Applied(c)
  BY <1>1 DEF LeftBy
<1>2. CASE \E c \in S : Applied(c)
  <2>1. /\ v \in S /\ Applied(v) /\ \A d \in S : Applied(d) => camp[d].index <= camp[v].index
        /\ w \in T /\ Applied(w) /\ \A d \in T : Applied(d) => camp[d].index <= camp[w].index
    BY <1>2 DEF LeftBy
  <2>2. camp[w].index <= camp[v].index /\ camp[v].index <= camp[w].index
    BY <2>1
  <2>3. Exists(v) /\ camp[v].index \in Nat /\ Exists(w) /\ camp[w].index \in Nat
    BY <2>1, AppliedExists
  <2>4. camp[v].index = camp[w].index
    BY <2>2, <2>3
  <2>. QED
    BY <2>1, <2>3, <2>4 DEF SeriesInv, LinesInv, LineInv, OneIndexEach, Exists
<1>. QED
  BY <1>1, <1>2

(* The last campaign started from the policy of the profile, until it is promoted. *)
LEMMA LastParent ==
  ASSUME SeriesInv, NEW c \in Campaigns, Exists(c), IsLast(c), ~Applied(c)
  PROVE  camp[c].parent = policy
<1>1. LeftBy(Before(camp[c].index), camp[c].parent) /\ LeftBy(Campaigns, policy)
  BY DEF SeriesInv, LinesInv, LineInv
<1>2. ASSUME NEW d \in Campaigns, Applied(d)
      PROVE  d \in Before(camp[c].index)
  <2>1. Exists(d) /\ camp[d].index \in Nat /\ d # c
    BY <1>2, AppliedExists
  <2>2. camp[d].index <= camp[c].index /\ camp[d].index # camp[c].index
    BY <2>1 DEF IsLast, Exists, SeriesInv, LinesInv, LineInv, OneIndexEach
  <2>3. camp[c].index \in Nat
    BY FileFields DEF SeriesInv, TypeInv, StoreTyped
  <2>. QED
    BY <2>1, <2>2, <2>3 DEF Before
<1>3. Before(camp[c].index) \in SUBSET Campaigns
  BY DEF Before
<1>. QED
  BY <1>1, <1>2, <1>3, LeftOnce

(* Evidence is written where there is none or the same.                       *)
Records(c, r, e) ==
  evidence[c][r] \in {NoEvidence, e} /\ evidence' = [evidence EXCEPT ![c][r] = e]
LEMMA EvidenceAdded ==
  ASSUME SeriesInv, NEW c \in Campaigns, NEW r \in Revisions, NEW e, Records(c, r, e)
  PROVE  EvidenceKept /\ evidence'[c][r] = e
<1>1. evidence \in [Campaigns -> [Revisions -> [state : Terminal, parent : Policies] \cup {NoEvidence}]]
  BY DEF SeriesInv, TypeInv, StoreTyped
<1>. QED
  BY <1>1 DEF EvidenceKept, Records

LEMMA EvidenceQuiet ==
  ASSUME SeriesInv, TypeInv', NEW p \in Procs, NEW s \in OtherPoints \cap RecordedPoints \cap EndPoints,
         NEW k \in CampaignFiles, Continue(p, k, s), s \notin StartPoints \cup {"repairing"},
         on[p] \in Campaigns, CopyOf(on[p], k),
         EvidenceKept, evidence'[on[p]][k.rev] = [state |-> k.state, parent |-> k.parent],
         UNCHANGED <<series, entries, lock, camp, bundles, policy, crashes>>, Unnamed(p)
  PROVE  CommandsInv' /\ LinesInv'
<1>1. CommandTyped /\ s \in Points
  BY DEF SeriesInv, TypeInv, OtherPoints
<1>2. Untouched(p) /\ pc'[p] = s /\ on'[p] = on[p] /\ mem'[p] = k /\ todo' = todo
  BY <1>1, ContinueEffect DEF Continue, Enter
<1>3. FilesKept(p) /\ LockKeeps
  BY DEF FilesKept, LockKeeps
<1>4. k.state \in Terminal
  BY <1>2 DEF TypeInv, CommandAt
<1>5. evidence'[on[p]][k.rev] # NoEvidence /\ k.rev \in Revisions
  BY <1>4, FileFields DEF NoEvidence, Terminal
<1>6. Knows(on[p], mem[p], s)'
  BY <1>2 DEF Knows, CopyOf, Exists
<1>7. Quiet(p)
  BY <1>2, <1>3, <1>5 DEF Quiet, OnWhich, RunsWhich
<1>. QED
  BY <1>2, <1>6, <1>7, MovedQuietly DEF OthersTodo

LEMMA PersistQuiet ==
  ASSUME "contend" \notin Liberties, SeriesInv, TypeInv', NEW p \in Procs, PersistEvidence(p)
  PROVE  CommandsInv' /\ LinesInv'
<1>1. pc[p] = "ended" /\ ~Attach(p)
  BY DEF PersistEvidence, At, Attach
<1>2. Unnamed(p)
  BY <1>1, UsesLock, OtherLock DEF SeriesInv, Step, RunStep
<1>3. pc[p] \in CampaignPoints \ StartPoints
  BY <1>1 DEF CampaignPoints, EndPoints, StartPoints
<1>4. on[p] \in Campaigns /\ mem[p] \in CampaignFiles /\ CopyOf(on[p], mem[p])
  BY <1>3, CopyHeld
<1>5. PICK k \in CampaignFiles : k = [mem[p] EXCEPT !.bound = mem[p].rev]
  BY <1>4, FileUpdates, FileFields
<1>6. k.rev = mem[p].rev /\ k.state = mem[p].state /\ k.parent = mem[p].parent /\ CopyOf(on[p], k)
  BY <1>4, <1>5, CopyChanged, FileFields DEF CampaignFiles
<1>7. EvidenceKept /\ evidence'[on[p]][k.rev] = [state |-> k.state, parent |-> k.parent]
  <2>1. Records(on[p], mem[p].rev, EvidenceOf(p))
    BY DEF PersistEvidence, Records
  <2>2. mem[p].rev \in Revisions
    BY <1>4, FileFields
  <2>3. EvidenceKept /\ evidence'[on[p]][mem[p].rev] = EvidenceOf(p)
    BY <1>4, <2>1, <2>2, EvidenceAdded
  <2>. QED
    BY <1>6, <2>3 DEF EvidenceOf
<1>8. "evidenced" \in (OtherPoints \cap RecordedPoints \cap EndPoints) \ (StartPoints \cup {"repairing"})
  BY DEF OtherPoints, Points, RunPoints, RecordedPoints, EndPoints, StartPoints
<1>. QED
  BY <1>2, <1>4, <1>5, <1>6, <1>7, <1>8, EvidenceQuiet DEF PersistEvidence

LEMMA RepairQuiet ==
  ASSUME "contend" \notin Liberties, SeriesInv, TypeInv', NEW p \in Procs, RepairStep(p), ~RepairEntry(p)
  PROVE  CommandsInv' /\ LinesInv'
<1>1. ~Attach(p)
  BY DEF RepairStep, RepairEvidence, RepairCampaign, RemoveStale, At, Attach
<1>2. Unnamed(p)
  BY <1>1, UsesLock, OtherLock DEF SeriesInv, Step
<1>3. CASE RepairEvidence(p)
  <2>1. pc[p] = "repairing"
    BY <1>3 DEF RepairEvidence, At
  <2>2. pc[p] \in CampaignPoints \ StartPoints
    BY <2>1 DEF CampaignPoints, EndPoints, StartPoints
  <2>3. on[p] \in Campaigns /\ mem[p] \in CampaignFiles /\ CopyOf(on[p], mem[p])
    BY <2>2, CopyHeld
  <2>4. mem[p].rev = 0 /\ IsLast(on[p]) /\ mem[p].state = "failed"
    BY <2>1 DEF SeriesInv, CommandsInv, CopyInv, Knows
  <2>5. Exists(on[p]) /\ mem[p].parent = camp[on[p]].parent /\ ~Applied(on[p])
    BY <2>3 DEF CopyOf, SeriesInv, CommandsInv, PromotionInv, Applied, Promoted
  <2>6. EvidenceOf(p) = [state |-> "failed", parent |-> policy]
    BY <2>3, <2>4, <2>5, LastParent DEF EvidenceOf
  <2>7. PICK k \in CampaignFiles : k = [mem[p] EXCEPT !.bound = 0]
    BY <2>3, <2>4, FileUpdates, FileFields
  <2>8. k.rev = 0 /\ k.state = mem[p].state /\ k.parent = mem[p].parent /\ CopyOf(on[p], k)
    BY <2>3, <2>4, <2>7, CopyChanged, FileFields DEF CampaignFiles
  <2>9. EvidenceKept /\ evidence'[on[p]][k.rev] = [state |-> k.state, parent |-> k.parent]
    <3>1. Records(on[p], 0, EvidenceOf(p))
      BY <1>3, <2>6 DEF RepairEvidence, Records
    <3>2. 0 \in Revisions
      BY SeriesAssumption DEF Revisions
    <3>3. EvidenceKept /\ evidence'[on[p]][0] = EvidenceOf(p)
      BY <2>3, <3>1, <3>2, EvidenceAdded
    <3>. QED
      BY <2>8, <3>3 DEF EvidenceOf
  <2>10. "evidence repaired" \in (OtherPoints \cap RecordedPoints \cap EndPoints) \ (StartPoints \cup {"repairing"})
    BY DEF OtherPoints, Points, RepairPoints, RecordedPoints, EndPoints, StartPoints
  <2>. QED
    BY <1>2, <1>3, <2>3, <2>7, <2>8, <2>9, <2>10, EvidenceQuiet DEF RepairEvidence
<1>4. CASE RepairCampaign(p)
  <2>1. /\ pc[p] = "evidence repaired" /\ WriteCampaignFile(on[p], mem[p]) /\ Goto(p, "campaign repaired")
        /\ UNCHANGED <<series, entries, lock, evidence, bundles, policy, crashes>>
    BY <1>4 DEF RepairCampaign, At
  <2>2. pc[p] \in CampaignPoints \ StartPoints /\ pc[p] \in RecordedPoints
    BY <2>1 DEF CampaignPoints, EndPoints, StartPoints, RecordedPoints
  <2>3. Rewrites(p)
    BY <2>1, <2>2, CopyHeld DEF Rewrites
  <2>4. FilesKept(p) /\ LockKeeps
    BY <2>1, <2>3 DEF FilesKept, EvidenceKept, LockKeeps
  <2>5. "campaign repaired" \in (OtherPoints \ {"repairing"}) \ StartPoints
    BY DEF OtherPoints, Points, RepairPoints, StartPoints
  <2>. QED
    BY <1>2, <2>1, <2>2, <2>4, <2>5, GotoSame
<1>5. CASE RemoveStale(p)
  <2>1. pc[p] \in {"clearing", "entry repaired"} /\ Unlink /\ Goto(p, "unlocked") /\ UNCHANGED store
    BY <1>5 DEF RemoveStale
  <2>2. FilesKept(p) /\ LockKeeps /\ UNCHANGED entries
    BY <2>1, StoreQuiet, UnlinkKeeps DEF store
  <2>3. "unlocked" \in (OtherPoints \ {"repairing"}) \ (StartPoints \cup RecordedPoints) /\ pc[p] \notin StartPoints
    BY <2>1 DEF OtherPoints, Points, FreePoints, StartPoints, RecordedPoints
  <2>. QED
    BY <1>2, <2>1, <2>2, <2>3, GotoSame
<1>. QED
  BY <1>3, <1>4, <1>5 DEF RepairStep

-----------------------------------------------------------------------------
(* Entries.  One more of the last campaign, or the first of the next.          *)

LEMMA AppendedLines ==
  ASSUME SeriesInv, NEW e \in Entries, Truthful(e), Appendable(e), AppendEntry(e),
         UNCHANGED <<camp, evidence, policy>>
  PROVE  LinesInv' /\ MoreEntries
<1>1. entries \in Seq(Entries) /\ Count \in Nat /\ Count = Cardinality(Listed) /\ IsFiniteSet(Listed)
  BY CountIsNat, ListedFinite DEF SeriesInv, TypeInv, StoreTyped
<1>2. LineInv /\ EntriesInv
  BY DEF SeriesInv, LinesInv
<1>3. LineInv'
  BY <1>2 DEF LineInv, OneIndexEach, LeftBy, Before, Exists, Applied
<1>4. CASE Identical(e)
  <2>1. entries' = entries
    BY <1>4 DEF AppendEntry
  <2>. QED
    BY <1>2, <1>3, <2>1 DEF LinesInv, EntriesInv, Truthful, Exists, Count, MoreEntries, EntriesOf
<1>5. CASE ~Identical(e)
  <2> DEFINE n == Len(entries)
  <2>1. entries' = Append(entries, e) /\ Follows(e)
    BY <1>5 DEF AppendEntry, Appendable
  <2>2. /\ n \in Nat /\ DOMAIN entries = 1..n /\ DOMAIN entries' = 1..n + 1 /\ entries'[n + 1] = e
        /\ \A i \in 1..n : entries'[i] = entries[i] /\ entries[i] \in Entries
    BY <1>1, <2>1
  <2>3. \A i \in 1..n : entries[i].index \in Nat
    BY <2>2 DEF Entries
  <2>4. MoreEntries
    BY <2>2 DEF MoreEntries, EntriesOf
  <2>5. Listed' = Listed \cup {e.camp}
    BY <2>2 DEF Listed
  <2>6. Count' = Cardinality(Listed')
    BY DEF Count, Listed
  <2>7. \A i \in 1..n + 1 : Truthful(entries[i])'
    BY <1>2, <2>2 DEF EntriesInv, Truthful, Exists
  <2>8. CASE EntriesOf(e.camp) # {}
    <3>1. n >= 1 /\ entries[n].camp = e.camp /\ entries[n].index = e.index
      BY <2>1, <2>2, <2>8 DEF Follows, EntriesOf
    <3>2. Listed' = Listed
      BY <2>2, <2>5, <3>1 DEF Listed
    <3>3. Count' = Count
      BY <1>1, <2>6, <3>2
    <3>4. \A i \in 1..n + 1 : entries'[i].index < Count'
      BY <1>2, <2>2, <3>1, <3>3 DEF EntriesInv
    <3>5. \A i, j \in 1..n + 1 : i <= j => entries'[i].index <= entries'[j].index
      BY <1>2, <2>2, <2>3, <3>1 DEF EntriesInv
    <3>6. \A m \in 0..Count' - 1 : \E i \in 1..n + 1 : entries'[i].index = m
      BY <1>2, <2>2, <3>3 DEF EntriesInv
    <3>. QED
      BY <1>3, <2>2, <2>4, <2>7, <3>4, <3>5, <3>6 DEF LinesInv, EntriesInv
  <2>9. CASE EntriesOf(e.camp) = {}
    <3>1. e.index = Count
      BY <2>1, <2>9 DEF Follows
    <3>2. e.camp \notin Listed
      BY <2>9 DEF Listed, EntriesOf
    <3>3. Count' = Count + 1
      BY <1>1, <2>5, <2>6, <3>2, FS_AddElement
    <3>4. \A i \in 1..n + 1 : entries'[i].index < Count'
      <4>1. \A i \in 1..n : entries'[i].index \in Nat /\ entries'[i].index < Count
        BY <1>2, <2>2, <2>3 DEF EntriesInv
      <4>2. entries'[n + 1].index = Count
        BY <2>2, <3>1
      <4>3. \A i \in 1..n + 1 : entries'[i].index <= Count /\ entries'[i].index \in Nat
        BY <1>1, <2>2, <4>1, <4>2
      <4>. QED
        BY <1>1, <3>3, <4>3
    <3>5. \A i, j \in 1..n + 1 : i <= j => entries'[i].index <= entries'[j].index
      <4> SUFFICES ASSUME NEW i \in 1..n + 1, NEW j \in 1..n + 1, i <= j
                   PROVE  entries'[i].index <= entries'[j].index
        OBVIOUS
      <4>1. CASE j \in 1..n
        <5>1. i \in 1..n
          BY <2>2, <4>1
        <5>. QED
          BY <1>2, <2>2, <4>1, <5>1 DEF EntriesInv
      <4>2. CASE j = n + 1
        <5>1. entries'[j].index = Count
          BY <2>2, <3>1, <4>2
        <5>2. CASE i = n + 1
          BY <1>1, <4>2, <5>1, <5>2
        <5>3. CASE i \in 1..n
          <6>1. entries[i].index < Count /\ entries'[i] = entries[i]
            BY <1>2, <2>2, <5>3 DEF EntriesInv
          <6>. QED
            BY <1>1, <2>3, <5>1, <5>3, <6>1
        <5>. QED
          BY <2>2, <5>2, <5>3
      <4>. QED
        BY <2>2, <4>1, <4>2
    <3>6. \A m \in 0..Count' - 1 : \E i \in 1..n + 1 : entries'[i].index = m
      <4> SUFFICES ASSUME NEW m \in 0..Count PROVE \E i \in 1..n + 1 : entries'[i].index = m
        BY <1>1, <3>3
      <4>1. CASE m = Count
        BY <2>2, <3>1, <4>1
      <4>2. CASE m # Count
        BY <1>1, <1>2, <2>2, <4>2 DEF EntriesInv
      <4>. QED
        BY <4>1, <4>2
    <3>. QED
      BY <1>3, <2>2, <2>4, <2>7, <3>4, <3>5, <3>6 DEF LinesInv, EntriesInv
  <2>. QED
    BY <2>8, <2>9
<1>. QED
  BY <1>4, <1>5

(* A copy whose evidence is recorded says what its entry says.                *)
LEMMA RecordedTruth ==
  ASSUME SeriesInv, NEW p \in Procs, pc[p] \in {"appending", "campaign repaired"}
  PROVE  EntryOf(on[p], mem[p]) \in Entries /\ Truthful(EntryOf(on[p], mem[p]))
<1>1. pc[p] \in CampaignPoints \ StartPoints /\ pc[p] \in RecordedPoints /\ pc[p] \in EndPoints
  BY DEF CampaignPoints, EndPoints, StartPoints, RecordedPoints
<1>2. on[p] \in Campaigns /\ mem[p] \in CampaignFiles /\ CopyOf(on[p], mem[p])
  BY <1>1, CopyHeld
<1>3. mem[p].state \in Terminal
  BY <1>1 DEF SeriesInv, TypeInv, CommandAt
<1>4. evidence[on[p]][mem[p].rev] = [state |-> mem[p].state, parent |-> mem[p].parent]
  BY <1>1 DEF SeriesInv, CommandsInv, CopyInv, Knows
<1>. QED
  BY <1>2, <1>3, <1>4, EntryTyped DEF EntryOf, Truthful, CopyOf

LEMMA AppendMoved ==
  ASSUME SeriesInv, TypeInv', NEW p \in Procs,
         NEW e \in Entries, Truthful(e), Appendable(e), AppendEntry(e),
         UNCHANGED <<lock, camp, evidence, bundles, policy>>, Untouched(p), OthersTodo(p),
         pc'[p] # "named", on'[p] \in {on[p], Nobody}, pc[p] \notin {"written", "repairing"},
         CopyInv(p)', AllocationInv(p)'
  PROVE  CommandsInv' /\ LinesInv'
<1>1. LinesInv' /\ MoreEntries
  BY AppendedLines
<1>2. FilesKept(p) /\ LockKeeps
  BY StoreQuiet DEF LockKeeps
<1>3. OnWhich(p) /\ RunsWhich(p)
  BY DEF OnWhich, RunsWhich
<1>4. TypeInv /\ CommandsInv /\ LockTyped'
  BY DEF SeriesInv, TypeInv
<1>. QED
  BY <1>1, <1>2, <1>3, <1>4, CommandsMoved

(* An entry that is appended is an entry of its campaign.                      *)
LEMMA AppendedOf ==
  ASSUME SeriesInv, NEW e \in Entries, AppendEntry(e)
  PROVE  EntriesOf(e.camp)' # {}
<1>1. entries \in Seq(Entries)
  BY DEF SeriesInv, TypeInv, StoreTyped
<1>2. CASE Identical(e)
  BY <1>2 DEF AppendEntry, Identical, EntriesOf
<1>3. CASE ~Identical(e)
  <2>1. entries' = Append(entries, e)
    BY <1>3 DEF AppendEntry
  <2>2. Len(entries) + 1 \in DOMAIN entries' /\ entries'[Len(entries) + 1] = e
    BY <1>1, <2>1
  <2>. QED
    BY <2>2 DEF EntriesOf
<1>. QED
  BY <1>2, <1>3

LEMMA AttachMoves ==
  ASSUME SeriesInv, TypeInv', NEW p \in Procs, Attach(p)
  PROVE  CommandsInv' /\ LinesInv'
<1>1. /\ pc[p] \in {"attaching", "catching up"}
      /\ UNCHANGED <<series, lock, camp, evidence, bundles, policy, pc, on, mem, try, crashes>>
  BY DEF Attach
<1>2. PICK e \in todo[p] : Appendable(e) /\ AppendEntry(e) /\ todo' = [todo EXCEPT ![p] = @ \ {e}]
  BY DEF Attach
<1>3. todo \in [Procs -> SUBSET Entries] /\ CopyInv(p) /\ AllocationInv(p)
  BY DEF SeriesInv, TypeInv, CommandTyped, CommandsInv
<1>4. /\ e \in Entries /\ Truthful(e) /\ todo'[p] = todo[p] \ {e} /\ OthersTodo(p)
  BY <1>2, <1>3 DEF CopyInv, OthersTodo
<1>5. EntriesOf(e.camp)' # {} /\ MoreEntries
  BY <1>1, <1>2, <1>4, AppendedOf, AppendedLines
<1>6. CopyInv(p)'
  BY <1>1, <1>3, <1>4 DEF CopyInv, Knows, Truthful, CopyOf, StartOf, Exists, IsLast
<1>7. ASSUME pc'[p] = "catching up", NEW d \in Campaigns, Exists(d)'
      PROVE  EntriesOf(d)' # {} \/ \E f \in todo'[p] : f.camp = d
  <2>1. EntriesOf(d) # {} \/ \E f \in todo[p] : f.camp = d
    BY <1>1, <1>3, <1>7 DEF AllocationInv, Exists
  <2>. QED
    BY <1>4, <1>5, <2>1 DEF MoreEntries
<1>8. AllocationInv(p)' /\ Untouched(p) /\ pc'[p] # "named" /\ on'[p] = on[p] /\ pc[p] \notin {"written", "repairing"}
  BY <1>1, <1>7 DEF AllocationInv, Untouched
<1>. QED
  BY <1>1, <1>2, <1>4, <1>6, <1>8, AppendMoved

LEMMA AppendMoves ==
  ASSUME SeriesInv, TypeInv', NEW p \in Procs, AppendTerminal(p) \/ RepairEntry(p)
  PROVE  CommandsInv' /\ LinesInv'
<1> DEFINE e == EntryOf(on[p], mem[p])
<1>1. /\ pc[p] \in {"appending", "campaign repaired"} /\ Appendable(e) /\ AppendEntry(e)
      /\ UNCHANGED <<series, lock, camp, evidence, bundles, policy, crashes>>
  BY DEF AppendTerminal, RepairEntry, At
<1>2. e \in Entries /\ Truthful(e)
  BY <1>1, RecordedTruth
<1> HIDE DEF e
<1>3. CommandTyped
  BY DEF SeriesInv, TypeInv
<1>4. pc[p] \in CampaignPoints \ StartPoints /\ pc[p] \notin {"written", "repairing"}
  BY <1>1 DEF CampaignPoints, EndPoints, StartPoints
<1>5. on[p] \in Campaigns /\ mem[p] \in CampaignFiles /\ CopyOf(on[p], mem[p])
  BY <1>4, CopyHeld
<1>6. todo[p] \in SUBSET Entries /\ \A f \in todo[p] : Truthful(f)
  BY <1>3 DEF CommandTyped, SeriesInv, CommandsInv, CopyInv
<1>7. \A f \in todo[p] : Truthful(f)'
  BY <1>1, <1>6 DEF Truthful, Exists
<1>8. CASE AppendTerminal(p)
  <2>1. Goto(p, "done") /\ "done" \in Points
    BY <1>8 DEF AppendTerminal, Points, LockedPoints
  <2>2. Untouched(p) /\ pc'[p] = "done" /\ on'[p] = on[p] /\ mem'[p] = mem[p] /\ todo' = todo
    BY <1>3, <2>1, GotoEffect DEF Goto
  <2>3. CopyInv(p)'
    BY <1>1, <1>5, <1>7, <2>2 DEF CopyInv, Knows, StartPoints, RecordedPoints, CopyOf, Exists
  <2>4. AllocationInv(p)' /\ OthersTodo(p)
    BY <2>2 DEF AllocationInv, OthersTodo
  <2>. QED
    BY <1>1, <1>2, <1>4, <2>2, <2>3, <2>4, AppendMoved
<1>9. CASE RepairEntry(p)
  <2>1. Enter(p, Nobody, NoCampaign, FALSE, "entry repaired") /\ "entry repaired" \in Points
    BY <1>9 DEF RepairEntry, Points, RepairPoints
  <2>2. Untouched(p) /\ pc'[p] = "entry repaired" /\ on'[p] = Nobody /\ todo' = todo
    BY <1>3, <2>1, EnterEffect, NoCampaignTyped DEF Enter
  <2>3. CopyInv(p)'
    BY <1>7, <2>2 DEF CopyInv, Knows, RecordedPoints
  <2>4. AllocationInv(p)' /\ OthersTodo(p)
    BY <2>2 DEF AllocationInv, OthersTodo
  <2>. QED
    BY <1>1, <1>2, <1>4, <2>2, <2>3, <2>4, AppendMoved
<1>. QED
  BY <1>8, <1>9

(* A scan finds every campaign that there is.                                 *)
LEMMA ScanMoves ==
  ASSUME "contend" \notin Liberties, SeriesInv, TypeInv', NEW p \in Procs, Scan(p)
  PROVE  CommandsInv' /\ LinesInv'
<1>1. /\ pc[p] \in {"scanning", "allocating"} /\ Scannable
      /\ pc' = [pc EXCEPT ![p] = IF pc[p] = "scanning" THEN "attaching" ELSE "catching up"]
      /\ todo' = [todo EXCEPT ![p] = Scanned]
      /\ UNCHANGED <<store, lock, on, mem, try, crashes>>
  BY DEF Scan, At
<1>2. CommandTyped /\ TypeInv /\ CommandsInv /\ CopyInv(p) /\ LockTyped'
  BY DEF SeriesInv, TypeInv, CommandsInv
<1>3. /\ Untouched(p) /\ OthersTodo(p) /\ todo'[p] = Scanned /\ on'[p] = on[p] /\ mem'[p] = mem[p]
  BY <1>1, <1>2 DEF CommandTyped, Untouched, OthersTodo
<1>a. \/ pc[p] = "scanning" /\ pc'[p] = "attaching"
      \/ pc[p] = "allocating" /\ pc'[p] = "catching up"
  BY <1>1, <1>2 DEF CommandTyped
<1>4. FilesKept(p) /\ LockKeeps /\ UNCHANGED entries
  BY <1>1, StoreQuiet DEF store, LockKeeps
<1>5. UNCHANGED <<camp, evidence, bundles, policy, entries>>
  BY <1>1 DEF store
<1>6. \A c \in Campaigns : Exists(c) => Truthful(EntryOf(c, camp[c]))
  BY <1>1 DEF Scannable, EvidenceAgrees, Truthful, EntryOf, Exists
<1>7. Scanned = {EntryOf(c, camp[c]) : c \in {d \in Campaigns : Exists(d)}}
  BY DEF Scanned, Exists
<1>8. \A e \in Scanned : Truthful(e)
  BY <1>6, <1>7
<1>9. \A d \in Campaigns : Exists(d) => \E e \in Scanned : e.camp = d
  <2> SUFFICES ASSUME NEW d \in Campaigns, Exists(d) PROVE \E e \in Scanned : e.camp = d
    OBVIOUS
  <2>1. EntryOf(d, camp[d]) \in Scanned
    BY <1>7
  <2>2. EntryOf(d, camp[d]).camp = d
    BY DEF EntryOf
  <2>. QED
    BY <2>1, <2>2
<1>10. CopyInv(p)'
  <2>1. \A e \in todo'[p] : Truthful(e)'
    BY <1>3, <1>5, <1>8 DEF Truthful, Exists
  <2>2. Knows(on[p], mem[p], pc[p])'
    <3>1. on[p] # Nobody => IF pc[p] = "allocating" THEN StartOf(on[p], mem[p]) ELSE CopyOf(on[p], mem[p])
      BY <1>2, <1>a DEF CopyInv, Knows, StartPoints
    <3>2. on'[p] # Nobody => IF pc'[p] = "catching up" THEN StartOf(on[p], mem[p])' ELSE CopyOf(on[p], mem[p])'
      BY <1>3, <1>5, <1>a, <3>1 DEF CopyOf, StartOf, Exists
    <3>. QED
      BY <1>a, <3>2 DEF Knows, StartPoints, RecordedPoints
  <2>. QED
    BY <2>1, <2>2 DEF CopyInv
<1>11. AllocationInv(p)'
  BY <1>3, <1>5, <1>9, <1>a DEF AllocationInv, Exists
<1>b. lock' = lock /\ pc[p] \notin {"written", "repairing"} /\ pc'[p] # "named"
  BY <1>1, <1>a
<1>12. OnWhich(p) /\ RunsWhich(p) /\ MoreEntries
  BY <1>b, <1>3, <1>5 DEF OnWhich, RunsWhich, MoreEntries, EntriesOf
<1>13. CommandsInv'
  BY <1>2, <1>3, <1>4, <1>10, <1>11, <1>12, <1>b, CommandsMoved
<1>14. LinesInv'
  BY <1>4, <1>5, FilesSame, LinesKept DEF SeriesInv
<1>. QED
  BY <1>13, <1>14

-----------------------------------------------------------------------------
(* The replay.  The effective entries before a position lead to the policy that *)
(* their campaigns leave.                                                     *)

LEMMA GreatestNumber ==
  ASSUME NEW n \in Nat, NEW S, S \subseteq 1..n, S # {}
  PROVE  \E m \in S : \A k \in S : k <= m
<1> DEFINE T == {n - k : k \in S}
<1>1. T \subseteq Nat /\ T # {}
  <2>1. \A k \in S : k \in 1..n /\ n - k \in Nat
    OBVIOUS
  <2>2. PICK s \in S : TRUE
    OBVIOUS
  <2>. QED
    BY <2>1, <2>2
<1>2. PICK t \in T : \A u \in T : t <= u
  BY <1>1, LeastNumber
<1>3. PICK m \in S : t = n - m
  OBVIOUS
<1>4. ASSUME NEW k \in S
      PROVE  k <= m
  <2>1. n - m <= n - k
    BY <1>2, <1>3
  <2>. QED
    BY <2>1
<1>. QED
  BY <1>4

LEMMA EntriesAre ==
  ASSUME SeriesInv
  PROVE  /\ entries \in Seq(Entries) /\ Len(entries) \in Nat /\ DOMAIN entries = 1..Len(entries)
         /\ \A i \in DOMAIN entries :
              /\ entries[i] \in Entries /\ entries[i].camp \in Campaigns
              /\ Exists(entries[i].camp) /\ entries[i].index \in Nat
              /\ entries[i].index = camp[entries[i].camp].index
              /\ entries[i].parent = camp[entries[i].camp].parent
         /\ \A i, j \in DOMAIN entries : i <= j => entries[i].index <= entries[j].index
<1>1. entries \in Seq(Entries) /\ EntriesInv
  BY DEF SeriesInv, TypeInv, StoreTyped, LinesInv
<1>2. Len(entries) \in Nat /\ DOMAIN entries = 1..Len(entries) /\ \A i \in DOMAIN entries : entries[i] \in Entries
  BY <1>1
<1>3. ASSUME NEW i \in DOMAIN entries
      PROVE  /\ entries[i] \in Entries /\ entries[i].camp \in Campaigns
             /\ Exists(entries[i].camp) /\ entries[i].index \in Nat
             /\ entries[i].index = camp[entries[i].camp].index
             /\ entries[i].parent = camp[entries[i].camp].parent
  <2>1. entries[i] \in Entries /\ Truthful(entries[i])
    BY <1>1, <1>2 DEF EntriesInv
  <2>2. entries[i].camp \in Campaigns /\ entries[i].index \in Nat
    BY <2>1 DEF Entries
  <2>. QED
    BY <2>1, <2>2 DEF Truthful
<1>4. \A i, j \in DOMAIN entries : i <= j => entries[i].index <= entries[j].index
  BY <1>1 DEF EntriesInv
<1>. QED
  BY <1>1, <1>2, <1>3, <1>4

(* The last entry of a campaign is an effective one.                           *)
LEMMA LastIsEffective ==
  ASSUME SeriesInv, NEW c \in Campaigns, EntriesOf(c) # {}
  PROVE  \E i \in EffectiveEntries : entries[i].camp = c /\ \A k \in EntriesOf(c) : k <= i
<1>1. Len(entries) \in Nat /\ DOMAIN entries = 1..Len(entries)
  BY EntriesAre
<1>2. EntriesOf(c) \subseteq 1..Len(entries)
  BY <1>1 DEF EntriesOf
<1>3. PICK i \in EntriesOf(c) : \A k \in EntriesOf(c) : k <= i
  BY <1>1, <1>2, GreatestNumber
<1>4. i + 1 \notin EntriesOf(c) /\ i \in 1..Len(entries)
  BY <1>2, <1>3
<1>. QED
  BY <1>1, <1>3, <1>4 DEF EntriesOf, EffectiveEntries

LEMMA ParentLeft ==
  ASSUME SeriesInv, NEW n \in 1..Len(entries) + 1, NEW S \in SUBSET Campaigns,
         \A i \in EffectiveEntries : i < n => entries[i].camp \in S,
         \A c \in S : Applied(c) => \E i \in EffectiveEntries : i < n /\ entries[i].camp = c
  PROVE  LeftBy(S, ParentAt(n))
<1> DEFINE A == {i \in EffectiveEntries : i < n /\ Applied(entries[i].camp)}
           last == CHOOSE i \in A : \A k \in A : k <= i
<1>1. ParentAt(n) = IF A = {} THEN Initial ELSE entries[last].camp
  BY DEF ParentAt, Applied
<1>2. CASE A = {}
  <2>1. \A c \in S : ~Applied(c)
    BY <1>2
  <2>. QED
    BY <1>1, <1>2, <2>1 DEF LeftBy
<1>3. CASE A # {}
  <2>1. A \subseteq 1..Len(entries) /\ Len(entries) \in Nat
    BY EntriesAre DEF EffectiveEntries
  <2>2. \E i \in A : \A k \in A : k <= i
    BY <1>3, <2>1, GreatestNumber
  <2>3. last \in A /\ \A k \in A : k <= last
    BY <2>2
  <2>4. entries[last].camp \in S /\ Applied(entries[last].camp)
    BY <2>3
  <2>5. ASSUME NEW d \in S, Applied(d)
        PROVE  camp[d].index <= camp[entries[last].camp].index
    <3>1. PICK i \in A : entries[i].camp = d
      BY <2>5
    <3>2. i <= last /\ i \in DOMAIN entries /\ last \in DOMAIN entries
      BY <2>1, <2>3, EntriesAre
    <3>. QED
      BY <3>1, <3>2, EntriesAre
  <2> HIDE DEF A, last
  <2>. QED
    BY <1>1, <1>3, <2>4, <2>5 DEF LeftBy
<1>. QED
  BY <1>2, <1>3

(* The campaigns allocated before one that is attached are attached.           *)
LEMMA EarlierAttached ==
  ASSUME SeriesInv, NEW i \in DOMAIN entries, NEW d \in Before(entries[i].index)
  PROVE  EntriesOf(d) # {} /\ \A k \in EntriesOf(d) : k < i
<1>1. d \in Campaigns /\ Exists(d) /\ camp[d].index < entries[i].index /\ camp[d].index \in Nat
  BY FileFields DEF Before, SeriesInv, TypeInv, StoreTyped
<1>2. Count \in Nat /\ entries[i].index < Count /\ entries[i].index \in Nat
  BY EntriesAre, CountIsNat DEF SeriesInv, LinesInv, EntriesInv
<1>3. camp[d].index \in 0..Count - 1
  BY <1>1, <1>2
<1>4. PICK j \in DOMAIN entries : entries[j].index = camp[d].index
  BY <1>3 DEF SeriesInv, LinesInv, EntriesInv
<1>5. entries[j].camp = d
  BY <1>1, <1>4, EntriesAre DEF SeriesInv, LinesInv, LineInv, OneIndexEach, Exists
<1>6. ASSUME NEW k \in EntriesOf(d)
      PROVE  k < i
  <2>1. k \in DOMAIN entries /\ entries[k].index = camp[d].index
    BY EntriesAre DEF EntriesOf
  <2>2. ~(i <= k)
    BY <1>1, <1>2, <2>1, EntriesAre
  <2>. QED
    BY <2>1, <2>2, EntriesAre
<1>. QED
  BY <1>4, <1>5, <1>6 DEF EntriesOf

LEMMA LineageHolds ==
  ASSUME SeriesInv
  PROVE  Lineage
<1> SUFFICES ASSUME NEW i \in EffectiveEntries PROVE entries[i].parent = ParentAt(i)
  BY DEF Lineage
<1> DEFINE c == entries[i].camp
           S == Before(entries[i].index)
<1>1. /\ i \in DOMAIN entries /\ i \in 1..Len(entries) + 1 /\ c \in Campaigns /\ Exists(c)
      /\ entries[i].index = camp[c].index /\ entries[i].parent = camp[c].parent
  BY EntriesAre DEF EffectiveEntries
<1>2. ASSUME NEW j \in EffectiveEntries, j < i
      PROVE  entries[j].camp \in S
  <2>1. j \in DOMAIN entries /\ j + 1 \in DOMAIN entries /\ entries[j + 1].camp # entries[j].camp /\ j + 1 <= i
    BY <1>1, <1>2, EntriesAre DEF EffectiveEntries
  <2>2. entries[j].index # entries[j + 1].index
    BY <2>1, EntriesAre DEF SeriesInv, LinesInv, LineInv, OneIndexEach, Exists
  <2>3. entries[j].index <= entries[j + 1].index /\ entries[j + 1].index <= entries[i].index
    BY <1>1, <2>1, EntriesAre
  <2>. QED
    BY <1>1, <2>1, <2>2, <2>3, EntriesAre DEF Before
<1>3. \A d \in S : \E j \in EffectiveEntries : j < i /\ entries[j].camp = d
  <2> SUFFICES ASSUME NEW d \in S PROVE \E j \in EffectiveEntries : j < i /\ entries[j].camp = d
    OBVIOUS
  <2>1. d \in Campaigns /\ EntriesOf(d) # {} /\ \A k \in EntriesOf(d) : k < i
    BY <1>1, EarlierAttached DEF Before
  <2>2. PICK j \in EffectiveEntries : entries[j].camp = d
    BY <2>1, LastIsEffective
  <2>. QED
    BY <2>1, <2>2 DEF EntriesOf, EffectiveEntries
<1>4. S \in SUBSET Campaigns
  BY DEF Before
<1>5. LeftBy(S, ParentAt(i))
  BY <1>1, <1>2, <1>3, <1>4, ParentLeft
<1>6. LeftBy(S, camp[c].parent)
  BY <1>1 DEF SeriesInv, LinesInv, LineInv
<1>. QED
  BY <1>1, <1>4, <1>5, <1>6, LeftOnce

LEMMA ExpectedIsPolicy ==
  ASSUME SeriesInv, \A c \in Campaigns : Applied(c) => EntriesOf(c) # {}
  PROVE  ExpectedParent = policy
<1>1. Len(entries) \in Nat /\ Len(entries) + 1 \in 1..Len(entries) + 1
  BY EntriesAre
<1>2. \A i \in EffectiveEntries : entries[i].camp \in Campaigns /\ i < Len(entries) + 1
  BY <1>1, EntriesAre DEF EffectiveEntries
<1>3. \A c \in Campaigns : Applied(c) => \E i \in EffectiveEntries : i < Len(entries) + 1 /\ entries[i].camp = c
  BY <1>2, LastIsEffective
<1>4. LeftBy(Campaigns, ExpectedParent)
  BY <1>1, <1>2, <1>3, ParentLeft DEF ExpectedParent
<1>. QED
  BY <1>4, LeftOnce DEF SeriesInv, LinesInv, LineInv

-----------------------------------------------------------------------------
(* An allocation: the lock takes the name of a campaign that follows all others *)
(* and starts from the policy of the profile.                                 *)

LEMMA NameMoves ==
  ASSUME SeriesInv, TypeInv', NEW p \in Procs, NameLock(p)
  PROVE  CommandsInv' /\ LinesInv'
<1> DEFINE k == [mem[p] EXCEPT !.index = Count]
<1>1. /\ pc[p] = "catching up" /\ todo[p] = {} /\ Replays /\ ExpectedParent = mem[p].parent
      /\ lock' = [op |-> "allocation", camp |-> on[p], index |-> Count, rev |-> 0, owner |-> p]
      /\ Continue(p, k, "named")
      /\ UNCHANGED <<series, entries, camp, evidence, bundles, policy, crashes>>
  BY DEF NameLock, CanAllocate, At, store
<1>2. CommandTyped /\ TypeInv /\ CommandsInv /\ CopyInv(p) /\ AllocationInv(p) /\ LockTyped'
  BY DEF SeriesInv, TypeInv, CommandsInv
<1>3. Count \in Nat
  BY EntriesAre, CountIsNat
<1>4. on[p] \in Campaigns /\ mem[p] \in CampaignFiles /\ StartOf(on[p], mem[p])
  BY <1>1, <1>2, SeriesAssumption DEF CommandTyped, SeriesInv, TypeInv, CommandAt, CampaignPoints, CopyInv, Knows, StartPoints
<1>5. k \in CampaignFiles /\ k.index = Count /\ k.state = "running" /\ k.promo = "none" /\ k.parent = mem[p].parent
  BY <1>3, <1>4 DEF CampaignFiles, StartOf
<1> HIDE DEF k
<1>6. Untouched(p) /\ pc'[p] = "named" /\ on'[p] = on[p] /\ mem'[p] = k /\ todo' = todo
  <2>1. "named" \in Points
    BY DEF Points, LockedPoints
  <2>. QED
    BY <1>1, <1>2, <1>5, <2>1, ContinueEffect DEF Continue, Enter
<1>7. \A d \in Campaigns : Exists(d) => EntriesOf(d) # {}
  BY <1>1, <1>2 DEF AllocationInv
<1>8. policy = mem[p].parent
  BY <1>1, <1>7, AppliedExists, ExpectedIsPolicy
<1>9. ASSUME NEW d \in Campaigns, Exists(d)
      PROVE  camp[d].index < Count /\ camp[d].promo # "applying"
  <2>1. PICK i \in EffectiveEntries : entries[i].camp = d
    BY <1>7, <1>9, LastIsEffective
  <2>2. i \in DOMAIN entries
    BY <2>1 DEF EffectiveEntries
  <2>3. entries[i].index < Count /\ entries[i].index = camp[d].index
    BY <2>1, <2>2, EntriesAre DEF SeriesInv, LinesInv, EntriesInv
  <2>. QED
    BY <1>1, <2>1, <2>3 DEF Replays, NoApplying
<1>10. \A c \in Campaigns : camp[c].promo # "applying"
  BY <1>2, <1>9 DEF CommandsInv, PromotionInv, Promoted, Exists
<1>11. FilesKept(p) /\ MoreEntries /\ OthersTodo(p) /\ OnWhich(p) /\ RunsWhich(p)
  BY <1>1, <1>6, StoreQuiet DEF MoreEntries, EntriesOf, OthersTodo, OnWhich, RunsWhich
<1>12. LockKeeps
  BY <1>1, <1>4 DEF LockKeeps, StartOf, Exists
<1>13. \A q \in Procs : q # p => pc[q] # "named"
  BY <1>1 DEF SeriesInv, LockInv, LockedPoints
<1>14. CopyInv(p)'
  BY <1>1, <1>2, <1>4, <1>5, <1>6 DEF CopyInv, Knows, StartPoints, RecordedPoints, StartOf, Exists
<1>15. AllocationInv(p)'
  BY <1>1, <1>5, <1>6, <1>8, <1>9 DEF AllocationInv, Exists
<1>16. CommandsInv'
  BY <1>2, <1>6, <1>10, <1>11, <1>12, <1>13, <1>14, <1>15, CommandsMoved
<1>17. LinesInv'
  BY <1>1, <1>2, <1>11, FilesSame, LinesKept DEF SeriesInv
<1>. QED
  BY <1>16, <1>17

LEMMA NamedAt ==
  ASSUME SeriesInv, NEW p \in Procs, pc[p] = "named"
  PROVE  /\ on[p] \in Campaigns /\ mem[p] \in CampaignFiles /\ StartOf(on[p], mem[p])
         /\ lock # NoLock /\ lock.op = "allocation" /\ lock.camp = on[p] /\ lock.index = mem[p].index
         /\ mem[p].index \in Nat /\ policy = mem[p].parent
         /\ \A d \in Campaigns : Exists(d) => camp[d].index < mem[p].index
         /\ \A d \in Campaigns : camp[d].promo # "applying"
         /\ \A q \in Procs : q # p => pc[q] \notin LockedPoints \cup RepairPoints
<1>1. on[p] \in Campaigns /\ mem[p] \in CampaignFiles
  BY DEF CommandTyped, SeriesInv, TypeInv, CommandAt, CampaignPoints
<1>2. StartOf(on[p], mem[p])
  BY <1>1, SeriesAssumption DEF SeriesInv, CommandsInv, CopyInv, Knows, StartPoints
<1>3. lock # NoLock /\ lock.owner = p /\ p # Dead
  BY SeriesAssumption DEF SeriesInv, LockInv, LockedPoints
<1>4. \A q \in Procs : q # p => pc[q] \notin LockedPoints \cup RepairPoints
  BY <1>3 DEF SeriesInv, LockInv, Stale
<1>5. AllocationInv(p) /\ PromotionInv
  BY DEF SeriesInv, CommandsInv
<1>. QED
  BY <1>1, <1>2, <1>3, <1>4, <1>5, FileFields DEF AllocationInv, PromotionInv

(* The file of a campaign that is named, written.                             *)
Allocates(p) ==
  /\ pc[p] = "named"
  /\ camp' = [camp EXCEPT ![on[p]] = mem[p]]
  /\ UNCHANGED <<series, entries, lock, evidence, bundles, policy, on, mem, todo, crashes>>
  /\ Untouched(p) /\ pc'[p] = "written"

LEMMA AllocatedFiles ==
  ASSUME SeriesInv, NEW p \in Procs, Allocates(p)
  PROVE  /\ Grows /\ camp'[on[p]] = mem[p] /\ Exists(on[p])' /\ ~Exists(on[p])
         /\ \A d \in Campaigns : d # on[p] => camp'[d] = camp[d]
         /\ \A d \in Campaigns : Applied(d)' <=> Applied(d)
         /\ \A d \in Campaigns : camp'[d].promo \in Promoted => d # on[p]
         /\ IsLast(on[p])'
<1>1. pc[p] = "named" /\ camp' = [camp EXCEPT ![on[p]] = mem[p]] /\ UNCHANGED <<evidence, on>>
  BY DEF Allocates
<1>2. /\ on[p] \in Campaigns /\ mem[p] \in CampaignFiles /\ StartOf(on[p], mem[p])
      /\ \A d \in Campaigns : Exists(d) => camp[d].index < mem[p].index
  BY <1>1, NamedAt
<1>3. camp'[on[p]] = mem[p] /\ \A d \in Campaigns : d # on[p] => camp'[d] = camp[d]
  BY <1>1, <1>2 DEF SeriesInv, TypeInv, StoreTyped
<1>4. mem[p].state = "running" /\ mem[p].promo = "none" /\ ~Exists(on[p])
  BY <1>2 DEF StartOf
<1>5. \A d \in Campaigns : d # on[p] \/ (~Applied(d) /\ ~Applied(d)')
  BY <1>3, <1>4, AppliedExists DEF Applied
<1>6. \A d \in Campaigns : camp[d].index \in Nat /\ mem[p].index \in Nat
  BY <1>2, FileFields DEF SeriesInv, TypeInv, StoreTyped
<1>7. IsLast(on[p])'
  <2>1. \A d \in Campaigns : Exists(d)' => camp'[d].index <= mem[p].index
    BY <1>2, <1>3, <1>6 DEF Exists
  <2>. QED
    BY <1>1, <1>3, <2>1 DEF IsLast, Exists
<1>8. Grows
  <2>1. \A d \in Campaigns : Exists(d) => d # on[p]
    BY <1>4
  <2>2. \A d \in Campaigns : Exists(d) => camp'[d] = camp[d]
    BY <1>3, <2>1
  <2>. QED
    BY <1>1, <2>2 DEF Grows, EvidenceKept, Exists
<1>9. Exists(on[p])' /\ \A d \in Campaigns : camp'[d].promo \in Promoted => d # on[p]
  <2>1. mem[p].state # "none" /\ mem[p].promo \notin Promoted
    BY <1>4 DEF Promoted
  <2>2. on'[p] = on[p] /\ camp'[on'[p]] = mem[p]
    BY <1>1, <1>3
  <2>. QED
    BY <1>3, <2>1, <2>2 DEF Exists
<1>. QED
  BY <1>3, <1>4, <1>5, <1>7, <1>8, <1>9 DEF Exists, Applied, Promoted

LEMMA AllocatedLines ==
  ASSUME SeriesInv, NEW p \in Procs, Allocates(p)
  PROVE  LinesInv'
<1> DEFINE c == on[p]
           k == mem[p]
<1>1. /\ c \in Campaigns /\ k \in CampaignFiles /\ k.index \in Nat /\ policy = k.parent
      /\ \A d \in Campaigns : Exists(d) => camp[d].index < k.index
      /\ UNCHANGED <<entries, policy, on, mem>>
  BY NamedAt DEF Allocates
<1>2. /\ Grows /\ camp'[c] = k /\ Exists(c)' /\ ~Exists(c)
      /\ \A d \in Campaigns : d # c => camp'[d] = camp[d]
      /\ \A d \in Campaigns : Applied(d)' <=> Applied(d)
  BY AllocatedFiles
<1>3. LineInv /\ EntriesInv
  BY DEF SeriesInv, LinesInv
<1>4. \A d \in Campaigns : camp[d].index \in Nat /\ (Applied(d) => Exists(d) /\ d # c)
  BY <1>2, AppliedExists, FileFields DEF SeriesInv, TypeInv, StoreTyped
<1>5. \A d \in Campaigns : Exists(d)' => d = c \/ (Exists(d) /\ camp'[d] = camp[d] /\ camp[d].index < k.index)
  BY <1>1, <1>2 DEF Exists
<1> HIDE DEF c, k
<1>6. OneIndexEach'
  <2>1. \A d, e \in Campaigns : Exists(d)' /\ Exists(e)' /\ camp'[d].index = camp'[e].index => d = e
    BY <1>1, <1>2, <1>3, <1>4, <1>5 DEF LineInv, OneIndexEach, Exists
  <2>. QED
    BY <2>1 DEF OneIndexEach, Exists
<1>7. ASSUME NEW S \in SUBSET Campaigns, NEW v, LeftBy(S, v)
      PROVE  LeftBy(S, v)'
  BY <1>2, <1>4, <1>7 DEF LeftBy
<1>8. ASSUME NEW d \in Campaigns, Exists(d)'
      PROVE  LeftBy(Before(camp[d].index), camp[d].parent)'
  <2>1. CASE d = c
    <3> DEFINE S == {e \in Campaigns : Exists(e)}
    <3>1. Before(camp[d].index)' = S
      BY <1>1, <1>2, <1>4, <1>5, <2>1 DEF Before, Exists
    <3>2. LeftBy(S, policy)
      BY <1>3, <1>4 DEF LineInv, LeftBy
    <3>3. camp'[d].parent = policy
      BY <1>1, <1>2, <2>1
    <3>4. \A e \in S : camp'[e] = camp[e]
      BY <1>2
    <3>5. policy \in S => camp'[policy] = camp[policy]
      BY <3>4
    <3>6. LeftBy(Before(camp[d].index), camp[d].parent)' <=>
            \/ camp'[d].parent = Initial /\ \A e \in S : ~Applied(e)'
            \/ /\ camp'[d].parent \in S /\ camp'[camp'[d].parent].promo = "applied"
               /\ \A e \in S : Applied(e)' => camp'[e].index <= camp'[camp'[d].parent].index
      BY <3>1 DEF LeftBy, Applied
    <3> HIDE DEF S
    <3>. QED
      BY <1>2, <3>2, <3>3, <3>4, <3>5, <3>6 DEF LeftBy, Applied
  <2>2. CASE d # c
    <3>1. Exists(d) /\ camp'[d] = camp[d] /\ camp[d].index < k.index
      BY <1>5, <1>8, <2>2
    <3>2. Before(camp[d].index)' = Before(camp[d].index)
      BY <1>1, <1>2, <1>4, <1>5, <3>1 DEF Before, Exists
    <3>3. LeftBy(Before(camp[d].index), camp[d].parent)
      BY <1>3, <3>1 DEF LineInv
    <3>4. \A e \in Before(camp[d].index) : e \in Campaigns
      BY DEF Before
    <3>. QED
      BY <1>2, <1>4, <3>1, <3>2, <3>3, <3>4 DEF LeftBy
  <2>. QED
    BY <2>1, <2>2
<1>9. LeftBy(Campaigns, policy)'
  BY <1>1, <1>2, <1>3, <1>4 DEF LeftBy, LineInv
<1>10. EntriesInv'
  <2>1. \A i \in DOMAIN entries : entries[i] \in Entries
    BY EntriesAre
  <2>2. \A e \in Entries : Truthful(e) => Truthful(e)'
    BY <1>2, TruthKept
  <2>3. \A i \in DOMAIN entries : Truthful(entries[i])'
    BY <1>1, <1>3, <2>1, <2>2 DEF EntriesInv, Truthful
  <2>4. entries' = entries /\ Count' = Count
    BY <1>1 DEF Count
  <2>. QED
    BY <1>3, <2>3, <2>4 DEF EntriesInv, Truthful
<1>. QED
  BY <1>6, <1>8, <1>9, <1>10 DEF LinesInv, LineInv

LEMMA AllocatedCommands ==
  ASSUME SeriesInv, NEW p \in Procs, Allocates(p)
  PROVE  CommandsInv'
<1> DEFINE c == on[p]
           k == mem[p]
<1>1. /\ c \in Campaigns /\ k \in CampaignFiles /\ StartOf(c, k)
      /\ \A d \in Campaigns : camp[d].promo # "applying"
      /\ \A q \in Procs : q # p => pc[q] \notin LockedPoints \cup RepairPoints
      /\ lock.camp = c
  BY NamedAt DEF Allocates
<1>2. /\ Grows /\ camp'[c] = k /\ Exists(c)' /\ ~Exists(c) /\ IsLast(c)'
      /\ \A d \in Campaigns : d # c => camp'[d] = camp[d]
      /\ \A d \in Campaigns : camp'[d].promo \in Promoted => d # c
  BY AllocatedFiles
<1>3. /\ UNCHANGED <<lock, evidence, bundles, policy, on, mem, todo>>
      /\ pc'[p] = "written" /\ \A q \in Procs : q # p => pc'[q] = pc[q]
  BY DEF Allocates, Untouched
<1>4. PromotionInv /\ OnOnce /\ (\A q \in Procs : CopyInv(q)) /\ c # Nobody
  BY <1>1, SeriesAssumption DEF SeriesInv, CommandsInv
<1>5. PromotionInv'
  <2>1. \A d \in Campaigns : camp'[d].promo \in Promoted => camp'[d].state = "previewed" /\ \A q \in Procs : on'[q] # d
    BY <1>2, <1>3, <1>4 DEF PromotionInv
  <2>2. \A d \in Campaigns : camp'[d].promo # "applying"
    BY <1>1, <1>2 DEF Promoted
  <2>3. \A d \in Campaigns : ~Exists(d)' => d \notin bundles'
    BY <1>2, <1>3, <1>4 DEF PromotionInv, Exists
  <2>. QED
    BY <2>1, <2>2, <2>3 DEF PromotionInv
<1>6. OnOnce'
  BY <1>3, <1>4 DEF OnOnce
<1>7. AllocatedInv'
  <2>1. Unrun(c)'
    BY <1>1, <1>2, <1>3, <1>4 DEF Unrun, StartOf, PromotionInv, OnOnce
  <2>. QED
    BY <1>1, <1>2, <1>3, <2>1 DEF AllocatedInv
<1>8. ASSUME NEW q \in Procs
      PROVE  \A e \in todo'[q] : Truthful(e)'
  <2>1. todo[q] \in SUBSET Entries
    BY DEF SeriesInv, TypeInv, CommandTyped
  <2>. QED
    BY <1>2, <1>3, <1>4, <2>1, TruthKept DEF CopyInv
<1>9. Knows(on[p], mem[p], pc[p])'
  BY <1>1, <1>2, <1>3 DEF Knows, StartPoints, RecordedPoints, CopyOf, StartOf
<1>10. ASSUME NEW q \in Procs, q # p
       PROVE  Knows(on[q], mem[q], pc[q])'
  <2>1. Knows(on[q], mem[q], pc[q]) /\ pc[q] # "repairing" /\ pc'[q] = pc[q]
    BY <1>1, <1>3, <1>4, <1>10 DEF CopyInv, RepairPoints
  <2>2. on[q] # Nobody => on[q] \in Campaigns /\ camp'[on[q]] = camp[on[q]]
    BY <1>2, <1>4, <1>10 DEF OnOnce, SeriesInv, TypeInv, CommandTyped
  <2>. QED
    BY <1>3, <2>1, <2>2 DEF Knows, CopyOf, StartOf, Exists
<1>11. \A q \in Procs : pc'[q] \notin {"catching up", "named"}
  BY <1>1, <1>3 DEF LockedPoints
<1>. QED
  BY <1>5, <1>6, <1>7, <1>8, <1>9, <1>10, <1>11 DEF CommandsInv, CopyInv, AllocationInv

LEMMA WriteMoves ==
  ASSUME SeriesInv, NEW p \in Procs, WriteAllocation(p)
  PROVE  CommandsInv' /\ LinesInv'
<1>1. CommandTyped /\ "written" \in Points
  BY DEF SeriesInv, TypeInv, Points, LockedPoints
<1>2. Goto(p, "written")
  BY DEF WriteAllocation
<1>3. Untouched(p) /\ pc'[p] = "written"
  BY <1>1, <1>2, GotoEffect
<1>4. Allocates(p)
  BY <1>2, <1>3 DEF Allocates, WriteAllocation, WriteCampaignFile, At, Goto
<1>. QED
  BY <1>4, AllocatedLines, AllocatedCommands

-----------------------------------------------------------------------------
(* A promotion.  The owner who promotes the last campaign only, and none while  *)
(* one is allocated, keeps the line of policies.                              *)

Promotes(c, s) ==
  /\ camp[c].state = "previewed" /\ \A q \in Procs : on[q] # c
  /\ camp' = [camp EXCEPT ![c] = [camp[c] EXCEPT !.promo = s]]
  /\ s = "applying" => IsLast(c) /\ \A q \in Procs : pc[q] # "named"
  /\ UNCHANGED <<series, entries, lock, evidence, bundles, command, crashes>>

LEMMA PlacesKept ==
  ASSUME SeriesInv, NEW c \in Campaigns, NEW s \in Promoted, Promotes(c, s)
  PROVE  /\ \A d \in Campaigns : camp'[d].state = camp[d].state /\ camp'[d].index = camp[d].index
                                 /\ camp'[d].parent = camp[d].parent
         /\ \A d \in Campaigns : d # c => camp'[d] = camp[d]
         /\ camp'[c].promo = s /\ Exists(c)
         /\ \A d \in Campaigns : Exists(d)' <=> Exists(d)
         /\ \A d \in Campaigns : IsLast(d)' <=> IsLast(d)
         /\ Grows
<1>1. camp \in [Campaigns -> CampaignFiles]
  BY DEF SeriesInv, TypeInv, StoreTyped
<1>2. \A d \in Campaigns : d # c => camp'[d] = camp[d]
  BY <1>1 DEF Promotes
<1>3. camp'[c] = [camp[c] EXCEPT !.promo = s] /\ camp[c] \in CampaignFiles
  BY <1>1 DEF Promotes
<1>4. /\ camp'[c].promo = s /\ camp'[c].state = camp[c].state
      /\ camp'[c].index = camp[c].index /\ camp'[c].parent = camp[c].parent
  BY <1>3 DEF CampaignFiles
<1>5. \A d \in Campaigns : camp'[d].state = camp[d].state /\ camp'[d].index = camp[d].index
                           /\ camp'[d].parent = camp[d].parent
  BY <1>2, <1>4
<1>6. \A d \in Campaigns : Exists(d)' <=> Exists(d)
  BY <1>5 DEF Exists
<1>7. \A d \in Campaigns : IsLast(d)' <=> IsLast(d)
  BY <1>5 DEF IsLast
<1>8. Grows
  BY <1>5, <1>6 DEF Grows, EvidenceKept, Promotes
<1>9. Exists(c)
  BY DEF Promotes, Exists
<1>. QED
  BY <1>2, <1>4, <1>5, <1>6, <1>7, <1>8, <1>9

LEMMA PromotionCommands ==
  ASSUME SeriesInv, NEW c \in Campaigns, NEW s \in Promoted, Promotes(c, s),
         policy' = policy \/ \A q \in Procs : pc[q] # "named"
  PROVE  CommandsInv'
<1>1. /\ \A d \in Campaigns : camp'[d].state = camp[d].state /\ camp'[d].index = camp[d].index
                              /\ camp'[d].parent = camp[d].parent
      /\ \A d \in Campaigns : d # c => camp'[d] = camp[d]
      /\ camp'[c].promo = s /\ Exists(c)
      /\ \A d \in Campaigns : Exists(d)' <=> Exists(d)
      /\ \A d \in Campaigns : IsLast(d)' <=> IsLast(d)
      /\ Grows
  BY PlacesKept
<1>2. /\ UNCHANGED <<entries, lock, evidence, bundles, pc, on, mem, todo>>
      /\ camp[c].state = "previewed" /\ \A q \in Procs : on[q] # c
      /\ s = "applying" => IsLast(c) /\ \A q \in Procs : pc[q] # "named"
  BY DEF Promotes, command
<1>3. PromotionInv /\ OnOnce /\ AllocatedInv /\ \A q \in Procs : CopyInv(q) /\ AllocationInv(q)
  BY DEF SeriesInv, CommandsInv
<1>4. PromotionInv'
  <2>1. ASSUME NEW d \in Campaigns
        PROVE  /\ camp'[d].promo \in Promoted => camp'[d].state = "previewed" /\ \A q \in Procs : on[q] # d
               /\ camp'[d].promo = "applying" => IsLast(d)' /\ \A q \in Procs : pc[q] # "named"
               /\ ~Exists(d)' => d \notin bundles
    BY <1>1, <1>2, <1>3 DEF PromotionInv
  <2>. QED
    BY <1>2, <2>1 DEF PromotionInv
<1>5. OnOnce'
  BY <1>2, <1>3 DEF OnOnce
<1>6. AllocatedInv'
  <2>1. NamedLock => lock.camp \in Campaigns
    BY DEF NamedLock, SeriesInv, TypeInv, LockTyped
  <2>2. \A d \in Campaigns : Unrun(d) => Unrun(d)'
    BY <1>1, <1>2 DEF Unrun
  <2>. QED
    BY <1>1, <1>2, <1>3, <2>1, <2>2 DEF AllocatedInv, NamedLock, Exists
<1>7. ASSUME NEW q \in Procs
      PROVE  CopyInv(q)' /\ AllocationInv(q)'
  <2>1. /\ on[q] \in Campaigns \cup {Nobody} /\ todo[q] \in SUBSET Entries
        /\ pc[q] = "repairing" => on[q] \in Campaigns
    BY DEF SeriesInv, TypeInv, CommandTyped, CommandAt, CampaignPoints, EndPoints
  <2>2. CopyInv(q) /\ AllocationInv(q)
    BY <1>3
  <2>3. \A e \in todo[q] : Truthful(e)'
    BY <1>1, <2>1, <2>2, TruthKept DEF CopyInv
  <2>4. on[q] \in Campaigns => (CopyOf(on[q], mem[q]) => CopyOf(on[q], mem[q])')
                               /\ (StartOf(on[q], mem[q]) => StartOf(on[q], mem[q])')
    BY <1>1, <1>2 DEF CopyOf, StartOf
  <2>5. pc[q] = "repairing" => IsLast(on[q])'
    BY <1>1, <1>2, <2>1, <2>2 DEF CopyInv, Knows
  <2>6. Knows(on[q], mem[q], pc[q])'
    BY <1>2, <2>1, <2>2, <2>4, <2>5 DEF CopyInv, Knows
  <2>7. AllocationInv(q)'
    BY <1>1, <1>2, <2>2 DEF AllocationInv, EntriesOf
  <2>. QED
    BY <1>2, <2>3, <2>6, <2>7 DEF CopyInv, Truthful
<1>. QED
  BY <1>4, <1>5, <1>6, <1>7 DEF CommandsInv

LEMMA PromotionLines ==
  ASSUME SeriesInv, NEW c \in Campaigns, NEW s \in Promoted, Promotes(c, s), ~Applied(c),
         \/ s # "applied" /\ policy' = policy
         \/ s = "applied" /\ policy' = c /\ IsLast(c)
  PROVE  LinesInv'
<1>1. /\ \A d \in Campaigns : camp'[d].state = camp[d].state /\ camp'[d].index = camp[d].index
                              /\ camp'[d].parent = camp[d].parent
      /\ \A d \in Campaigns : d # c => camp'[d] = camp[d]
      /\ camp'[c].promo = s /\ Exists(c)
      /\ \A d \in Campaigns : Exists(d)' <=> Exists(d)
      /\ Grows
  BY PlacesKept
<1>2. LineInv /\ EntriesInv
  BY DEF SeriesInv, LinesInv
<1>3. \A d \in Campaigns : camp[d].index \in Nat
  BY FileFields DEF SeriesInv, TypeInv, StoreTyped
<1>4. \A d \in Campaigns : d # c => (Applied(d)' <=> Applied(d))
  BY <1>1 DEF Applied
<1>5. Applied(c)' <=> s = "applied"
  BY <1>1 DEF Applied
<1>6. OneIndexEach'
  BY <1>1, <1>2 DEF LineInv, OneIndexEach
<1>8. ASSUME NEW S \in SUBSET Campaigns, NEW v, LeftBy(S, v), s = "applied" => c \notin S
      PROVE  \/ v = Initial /\ \A d \in S : ~Applied(d)'
             \/ /\ v \in S /\ camp'[v].promo = "applied"
                /\ \A d \in S : Applied(d)' => camp'[d].index <= camp'[v].index
  <2>1. \A d \in S : Applied(d)' <=> Applied(d)
    BY <1>4, <1>5, <1>8
  <2>. QED
    BY <1>1, <1>8, <2>1 DEF LeftBy, Applied
<1>9. ASSUME NEW d \in Campaigns, Exists(d)'
      PROVE  LeftBy(Before(camp[d].index), camp[d].parent)'
  <2>1. Exists(d) /\ Before(camp[d].index) \in SUBSET Campaigns
    BY <1>1, <1>9 DEF Before
  <2>2. LeftBy(Before(camp[d].index), camp[d].parent)
    BY <1>2, <2>1 DEF LineInv
  <2>3. s = "applied" => c \notin Before(camp[d].index)
    BY <1>3, <2>1 DEF Before, IsLast, Exists
  <2>4. camp'[d].index = camp[d].index /\ camp'[d].parent = camp[d].parent
    BY <1>1
  <2>5. Before(camp[d].index)' = Before(camp[d].index)
    BY <1>1, <2>4 DEF Before, Exists
  <2>6. \/ camp[d].parent = Initial /\ \A e \in Before(camp[d].index) : ~Applied(e)'
        \/ /\ camp[d].parent \in Before(camp[d].index) /\ camp'[camp[d].parent].promo = "applied"
           /\ \A e \in Before(camp[d].index) :
                Applied(e)' => camp'[e].index <= camp'[camp[d].parent].index
    BY <1>8, <2>1, <2>2, <2>3
  <2>. QED
    BY <2>4, <2>5, <2>6 DEF LeftBy, Applied
<1>10. LeftBy(Campaigns, policy)'
  <2>1. CASE s # "applied"
    BY <1>2, <1>8, <2>1 DEF LineInv, LeftBy, Applied
  <2>2. CASE s = "applied"
    <3>1. policy' = c /\ IsLast(c) /\ Applied(c)'
      BY <1>5, <2>2
    <3>2. \A d \in Campaigns : Applied(d)' => Exists(d)
      BY <1>1, <1>4, AppliedExists
    <3>3. \A d \in Campaigns : Applied(d)' => camp'[d].index <= camp'[c].index
      BY <1>1, <3>1, <3>2 DEF IsLast, Exists
    <3>. QED
      BY <3>1, <3>3 DEF LeftBy, Applied
  <2>. QED
    BY <2>1, <2>2
<1>11. EntriesInv'
  <2>1. \A i \in DOMAIN entries : entries[i] \in Entries
    BY EntriesAre
  <2>2. entries' = entries /\ evidence' = evidence
    BY DEF Promotes
  <2>3. \A i \in DOMAIN entries : Truthful(entries[i])'
    BY <1>1, <1>2, <2>1, <2>2, TruthKept DEF EntriesInv, Truthful
  <2>4. Count' = Count
    BY <2>2 DEF Count
  <2>. QED
    BY <1>2, <2>2, <2>3, <2>4 DEF EntriesInv, Truthful
<1>. QED
  BY <1>6, <1>9, <1>10, <1>11 DEF LinesInv, LineInv

LEMMA PromotionMoves ==
  ASSUME "overtake" \notin Liberties, SeriesInv, NEW c \in Campaigns,
         BeginPromotion(c) \/ CommitPromotion(c) \/ RecoverPromotion(c)
  PROVE  CommandsInv' /\ LinesInv'
<1>1. CASE BeginPromotion(c)
  <2>1. /\ camp[c].state = "previewed" /\ camp[c].promo \in {"previewed", "recovered"}
        /\ \A q \in Procs : on[q] # c
        /\ IsLast(c) /\ \A q \in Procs : pc[q] # "named"
    BY <1>1 DEF BeginPromotion, At
  <2>2. /\ camp' = [camp EXCEPT ![c] = [camp[c] EXCEPT !.promo = "applying"]]
        /\ UNCHANGED <<series, entries, lock, evidence, bundles, policy, command, crashes>>
    BY <1>1 DEF BeginPromotion, SetPromotion, WriteCampaignFile
  <2>3. Promotes(c, "applying") /\ policy' = policy
    BY <2>1, <2>2 DEF Promotes
  <2>4. ~Applied(c)
    BY <2>1 DEF Applied
  <2>. QED
    BY <2>3, <2>4, PromotionCommands, PromotionLines DEF Promoted
<1>2. CASE CommitPromotion(c) \/ RecoverPromotion(c)
  <2>1. /\ camp[c].state = "previewed" /\ (\A q \in Procs : on[q] # c) /\ IsLast(c)
        /\ (\A q \in Procs : pc[q] # "named") /\ ~Applied(c)
    BY <1>2 DEF CommitPromotion, RecoverPromotion, SeriesInv, CommandsInv, PromotionInv, Promoted, Applied
  <2>2. \/ Promotes(c, "applied") /\ policy' = c
        \/ Promotes(c, "recovered") /\ policy' = policy
    BY <1>2, <2>1 DEF CommitPromotion, RecoverPromotion, Promotes, SetPromotion, WriteCampaignFile
  <2>. QED
    BY <2>1, <2>2, PromotionCommands, PromotionLines DEF Promoted
<1>. QED
  BY <1>1, <1>2

-----------------------------------------------------------------------------
(* The invariant of the series, from its first state on.                      *)

LEMMA InitSeries == Init => SeriesInv
<1> SUFFICES ASSUME Init PROVE SeriesInv
  OBVIOUS
<1>1. TypeInv /\ LockInv
  BY InitTyped, InitLock
<1>2. /\ entries = <<>> /\ lock = NoLock /\ bundles = {} /\ policy = Initial
      /\ camp = [c \in Campaigns |-> NoCampaign]
      /\ pc = [p \in Procs |-> "idle"] /\ on = [p \in Procs |-> Nobody]
      /\ todo = [p \in Procs |-> {}]
  BY DEF Init
<1>3. \A c \in Campaigns : ~Exists(c) /\ camp[c].promo = "none"
  BY <1>2 DEF Exists, NoCampaign
<1>4. LineInv
  BY <1>2, <1>3 DEF LineInv, OneIndexEach, Exists, LeftBy, Applied
<1>5. EntriesInv
  <2>1. DOMAIN entries = {}
    BY <1>2
  <2>2. Listed = {}
    BY <2>1 DEF Listed
  <2>3. Count = 0
    BY <1>1, <2>2, CountIsNat, FS_EmptySet DEF TypeInv, StoreTyped
  <2>4. 0..Count - 1 = {}
    BY <2>3
  <2>. QED
    BY <2>1, <2>4 DEF EntriesInv
<1>6. PromotionInv /\ OnOnce /\ AllocatedInv
  BY <1>2, <1>3 DEF PromotionInv, Promoted, OnOnce, AllocatedInv, NamedLock
<1>7. \A p \in Procs : CopyInv(p) /\ AllocationInv(p)
  BY <1>2 DEF CopyInv, AllocationInv, Knows, StartPoints, RecordedPoints
<1>. QED
  BY <1>1, <1>4, <1>5, <1>6, <1>7 DEF SeriesInv, CommandsInv, LinesInv

LEMMA SeriesStep ==
  ASSUME "contend" \notin Liberties, "overtake" \notin Liberties, SeriesInv, [Next]_vars
  PROVE  SeriesInv'
<1>1. TypeInv' /\ LockInv'
  BY TypeStep, LockStep DEF SeriesInv
<1>2. ASSUME NEW p \in Procs, LockedStep(p)
      PROVE  CommandsInv' /\ LinesInv'
  BY <1>1, <1>2, LockedQuiet, AttachMoves, ScanMoves, NameMoves, WriteMoves
<1>3. ASSUME NEW p \in Procs, RepairStep(p)
      PROVE  CommandsInv' /\ LinesInv'
  BY <1>1, <1>3, RepairQuiet, AppendMoves
<1>4. ASSUME NEW p \in Procs, RunStep(p)
      PROVE  CommandsInv' /\ LinesInv'
  BY <1>1, <1>4, RunQuiet, PersistQuiet, AppendMoves
<1>5. ASSUME NEW p \in Procs, Begin(p)
      PROVE  CommandsInv' /\ LinesInv'
  BY <1>1, <1>5, BeginQuiet
<1>6. ASSUME NEW p \in Procs, Crash(p) \/ Interrupt(p)
      PROVE  CommandsInv' /\ LinesInv'
  BY <1>1, <1>6, StopQuiet
<1>7. ASSUME NEW c \in Campaigns, BeginPromotion(c) \/ CommitPromotion(c) \/ RecoverPromotion(c)
      PROVE  CommandsInv' /\ LinesInv'
  BY <1>7, PromotionMoves
<1>8. ASSUME UNCHANGED vars
      PROVE  CommandsInv' /\ LinesInv'
  <2>1. UNCHANGED <<series, entries, lock, camp, evidence, bundles, policy, pc, on, mem, try, todo, crashes>>
    BY <1>8 DEF vars
  <2>2. LinesInv'
    BY <2>1, LinesKept DEF SeriesInv, Grows, SamePlaces, EvidenceKept, Exists
  <2>3. PromotionInv' /\ OnOnce' /\ AllocatedInv'
    BY <2>1 DEF SeriesInv, CommandsInv, PromotionInv, OnOnce, AllocatedInv, NamedLock, IsLast, Unrun, Exists
  <2>4. ASSUME NEW p \in Procs
        PROVE  CopyInv(p)' /\ AllocationInv(p)'
    <3>1. CopyInv(p) /\ AllocationInv(p)
      BY DEF SeriesInv, CommandsInv
    <3>2. AllocationInv(p)'
      BY <2>1, <3>1 DEF AllocationInv, Exists, EntriesOf
    <3>3. \A e \in todo'[p] : Truthful(e)'
      BY <2>1, <3>1 DEF CopyInv, Truthful, Exists
    <3>4. Knows(on[p], mem[p], pc[p])'
      <4>1. on'[p] = on[p] /\ mem'[p] = mem[p] /\ pc'[p] = pc[p]
        BY <2>1
      <4>2. Knows(on[p], mem[p], pc[p])
        BY <3>1 DEF CopyInv
      <4>3. /\ on[p] \in Campaigns \cup {Nobody} /\ mem[p] \in CampaignFiles /\ pc[p] \in Points
            /\ CommandAt(p)
        BY DEF SeriesInv, TypeInv, CommandTyped
      <4>4. Grows /\ SamePlaces
        BY <2>1 DEF Grows, SamePlaces, EvidenceKept, Exists
      <4>. QED
        BY <4>1, <4>2, <4>3, <4>4, KnowsStill DEF CommandAt
    <3>. QED
      BY <3>2, <3>3, <3>4 DEF CopyInv
  <2>. QED
    BY <2>2, <2>3, <2>4 DEF CommandsInv
<1>9. ASSUME NEW p \in Procs, Step(p)
      PROVE  CommandsInv' /\ LinesInv'
  BY <1>2, <1>3, <1>4, <1>9 DEF Step
<1>10. CommandsInv' /\ LinesInv'
  BY <1>5, <1>6, <1>7, <1>8, <1>9 DEF Next, Begin
<1>. QED
  BY <1>1, <1>10 DEF SeriesInv

(* As long as two reconciles do not clear one stale lock and the owner promotes *)
(* the last campaign only, no two campaigns are ever allocated one index,      *)
(* whatever is killed between the name in the lock and the entry, and however  *)
(* a campaign is resumed.                                                    *)
THEOREM IndicesUnique ==
  ASSUME "contend" \notin Liberties, "overtake" \notin Liberties
  PROVE  Spec => []OneIndexEach
<1>1. SeriesInv /\ [Next]_vars => SeriesInv'
  BY SeriesStep
<1>2. SeriesInv => OneIndexEach
  BY DEF SeriesInv, LinesInv, LineInv
<1>. QED
  BY <1>1, <1>2, InitSeries, PTL DEF Spec

(* Under the same conditions an entry of the series never says anything but    *)
(* what the evidence of that revision says, whether the campaign's own command *)
(* appended it, a reconcile or a repair, or a later allocation catching up.    *)
THEOREM EntriesAreEvidenced ==
  ASSUME "contend" \notin Liberties, "overtake" \notin Liberties
  PROVE  Spec => []EntriesEvidenced
<1>1. SeriesInv /\ [Next]_vars => SeriesInv'
  BY SeriesStep
<1>2. SeriesInv => EntriesEvidenced
  BY DEF SeriesInv, LinesInv, EntriesInv, EntriesEvidenced, Truthful
<1>. QED
  BY <1>1, <1>2, InitSeries, PTL DEF Spec

(* Under the same conditions every campaign of the series started from the     *)
(* policy that the replay of the entries before it gives, and the replay of    *)
(* all of them ends at the profile's policy once what was applied is attached. *)
THEOREM HistoryLeadsToPolicy ==
  ASSUME "contend" \notin Liberties, "overtake" \notin Liberties
  PROVE  Spec => []HistoryIsPolicy
<1>1. SeriesInv /\ [Next]_vars => SeriesInv'
  BY SeriesStep
<1>2. SeriesInv => HistoryIsPolicy
  <2> SUFFICES ASSUME SeriesInv, \A c \in Campaigns : Applied(c) => Attached(c, camp[c].rev)
               PROVE  ExpectedParent = policy
    BY LineageHolds DEF HistoryIsPolicy, Applied
  <2>1. \A c \in Campaigns : Applied(c) => EntriesOf(c) # {}
    BY DEF Attached, EntriesOf
  <2>. QED
    BY <2>1, ExpectedIsPolicy
<1>. QED
  BY <1>1, <1>2, InitSeries, PTL DEF Spec

=============================================================================
