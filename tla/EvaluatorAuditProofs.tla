------------------------- MODULE EvaluatorAuditProofs -------------------------
(***************************************************************************)
(* Proofs about EvaluatorAudit for any campaigns, anchors, slots, budgets    *)
(* and answers, and any number of write failures, deaths and edits.         *)
(***************************************************************************)
EXTENDS EvaluatorAudit, FoldLemmas

Processes(c) == [pc : Points, version : Versions, collector : Observations(c),
                 count : 0..MaxCalls[c], exhausted : BOOLEAN]
Questions(c) == [anchor : Anchors, slot : SlotSet(c), version : Versions, answer : Observed]
States == {"absent", "running", "failed", "ended"}
Reported(r) == r.collection \in {"complete", "budget_exhausted"} /\ r.version \in Versions

Functions ==
  /\ campaign = [c \in Campaigns |-> campaign[c]] /\ run = [c \in Campaigns |-> run[c]]
  /\ checkpoint = [c \in Campaigns |-> checkpoint[c]] /\ budget = [c \in Campaigns |-> budget[c]]
  /\ observations = [c \in Campaigns |-> observations[c]]
  /\ report = [c \in Campaigns |-> report[c]] /\ asked = [c \in Campaigns |-> asked[c]]

OwnerInv == /\ sources \in Versions /\ reviewed \subseteq Versions /\ approved \subseteq reviewed
            /\ faults \in [write : 0..MaxFaults, kill : 0..MaxKills, edit : 0..MaxEdits]

Shaped(r) == r = [state |-> r.state, version |-> r.version, binding |-> r.binding]

CampaignTyped(c) ==
  /\ Shaped(campaign[c]) /\ campaign[c].state \in States
  /\ checkpoint[c] \in Observations(c) \cup {NoFile}
  /\ budget[c] \in 0..MaxCalls[c] \cup {NoFile}
  /\ observations[c] \in Observations(c) \cup {NoFile}
  /\ report[c] # NoFile => Reported(report[c])
  /\ run[c] \in Processes(c) \cup {Idle}
  /\ asked[c] \in Seq(Questions(c))

-----------------------------------------------------------------------------
(* A campaign's process, from its checkpoint to the report.                   *)
Collecting == {"budget", "loop", "invoke", "calling", "answered", "report", "reporting", "reloading"}
Settled(c, obs) == \A a \in Anchors, s \in SlotSet(c) : obs[a][s] # Pending
Complete(c, obs) == \A a \in Anchors, s \in SlotSet(c) : obs[a][s] \notin {Absent, Pending}

(* The one slot that is marked has not been asked about its anchor.           *)
OnePending(c, obs) ==
  \E a \in Anchors, s \in SlotSet(c) :
    /\ obs[a][s] = Pending /\ Entry(c, a, s) = {}
    /\ \A b \in Anchors, t \in SlotSet(c) : obs[b][t] = Pending => b = a /\ t = s

(* What the files know of the questions.                                      *)
FilesInv(c) ==
  /\ checkpoint[c] = NoFile /\ ~Existing(c) => asked[c] = <<>> /\ observations[c] = NoFile
  /\ checkpoint[c] # NoFile => Truthful(c, checkpoint[c])
  /\ observations[c] # NoFile => /\ Truthful(c, observations[c]) /\ Complete(c, observations[c])
                                 /\ checkpoint[c] # NoFile => checkpoint[c] = observations[c]

BudgetInv(c) ==
  /\ asked[c] # <<>> => budget[c] # NoFile /\ Len(asked[c]) <= budget[c]
  /\ run[c].pc \in {"loop", "invoke", "calling", "answered"} => budget[c] = run[c].count
  /\ run[c].pc = "invoke" => run[c].count < MaxCalls[c]
  /\ run[c].pc = "calling" => Len(asked[c]) < budget[c]

AskedInv(c) ==
  /\ \A i, j \in DOMAIN asked[c] :
       asked[c][i].anchor = asked[c][j].anchor /\ asked[c][i].slot = asked[c][j].slot => i = j
  /\ asked[c] # <<>> => campaign[c].state # "absent"
  /\ \A e \in Entries(c) : e.version \in reviewed /\ e.version = campaign[c].version
  /\ run[c] # Idle => run[c].version = campaign[c].version /\ campaign[c].state # "absent"
  /\ run[c].pc \notin {"idle", "approval"} => run[c].version \in approved

CollectorInv(c) ==
  /\ run[c].pc \in Collecting => /\ campaign[c].binding = NoFile /\ checkpoint[c] # NoFile
                                 /\ Truthful(c, run[c].collector)
  /\ run[c].pc \in Collecting \ {"answered"} => checkpoint[c] = run[c].collector
  /\ run[c].pc \in Collecting \ {"invoke", "calling"} => Settled(c, run[c].collector)
  /\ run[c].pc \in {"invoke", "calling"} => OnePending(c, run[c].collector)
  /\ run[c].pc \in {"invoke", "calling", "answered"} => observations[c] = NoFile
  /\ run[c].pc \in {"report", "reporting", "reloading"} => Complete(c, run[c].collector)
  /\ run[c].pc \in {"bind", "cleanup"} => Sound(c)

BindingInv(c) == campaign[c].binding # NoFile => Bound(c)

CampaignInv(c) ==
  CampaignTyped(c) /\ FilesInv(c) /\ BudgetInv(c) /\ AskedInv(c) /\ CollectorInv(c) /\ BindingInv(c)

AuditInv == Functions /\ OwnerInv /\ \A c \in Campaigns : CampaignInv(c)

-----------------------------------------------------------------------------
(* The coordinates of an audit are every anchor with every slot.              *)
LEMMA NoLessProduct ==
  ASSUME NEW a \in Nat, NEW b \in Nat, NEW m \in Nat, a <= b
  PROVE  a * m <= b * m /\ a * m \in Nat /\ b * m \in Nat /\ (a + 1) * m = a * m + m
<1>1. PICK d \in Nat : b = a + d
  <2>1. b - a \in Nat /\ b = a + (b - a)
    OBVIOUS
  <2>. QED
    BY <2>1
<1>2. b * m = a * m + d * m
  BY <1>1
<1>3. d * m \in Nat /\ a * m \in Nat /\ b * m \in Nat
  OBVIOUS
<1>. QED
  BY <1>2, <1>3

LEMMA DivisionIs ==
  ASSUME NEW x \in Nat, NEW m \in Nat \ {0}
  PROVE  /\ x \div m \in Nat /\ x % m \in 0..m - 1
         /\ x = (x \div m) * m + (x % m)
OBVIOUS

LEMMA DivisionOnce ==
  ASSUME NEW m \in Nat \ {0}, NEW q \in Nat, NEW r \in 0..m - 1, NEW p \in Nat, NEW t \in 0..m - 1,
         q * m + r = p * m + t
  PROVE  q = p /\ r = t
<1>1. ASSUME NEW a \in Nat, NEW b \in Nat, a < b, NEW u \in 0..m - 1, NEW v \in 0..m - 1
      PROVE  a * m + u # b * m + v
  <2>1. a + 1 <= b /\ a + 1 \in Nat
    BY <1>1
  <2>2. (a + 1) * m <= b * m /\ b * m \in Nat
    BY <2>1, NoLessProduct
  <2>3. (a + 1) * m = a * m + m /\ a * m \in Nat
    BY NoLessProduct
  <2>. QED
    BY <2>2, <2>3
<1>2. ~(q < p) /\ ~(p < q)
  BY <1>1
<1>3. q = p
  BY <1>2
<1>4. q * m \in Nat
  OBVIOUS
<1>. QED
  BY <1>3, <1>4

Row(i, m) == ((i - 1) \div m) + 1
Column(i, m) == ((i - 1) % m) + 1

LEMMA PlaceAmong ==
  ASSUME NEW n \in Nat, NEW m \in Nat \ {0}, NEW i \in 1..n * m
  PROVE  Row(i, m) \in 1..n /\ Column(i, m) \in 1..m
<1>1. PICK x \in Nat : x = i - 1
  OBVIOUS
<1>2. PICK q : q = x \div m
  OBVIOUS
<1>3. q \in Nat /\ x % m \in 0..m - 1 /\ x = q * m + (x % m)
  BY <1>2, DivisionIs
<1>4. n * m \in Nat /\ x < n * m
  BY <1>1
<1>5. ~(n <= q)
  <2> SUFFICES ASSUME n <= q PROVE FALSE
    OBVIOUS
  <2>1. n * m <= q * m /\ q * m \in Nat
    BY <1>3, NoLessProduct
  <2>. QED
    BY <1>3, <1>4, <2>1
<1>. QED
  BY <1>1, <1>2, <1>3, <1>5 DEF Row, Column

Placed(n, m, k, j) == \E i \in 1..n * m : Row(i, m) = k /\ Column(i, m) = j
LEMMA PlaceOf ==
  ASSUME NEW n \in Nat, NEW m \in Nat \ {0}, NEW k \in 1..n, NEW j \in 1..m
  PROVE  Placed(n, m, k, j)
<1>1. PICK q \in Nat : q = k - 1
  OBVIOUS
<1>2. PICK r \in 0..m - 1 : r = j - 1
  OBVIOUS
<1>3. q * m \in Nat /\ q * m + m <= n * m /\ n * m \in Nat
  <2>1. q + 1 <= n
    BY <1>1
  <2>. QED
    BY <2>1, NoLessProduct
<1>4. PICK x \in Nat : x = q * m + r
  BY <1>3
<1>5. x \div m = q /\ x % m = r
  BY <1>4, DivisionIs, DivisionOnce
<1>6. PICK i \in 1..n * m : i = x + 1
  BY <1>3, <1>4
<1>7. i - 1 = x
  BY <1>6
<1>8. (i - 1) \div m = q /\ (i - 1) % m = r
  BY <1>5, <1>7, Zenon
<1>9. Row(i, m) = k /\ Column(i, m) = j
  BY <1>1, <1>2, <1>8 DEF Row, Column
<1>. QED
  BY <1>9 DEF Placed

LEMMA CoordinatesAre ==
  ASSUME NEW c \in Campaigns
  PROVE  /\ DOMAIN Coordinates(c) \subseteq Nat
         /\ \A i \in DOMAIN Coordinates(c) : /\ Coordinates(c)[i][1] \in Anchors
                                             /\ Coordinates(c)[i][2] \in SlotSet(c)
         /\ \A a \in Anchors, s \in SlotSet(c) :
              \E i \in DOMAIN Coordinates(c) : Coordinates(c)[i] = <<a, s>>
<1>1. PICK m : m = Len(Slots[c])
  OBVIOUS
<1>2. PICK n : n = Len(Order)
  OBVIOUS
<1>3. /\ n \in Nat /\ m \in Nat \ {0} /\ DOMAIN Order = 1..n /\ DOMAIN Slots[c] = 1..m
      /\ \A k \in 1..n : Order[k] \in Anchors
      /\ \A j \in 1..m : Slots[c][j] \in SlotSet(c)
      /\ \A a \in Anchors : \E k \in 1..n : Order[k] = a
      /\ \A s \in SlotSet(c) : \E j \in 1..m : Slots[c][j] = s
  <2>1. Order \in Seq(Anchors) /\ Slots[c] \in Seq(SlotSet(c)) /\ Slots[c] # <<>>
    BY AuditAssumption
  <2>2. n \in Nat /\ m \in Nat \ {0} /\ DOMAIN Order = 1..n /\ DOMAIN Slots[c] = 1..m
    BY <1>1, <1>2, <2>1
  <2>3. \A k \in 1..n : Order[k] \in Anchors
    BY <2>1, <2>2
  <2>4. \A j \in 1..m : Slots[c][j] \in SlotSet(c)
    BY <2>1, <2>2
  <2>5. \A a \in Anchors : \E k \in 1..n : Order[k] = a
    BY <2>2, AuditAssumption
  <2>6. \A s \in SlotSet(c) : \E j \in 1..m : Slots[c][j] = s
    BY <2>2 DEF SlotSet
  <2>. QED
    BY <2>2, <2>3, <2>4, <2>5, <2>6
<1>4. Coordinates(c) = [i \in 1..n * m |-> <<Order[Row(i, m)], Slots[c][Column(i, m)]>>]
  BY <1>1, <1>2, Zenon DEF Coordinates, Row, Column
<1>5. DOMAIN Coordinates(c) = 1..n * m
  BY <1>4
<1>6. \A i \in 1..n * m : Coordinates(c)[i] = <<Order[Row(i, m)], Slots[c][Column(i, m)]>>
  BY <1>4, Zenon
<1>7. ASSUME NEW i \in 1..n * m
      PROVE  Coordinates(c)[i][1] \in Anchors /\ Coordinates(c)[i][2] \in SlotSet(c)
  <2>1. PICK k \in 1..n : k = Row(i, m)
    BY <1>3, PlaceAmong
  <2>2. PICK j \in 1..m : j = Column(i, m)
    BY <1>3, PlaceAmong
  <2>3. Coordinates(c)[i] = <<Order[k], Slots[c][j]>>
    BY <1>6, <2>1, <2>2
  <2>. QED
    BY <1>3, <2>3
<1>8. ASSUME NEW a \in Anchors, NEW s \in SlotSet(c)
      PROVE  \E i \in 1..n * m : Coordinates(c)[i] = <<a, s>>
  <2>1. PICK k \in 1..n : Order[k] = a
    BY <1>3
  <2>2. PICK j \in 1..m : Slots[c][j] = s
    BY <1>3
  <2>0. n \in Nat /\ m \in Nat \ {0}
    BY <1>3
  <2>5. Placed(n, m, k, j)
    BY <2>0, PlaceOf
  <2>3. PICK i \in 1..n * m : Row(i, m) = k /\ Column(i, m) = j
    BY <2>5 DEF Placed
  <2>4. Coordinates(c)[i] = <<Order[Row(i, m)], Slots[c][Column(i, m)]>>
    BY <1>6
  <2>. QED
    BY <2>1, <2>2, <2>3, <2>4
<1>9. 1..n * m \subseteq Nat
  BY <1>3
<1>. QED
  BY <1>5, <1>7, <1>8, <1>9

LEMMA RemainingIs ==
  ASSUME NEW c \in Campaigns, NEW obs
  PROVE  /\ Remaining(c, obs) = {} => \A a \in Anchors, s \in SlotSet(c) : obs[a][s] # Absent
         /\ Remaining(c, obs) # {} =>
              \E a \in Anchors, s \in SlotSet(c) :
                /\ Coordinates(c)[Min(Remaining(c, obs))][1] = a
                /\ Coordinates(c)[Min(Remaining(c, obs))][2] = s /\ obs[a][s] = Absent
<1>1. PICK R : R = Remaining(c, obs)
  OBVIOUS
<1>2. \A i : i \in R <=> /\ i \in DOMAIN Coordinates(c)
                         /\ obs[Coordinates(c)[i][1]][Coordinates(c)[i][2]] = Absent
  BY <1>1 DEF Remaining
<1>3. ASSUME R = {}, NEW a \in Anchors, NEW s \in SlotSet(c) PROVE obs[a][s] # Absent
  <2>1. PICK i \in DOMAIN Coordinates(c) : Coordinates(c)[i] = <<a, s>>
    BY CoordinatesAre
  <2>2. Coordinates(c)[i][1] = a /\ Coordinates(c)[i][2] = s
    BY <2>1
  <2>. QED
    BY <1>2, <1>3, <2>2
<1>4. ASSUME R # {}
      PROVE  \E a \in Anchors, s \in SlotSet(c) :
               /\ Coordinates(c)[Min(R)][1] = a /\ Coordinates(c)[Min(R)][2] = s /\ obs[a][s] = Absent
  <2>1. R \subseteq Nat
    BY <1>2, CoordinatesAre
  <2>2. Min(R) \in R
    BY <1>4, <2>1, MinOfNaturals
  <2>3. Coordinates(c)[Min(R)][1] \in Anchors /\ Coordinates(c)[Min(R)][2] \in SlotSet(c)
    BY <1>2, <2>2, CoordinatesAre
  <2>. QED
    BY <1>2, <2>2, <2>3
<1>. QED
  BY <1>1, <1>3, <1>4

-----------------------------------------------------------------------------
(* What a slot may hold.                                                      *)
Answered == {Completed(f) : f \in Answers} \cup {Unavailable(k) : k \in Failures}

LEMMA ValuesDiffer ==
  /\ Absent # Pending /\ NotAttempted # Interrupted
  /\ NotAttempted \notin {Absent, Pending} /\ Interrupted \notin {Absent, Pending}
  /\ \A o \in Answered : o \notin {Absent, Pending, NotAttempted, Interrupted}
  /\ Answered \subseteq Observed /\ {NotAttempted, Interrupted} \subseteq Observed
<1>1. Absent.state = "absent" /\ Pending.state = "pending"
  BY DEF Absent, Pending
<1>2. \A k : Unavailable(k).state = "unavailable" /\ Unavailable(k).kind = k
  BY DEF Unavailable
<1>3. \A f : Completed(f).state = "completed"
  BY DEF Completed
<1>4. NotAttempted # Interrupted
  <2>1. NotAttempted.kind = "not_attempted_budget_exhausted" /\ Interrupted.kind = "interrupted_unknown"
    BY <1>2, Zenon DEF NotAttempted, Interrupted
  <2>. QED
    BY <2>1
<1>5. NotAttempted.state = "unavailable" /\ Interrupted.state = "unavailable"
  BY <1>2, Zenon DEF NotAttempted, Interrupted
<1>6. ASSUME NEW o \in Answered PROVE o \notin {Absent, Pending, NotAttempted, Interrupted}
  <2>1. CASE \E f \in Answers : o = Completed(f)
    BY <1>1, <1>3, <1>5, <2>1
  <2>2. CASE \E k \in Failures : o = Unavailable(k)
    BY <1>1, <1>2, <2>2, AuditAssumption
  <2>. QED
    BY <2>1, <2>2 DEF Answered
<1>. QED
  BY <1>1, <1>4, <1>5, <1>6 DEF Answered, Observed

LEMMA PutIs ==
  ASSUME NEW c \in Campaigns, NEW obs \in Observations(c), NEW a \in Anchors, NEW s \in SlotSet(c),
         NEW o \in Observed \cup {Absent, Pending}
  PROVE  /\ Put(obs, a, s, o) \in Observations(c)
         /\ Put(obs, a, s, o)[a][s] = o
         /\ \A b \in Anchors, t \in SlotSet(c) : ~(b = a /\ t = s) => Put(obs, a, s, o)[b][t] = obs[b][t]
<1>1. PICK V : V = Observed \cup {Absent, Pending}
  OBVIOUS
<1>2. Observations(c) = [Anchors -> [SlotSet(c) -> V]] /\ o \in V
  BY <1>1 DEF Observations
<1>3. PICK S : S = SlotSet(c)
  OBVIOUS
<1>. QED
  BY <1>2, <1>3 DEF Put

LEMMA PerSlot ==
  ASSUME NEW c \in Campaigns, NEW obs,
         NEW W, obs = [a \in Anchors |-> [s \in SlotSet(c) |-> W[a][s]]],
         \A a \in Anchors, s \in SlotSet(c) : W[a][s] \in Observed \cup {Absent, Pending}
  PROVE  obs \in Observations(c)
BY DEF Observations

-----------------------------------------------------------------------------
LEMMA EntryNone ==
  ASSUME NEW c, NEW a, NEW s, asked[c] = <<>>
  PROVE  Entry(c, a, s) = {} /\ Entries(c) = {}
BY DEF Entry, Entries

LEMMA EntriesSame ==
  ASSUME NEW c, asked'[c] = asked[c]
  PROVE  Entries(c)' = Entries(c) /\ \A a, s : Entry(c, a, s)' = Entry(c, a, s)
BY DEF Entry, Entries

LEMMA EntriesGrow ==
  ASSUME NEW c \in Campaigns, asked[c] \in Seq(Questions(c)), NEW e \in Questions(c),
         asked'[c] = Append(asked[c], e)
  PROVE  /\ asked'[c] \in Seq(Questions(c)) /\ Len(asked'[c]) = Len(asked[c]) + 1
         /\ Entries(c)' = Entries(c) \cup {e}
         /\ \A a, s : /\ Entry(c, a, s) \subseteq Entry(c, a, s)'
                      /\ e.anchor = a /\ e.slot = s => e \in Entry(c, a, s)'
                      /\ ~(e.anchor = a /\ e.slot = s) => Entry(c, a, s)' = Entry(c, a, s)
<1>1. PICK Q : Q = Questions(c)
  OBVIOUS
<1>2. PICK old : old = asked[c]
  OBVIOUS
<1>3. PICK new : new = asked'[c]
  OBVIOUS
<1>4. old \in Seq(Q) /\ new = Append(old, e) /\ e \in Q
  BY <1>1, <1>2, <1>3
<1>5. /\ new \in Seq(Q) /\ Len(new) = Len(old) + 1 /\ Len(old) \in Nat
      /\ DOMAIN new = 1..Len(old) + 1 /\ DOMAIN old = 1..Len(old)
      /\ new[Len(old) + 1] = e /\ \A i \in 1..Len(old) : new[i] = old[i]
  BY <1>4
<1>6. Entries(c) = {old[i] : i \in DOMAIN old} /\ Entries(c)' = {new[i] : i \in DOMAIN new}
  BY <1>2, <1>3 DEF Entries
<1>7. Entries(c)' = Entries(c) \cup {e}
  BY <1>5, <1>6
<1>8. \A a, s : /\ Entry(c, a, s) = {x \in Entries(c) : x.anchor = a /\ x.slot = s}
                /\ Entry(c, a, s)' = {x \in Entries(c)' : x.anchor = a /\ x.slot = s}
  BY DEF Entry
<1>9. \A a, s : /\ Entry(c, a, s) \subseteq Entry(c, a, s)'
                /\ e.anchor = a /\ e.slot = s => e \in Entry(c, a, s)'
                /\ ~(e.anchor = a /\ e.slot = s) => Entry(c, a, s)' = Entry(c, a, s)
  <2> TAKE a, s
  <2>1. PICK A : A = Entry(c, a, s)
    OBVIOUS
  <2>2. PICK B : B = Entry(c, a, s)'
    OBVIOUS
  <2>3. PICK E : E = Entries(c)
    OBVIOUS
  <2>4. /\ \A x : x \in A <=> x \in E /\ x.anchor = a /\ x.slot = s
        /\ \A x : x \in B <=> (x \in E \/ x = e) /\ x.anchor = a /\ x.slot = s
    BY <1>7, <1>8, <2>1, <2>2, <2>3
  <2>5. A \subseteq B /\ (e.anchor = a /\ e.slot = s => e \in B)
    BY <2>4
  <2>6. ~(e.anchor = a /\ e.slot = s) => A = B
    BY <2>4
  <2>. QED
    BY <2>1, <2>2, <2>5, <2>6
<1>10. asked'[c] \in Seq(Questions(c)) /\ Len(asked'[c]) = Len(asked[c]) + 1
  BY <1>1, <1>2, <1>3, <1>5
<1>. QED
  BY <1>7, <1>9, <1>10

LEMMA NoEntry ==
  ASSUME NEW c \in Campaigns, asked[c] \in Seq(Questions(c)), NEW a, NEW s, Entry(c, a, s) = {}
  PROVE  \A i \in DOMAIN asked[c] : ~(asked[c][i].anchor = a /\ asked[c][i].slot = s)
BY DEF Entry, Entries

-----------------------------------------------------------------------------
(* A step of one campaign leaves the others as they are.                      *)
Same(d) ==
  /\ campaign'[d] = campaign[d] /\ run'[d] = run[d] /\ asked'[d] = asked[d]
  /\ checkpoint'[d] = checkpoint[d] /\ budget'[d] = budget[d]
  /\ observations'[d] = observations[d] /\ report'[d] = report[d]
Grows == OwnerInv' /\ reviewed \subseteq reviewed' /\ approved \subseteq approved'
SameFiles(c) == /\ checkpoint'[c] = checkpoint[c] /\ observations'[c] = observations[c]
                /\ report'[c] = report[c] /\ asked'[c] = asked[c]

LEMMA BoundSame ==
  ASSUME NEW c, observations'[c] = observations[c], report'[c] = report[c]
  PROVE  /\ Existing(c)' = Existing(c) /\ Sound(c)' = Sound(c)
         /\ campaign'[c].binding = campaign[c].binding => Bound(c)' = Bound(c)
         /\ BindingOf(c)' = BindingOf(c)
<1>1. Existing(c)' = Existing(c) /\ Sound(c)' = Sound(c)
  BY DEF Existing, Sound
<1>2. BindingOf(c)' = BindingOf(c)
  BY DEF BindingOf
<1>. QED
  BY <1>1, <1>2 DEF Bound

LEMMA FilesSame ==
  ASSUME NEW c, FilesInv(c), SameFiles(c)
  PROVE  FilesInv(c)'
BY BoundSame, EntriesSame DEF FilesInv, SameFiles, Truthful, Complete

LEMMA Elsewhere ==
  ASSUME NEW c \in Campaigns, CampaignInv(c), Same(c), Grows
  PROVE  CampaignInv(c)'
<1>1. CampaignTyped(c)'
  BY DEF CampaignInv, CampaignTyped, Same, Shaped, Reported
<1>2. FilesInv(c)'
  BY FilesSame DEF CampaignInv, Same, SameFiles
<1>3. BudgetInv(c)'
  BY DEF CampaignInv, BudgetInv, Same
<1>4. AskedInv(c)'
  BY EntriesSame DEF CampaignInv, AskedInv, Same, Grows
<1>5. CollectorInv(c)'
  BY EntriesSame, BoundSame DEF CampaignInv, CollectorInv, Same, Truthful, Settled, Complete, OnePending
<1>6. BindingInv(c)'
  BY BoundSame DEF CampaignInv, BindingInv, Same
<1>. QED
  BY <1>1, <1>2, <1>3, <1>4, <1>5, <1>6 DEF CampaignInv

LEMMA OwnStep ==
  ASSUME AuditInv, NEW c \in Campaigns, Functions', Grows, CampaignInv(c)',
         \A d \in Campaigns : d # c => Same(d)
  PROVE  AuditInv'
<1>1. ASSUME NEW d \in Campaigns, d # c PROVE CampaignInv(d)'
  BY <1>1, Elsewhere DEF AuditInv
<1>. QED
  BY <1>1 DEF AuditInv, Grows

-----------------------------------------------------------------------------
(* What the steps write.                                                      *)
Proc(l, v, obs, n, e) == [pc |-> l, version |-> v, collector |-> obs, count |-> n, exhausted |-> e]
Only(c, old, new) == /\ new = [d \in Campaigns |-> new[d]]
                     /\ \A d \in Campaigns : d # c => new[d] = old[d]

LEMMA WriteIs ==
  ASSUME NEW c \in Campaigns, NEW old, old = [d \in Campaigns |-> old[d]], NEW x, NEW new,
         new = [old EXCEPT ![c] = x]
  PROVE  new[c] = x /\ Only(c, old, new)
<1>1. DOMAIN old = Campaigns
  <2>1. PICK f : f = [d \in Campaigns |-> old[d]]
    OBVIOUS
  <2>2. DOMAIN f = Campaigns
    BY <2>1
  <2>. QED
    BY <2>1, <2>2
<1>2. new = [d \in Campaigns |-> IF d = c THEN x ELSE old[d]]
  BY <1>1
<1>3. \A d \in Campaigns : new[d] = IF d = c THEN x ELSE old[d]
  BY <1>2
<1>4. new = [d \in Campaigns |-> new[d]]
  <2>1. PICK g : g = [d \in Campaigns |-> IF d = c THEN x ELSE old[d]]
    OBVIOUS
  <2>2. g = [d \in Campaigns |-> g[d]]
    BY <2>1
  <2>. QED
    BY <1>2, <2>1, <2>2
<1>. QED
  BY <1>3, <1>4 DEF Only

LEMMA UnwrittenIs ==
  ASSUME NEW c, NEW old, old = [d \in Campaigns |-> old[d]], NEW new, new = old
  PROVE  Only(c, old, new)
BY DEF Only

LEMMA ProcessIs ==
  ASSUME NEW c \in Campaigns, CampaignTyped(c), run[c].pc # "idle"
  PROVE  /\ run[c] \in Processes(c) /\ run[c] # Idle
         /\ run[c] = Proc(run[c].pc, run[c].version, run[c].collector, run[c].count, run[c].exhausted)
         /\ run[c].pc \in Points /\ run[c].version \in Versions /\ run[c].collector \in Observations(c)
         /\ run[c].count \in 0..MaxCalls[c] /\ run[c].exhausted \in BOOLEAN
BY DEF CampaignTyped, Processes, Idle, Proc

LEMMA ProcIs ==
  ASSUME NEW c, NEW l \in Points, NEW v \in Versions, NEW obs \in Observations(c),
         NEW n \in 0..MaxCalls[c], NEW e \in BOOLEAN
  PROVE  /\ Proc(l, v, obs, n, e) \in Processes(c)
         /\ Proc(l, v, obs, n, e).pc = l /\ Proc(l, v, obs, n, e).version = v
         /\ Proc(l, v, obs, n, e).collector = obs /\ Proc(l, v, obs, n, e).count = n
BY DEF Proc, Processes

LEMMA ProcIsBusy ==
  ASSUME NEW l \in Points, NEW v, NEW obs, NEW n, NEW e
  PROVE  Proc(l, v, obs, n, e) # Idle
<1>1. l # "idle"
  BY DEF Points, Writing
<1>2. Proc(l, v, obs, n, e).pc = l /\ Idle.pc = "idle"
  BY DEF Proc, Idle
<1>. QED
  BY <1>1, <1>2

LEMMA StateIs ==
  ASSUME NEW c \in Campaigns, Functions, Shaped(campaign[c]), NEW x,
         campaign' = [campaign EXCEPT ![c].state = x]
  PROVE  /\ campaign'[c] = [state |-> x, version |-> campaign[c].version, binding |-> campaign[c].binding]
         /\ campaign'[c].state = x /\ campaign'[c].version = campaign[c].version
         /\ campaign'[c].binding = campaign[c].binding
         /\ Shaped(campaign'[c]) /\ Only(c, campaign, campaign')
<1>1. PICK r : r = campaign[c]
  OBVIOUS
<1>2. PICK q : q = [r EXCEPT !.state = x]
  OBVIOUS
<1>3. r = [state |-> r.state, version |-> r.version, binding |-> r.binding]
  BY <1>1 DEF Shaped
<1>4. q = [state |-> x, version |-> r.version, binding |-> r.binding]
  BY <1>2, <1>3
<1>5. campaign' = [campaign EXCEPT ![c] = q]
  BY <1>1, <1>2
<1>6. campaign'[c] = q /\ Only(c, campaign, campaign')
  BY <1>5, WriteIs DEF Functions
<1>. QED
  BY <1>1, <1>4, <1>6 DEF Shaped

LEMMA AllOnly ==
  ASSUME NEW c \in Campaigns, Only(c, campaign, campaign'), Only(c, run, run'),
         Only(c, checkpoint, checkpoint'), Only(c, budget, budget'),
         Only(c, observations, observations'), Only(c, report, report'), Only(c, asked, asked')
  PROVE  Functions' /\ \A d \in Campaigns : d # c => Same(d)
BY DEF Only, Functions, Same

OnlyWrites(c) ==
  /\ Only(c, campaign, campaign') /\ Only(c, run, run') /\ Only(c, checkpoint, checkpoint')
  /\ Only(c, budget, budget') /\ Only(c, observations, observations')
  /\ Only(c, report, report') /\ Only(c, asked, asked')

LEMMA CampaignStep ==
  ASSUME AuditInv, NEW c \in Campaigns, OnlyWrites(c), Grows, CampaignInv(c)'
  PROVE  AuditInv'
BY AllOnly, OwnStep DEF OnlyWrites

LEMMA OwnerSame ==
  ASSUME AuditInv, UNCHANGED owner,
         faults' = faults \/ faults' \in [write : 0..MaxFaults, kill : 0..MaxKills, edit : 0..MaxEdits]
  PROVE  Grows
BY DEF AuditInv, OwnerInv, Grows, owner

LEMMA Unwritten ==
  ASSUME AuditInv, NEW c \in Campaigns
  PROVE  /\ campaign' = campaign => Only(c, campaign, campaign')
         /\ run' = run => Only(c, run, run')
         /\ checkpoint' = checkpoint => Only(c, checkpoint, checkpoint')
         /\ budget' = budget => Only(c, budget, budget')
         /\ observations' = observations => Only(c, observations, observations')
         /\ report' = report => Only(c, report, report')
         /\ asked' = asked => Only(c, asked, asked')
BY UnwrittenIs DEF AuditInv, Functions

LEMMA BindingSame ==
  ASSUME NEW c, BindingInv(c), observations'[c] = observations[c], report'[c] = report[c],
         campaign'[c].binding = campaign[c].binding
  PROVE  BindingInv(c)'
BY BoundSame DEF BindingInv

LEMMA AskedSame ==
  ASSUME NEW c \in Campaigns, AskedInv(c), Grows, asked'[c] = asked[c],
         campaign'[c].version = campaign[c].version,
         campaign[c].state # "absent" => campaign'[c].state # "absent",
         run'[c] # Idle => /\ run'[c].version = campaign[c].version /\ campaign[c].state # "absent"
                           /\ run'[c].pc # "approval" => run'[c].version \in approved,
         run'[c] = Idle => run'[c].pc = "idle"
  PROVE  AskedInv(c)'
<1>1. \A e \in Entries(c)' : e.version \in reviewed' /\ e.version = campaign'[c].version
  BY EntriesSame DEF AskedInv, Grows
<1>2. \A i, j \in DOMAIN asked'[c] :
       asked'[c][i].anchor = asked'[c][j].anchor /\ asked'[c][i].slot = asked'[c][j].slot => i = j
  BY DEF AskedInv
<1>3. asked'[c] # <<>> => campaign'[c].state # "absent"
  BY DEF AskedInv
<1>4. run'[c] # Idle => run'[c].version = campaign'[c].version /\ campaign'[c].state # "absent"
  OBVIOUS
<1>5. run'[c].pc \notin {"idle", "approval"} => run'[c].version \in approved'
  <2>1. approved \subseteq approved'
    BY DEF Grows
  <2>. QED
    BY <2>1
<1>. QED
  BY <1>1, <1>2, <1>3, <1>4, <1>5 DEF AskedInv

-----------------------------------------------------------------------------
(* The command ends, and campaign.json may have become failed or ended.       *)
LEMMA StopStep ==
  ASSUME AuditInv, NEW c \in Campaigns, run[c] # Idle, run' = [run EXCEPT ![c] = Idle],
         campaign' = campaign \/ (\E x \in {"failed", "ended"} : campaign' = [campaign EXCEPT ![c].state = x]),
         UNCHANGED <<files, asked>>, Grows
  PROVE  AuditInv'
<1>1. CampaignInv(c) /\ Functions
  BY DEF AuditInv
<1>2. run'[c] = Idle /\ Only(c, run, run') /\ Idle.pc = "idle"
  BY <1>1, WriteIs DEF Functions, Idle
<1>3. /\ campaign'[c].version = campaign[c].version /\ campaign'[c].binding = campaign[c].binding
      /\ campaign'[c].state \in {campaign[c].state, "failed", "ended"}
      /\ Shaped(campaign'[c]) /\ Only(c, campaign, campaign')
  <2>1. CASE campaign' = campaign
    BY <1>1, <2>1, Unwritten DEF CampaignInv, CampaignTyped
  <2>2. CASE \E x \in {"failed", "ended"} : campaign' = [campaign EXCEPT ![c].state = x]
    BY <1>1, <2>2, StateIs DEF CampaignInv, CampaignTyped
  <2>. QED
    BY <2>1, <2>2
<1>4. OnlyWrites(c)
  BY <1>2, <1>3, Unwritten DEF OnlyWrites, files
<1>5. CampaignTyped(c)'
  <2>1. campaign'[c].state \in States
    BY <1>1, <1>3 DEF CampaignInv, CampaignTyped, States
  <2>. QED
    BY <1>1, <1>2, <1>3, <2>1 DEF CampaignInv, CampaignTyped, files, Reported
<1>6. FilesInv(c)'
  BY <1>1, FilesSame DEF CampaignInv, SameFiles, files
<1>7. BudgetInv(c)'
  BY <1>1, <1>2 DEF CampaignInv, BudgetInv, files
<1>8. AskedInv(c)'
  BY <1>1, <1>2, <1>3, AskedSame DEF CampaignInv
<1>9. CollectorInv(c)'
  BY <1>2 DEF CollectorInv, Collecting
<1>10. BindingInv(c)'
  BY <1>1, <1>3, BindingSame DEF CampaignInv, files
<1>11. CampaignInv(c)'
  BY <1>5, <1>6, <1>7, <1>8, <1>9, <1>10 DEF CampaignInv
<1>. QED
  BY <1>4, <1>11, CampaignStep

(* The process goes on to another step, and nothing else changes.             *)
LEMMA MoveIs ==
  ASSUME AuditInv, NEW c \in Campaigns, run[c].pc # "idle", NEW l \in Points,
         run' = [run EXCEPT ![c].pc = l], UNCHANGED <<campaign, files, asked>>, Grows
  PROVE  /\ OnlyWrites(c) /\ CampaignTyped(c)' /\ FilesInv(c)' /\ BindingInv(c)'
         /\ run'[c].pc = l /\ run'[c].version = run[c].version
         /\ run'[c].collector = run[c].collector /\ run'[c].count = run[c].count
         /\ run'[c] # Idle
<1>1. CampaignInv(c) /\ Functions
  BY DEF AuditInv
<1>2. PICK r \in Processes(c) : r = run[c]
  BY <1>1, ProcessIs DEF CampaignInv
<1>3. PICK q : q = [r EXCEPT !.pc = l]
  OBVIOUS
<1>4. /\ q \in Processes(c) /\ q.pc = l /\ q.version = r.version /\ q.collector = r.collector
      /\ q.count = r.count
  BY <1>3 DEF Processes
<1>5. run' = [run EXCEPT ![c] = q]
  BY <1>2, <1>3
<1>6. run'[c] = q /\ Only(c, run, run')
  BY <1>1, <1>5, WriteIs DEF Functions
<1>7. q # Idle
  <2>1. l # "idle" /\ Idle.pc = "idle"
    BY DEF Points, Writing, Idle
  <2>. QED
    BY <1>4, <2>1
<1>8. OnlyWrites(c)
  BY <1>6, Unwritten DEF OnlyWrites, files
<1>9. CampaignTyped(c)'
  BY <1>1, <1>4, <1>6 DEF CampaignInv, CampaignTyped, files, Reported, Shaped
<1>10. FilesInv(c)'
  BY <1>1, FilesSame DEF CampaignInv, SameFiles, files
<1>11. BindingInv(c)'
  BY <1>1, BindingSame DEF CampaignInv, files
<1>. QED
  BY <1>2, <1>4, <1>6, <1>7, <1>8, <1>9, <1>10, <1>11

-----------------------------------------------------------------------------
(* The owner's commands touch no campaign.                                    *)
LEMMA OwnerStep ==
  ASSUME AuditInv, Preview \/ Approve \/ EditAnchors
  PROVE  AuditInv'
<1>1. UNCHANGED <<campaign, files, run, asked>>
  BY DEF Preview, Approve, EditAnchors
<1>2. Grows
  <2>1. CASE Preview
    BY <2>1 DEF Preview, Grows, AuditInv, OwnerInv
  <2>2. CASE Approve
    BY <2>2 DEF Approve, Grows, AuditInv, OwnerInv
  <2>3. CASE EditAnchors
    <3>1. faults' \in [write : 0..MaxFaults, kill : 0..MaxKills, edit : 0..MaxEdits]
      BY <2>3, AuditAssumption DEF EditAnchors, AuditInv, OwnerInv
    <3>. QED
      BY <2>3, <3>1 DEF EditAnchors, Grows, AuditInv, OwnerInv
  <2>. QED
    BY <2>1, <2>2, <2>3
<1>3. Functions'
  BY <1>1 DEF AuditInv, Functions, files
<1>4. \A d \in Campaigns : CampaignInv(d)'
  <2> SUFFICES ASSUME NEW d \in Campaigns PROVE CampaignInv(d)'
    OBVIOUS
  <2>1. Same(d)
    BY <1>1 DEF Same, files
  <2>. QED
    BY <1>2, <2>1, Elsewhere DEF AuditInv
<1>. QED
  BY <1>2, <1>3, <1>4 DEF AuditInv, Grows

LEMMA ProcessTyped ==
  ASSUME NEW c \in Campaigns, sources \in Versions
  PROVE  /\ Process(c) \in Processes(c) /\ Process(c).pc = "approval" /\ Process(c).version = sources
         /\ Process(c) # Idle /\ Fresh(c) \in Observations(c)
         /\ \A a \in Anchors, s \in SlotSet(c) : Fresh(c)[a][s] = Absent
<1>1. \A a \in Anchors, s \in SlotSet(c) : Fresh(c)[a][s] = Absent
  BY DEF Fresh
<1>2. Fresh(c) \in Observations(c)
  BY DEF Fresh, Observations
<1>3. 0 \in 0..MaxCalls[c] /\ "approval" \in Points
  BY AuditAssumption DEF Points
<1>4. Process(c) = Proc("approval", sources, Fresh(c), 0, FALSE)
  BY DEF Process, Proc
<1>5. PICK fresh : fresh = Fresh(c)
  OBVIOUS
<1>6. PICK version : version = sources
  OBVIOUS
<1>7. PICK r : r = Proc("approval", version, fresh, 0, FALSE)
  OBVIOUS
<1>8. r \in Processes(c) /\ r.pc = "approval" /\ r.version = version
  <2>1. fresh \in Observations(c) /\ version \in Versions /\ FALSE \in BOOLEAN
    BY <1>2, <1>5, <1>6
  <2>. QED
    BY <1>3, <1>7, <2>1 DEF Proc, Processes
<1>9. r # Idle
  BY <1>3, <1>7, ProcIsBusy
<1>10. Process(c) = r
  BY <1>4, <1>5, <1>6, <1>7
<1>. QED
  BY <1>1, <1>2, <1>6, <1>8, <1>9, <1>10

LEMMA StartStep ==
  ASSUME AuditInv, NEW c \in Campaigns, Start(c) \/ Resume(c)
  PROVE  AuditInv'
<1>1. CampaignInv(c) /\ Functions /\ sources \in Versions
  BY DEF AuditInv, OwnerInv
<1>2. Grows
  BY OwnerSame DEF Start, Resume, World
<1>3. run[c] = Idle /\ Process(c).pc = "approval" /\ Process(c).version = sources
  BY <1>1, ProcessTyped DEF Start, Resume, Quiet
<1>4. run'[c] = Process(c) /\ Only(c, run, run')
  <2>1. run' = [run EXCEPT ![c] = Process(c)]
    BY DEF Start, Resume
  <2>. QED
    BY <1>1, <2>1, WriteIs DEF Functions
<1>5. UNCHANGED files /\ asked' = asked
  BY DEF Start, Resume, World
<1>6. /\ Shaped(campaign'[c]) /\ campaign'[c].state \in States \ {"absent"}
      /\ campaign'[c].version = sources /\ campaign'[c].binding = campaign[c].binding
      /\ Only(c, campaign, campaign')
      /\ asked[c] # <<>> => campaign'[c].version = campaign[c].version
  <2>1. CASE Start(c)
    <3>1. PICK r : r = campaign[c]
      OBVIOUS
    <3>2. r = [state |-> r.state, version |-> r.version, binding |-> r.binding] /\ r.state = "absent"
      BY <1>1, <2>1, <3>1 DEF CampaignInv, CampaignTyped, Shaped, Start
    <3>3. PICK q : q = [r EXCEPT !.state = "running", !.version = sources]
      OBVIOUS
    <3>4. q = [state |-> "running", version |-> sources, binding |-> r.binding]
      BY <3>2, <3>3
    <3>5. campaign' = [campaign EXCEPT ![c] = q]
      BY <2>1, <3>1, <3>3 DEF Start
    <3>6. campaign'[c] = q /\ Only(c, campaign, campaign')
      BY <1>1, <3>5, WriteIs DEF Functions
    <3>7. asked[c] = <<>>
      BY <1>1, <3>1, <3>2 DEF CampaignInv, AskedInv
    <3>. QED
      BY <3>1, <3>4, <3>6, <3>7 DEF Shaped, States
  <2>2. CASE Resume(c)
    <3>1. campaign' = campaign /\ campaign[c].state = "failed" /\ campaign[c].version = sources
      BY <2>2 DEF Resume
    <3>. QED
      BY <1>1, <3>1, Unwritten DEF CampaignInv, CampaignTyped, States
  <2>. QED
    BY <2>1, <2>2
<1>7. OnlyWrites(c)
  BY <1>4, <1>5, <1>6, Unwritten DEF OnlyWrites, files
<1>8. CampaignTyped(c)'
  BY <1>1, <1>4, <1>5, <1>6, ProcessTyped DEF CampaignInv, CampaignTyped, files, Reported
<1>9. FilesInv(c)'
  BY <1>1, <1>5, FilesSame DEF CampaignInv, SameFiles, files
<1>10. BudgetInv(c)'
  BY <1>1, <1>3, <1>4, <1>5 DEF CampaignInv, BudgetInv, files
<1>11. AskedInv(c)'
  <2>1. CASE asked[c] = <<>>
    <3>1. asked'[c] = <<>> /\ Entries(c)' = {}
      BY <1>5, <2>1, EntriesSame, EntryNone
    <3>2. DOMAIN asked'[c] = {}
      BY <3>1
    <3>. QED
      BY <1>3, <1>4, <1>6, <3>1, <3>2 DEF AskedInv
  <2>2. CASE asked[c] # <<>>
    <3>1. campaign'[c].version = campaign[c].version /\ campaign'[c].state # "absent"
          /\ campaign[c].state # "absent"
      BY <1>1, <1>6, <2>2 DEF CampaignInv, AskedInv
    <3>2. run'[c].version = campaign[c].version /\ run'[c].pc = "approval" /\ run'[c] # Idle
      BY <1>1, <1>3, <1>4, <1>6, <3>1, ProcessTyped
    <3>. QED
      BY <1>1, <1>2, <1>5, <3>1, <3>2, AskedSame DEF CampaignInv
  <2>. QED
    BY <2>1, <2>2
<1>12. CollectorInv(c)'
  BY <1>3, <1>4 DEF CollectorInv, Collecting
<1>13. BindingInv(c)'
  BY <1>1, <1>5, <1>6, BindingSame DEF CampaignInv, files
<1>. QED
  BY <1>2, <1>7, <1>8, <1>9, <1>10, <1>11, <1>12, <1>13, CampaignStep DEF CampaignInv

LEMMA StopSteps ==
  ASSUME AuditInv, NEW c \in Campaigns,
         \/ Violate(c) \/ Conclude(c) \/ RoundsFail(c) \/ WriteFails(c) \/ Kill(c)
         \/ CheckApproval(c) /\ run[c].version \notin approved
  PROVE  AuditInv'
<1>1. run[c] # Idle
  <2>1. run[c].pc # "idle" => run[c] # Idle
    BY DEF Idle
  <2>2. run[c].pc # "idle" \/ Kill(c)
    BY DEF Violate, Conclude, RoundsFail, WriteFails, Writes, CheckApproval, At
  <2>. QED
    BY <2>1, <2>2 DEF Kill
<1>2. run' = [run EXCEPT ![c] = Idle]
  BY DEF Violate, Conclude, RoundsFail, WriteFails, Kill, CheckApproval, Fail
<1>3. campaign' = campaign \/ (\E x \in {"failed", "ended"} : campaign' = [campaign EXCEPT ![c].state = x])
  BY DEF Violate, Conclude, RoundsFail, WriteFails, Kill, CheckApproval, Fail
<1>4. UNCHANGED <<files, asked, owner>>
  BY DEF Violate, Conclude, RoundsFail, WriteFails, Kill, CheckApproval, World
<1>5. faults' = faults \/ faults' \in [write : 0..MaxFaults, kill : 0..MaxKills, edit : 0..MaxEdits]
  <2>1. faults \in [write : 0..MaxFaults, kill : 0..MaxKills, edit : 0..MaxEdits]
    BY DEF AuditInv, OwnerInv
  <2>2. CASE RoundsFail(c) \/ WriteFails(c)
    <3>1. faults.write < MaxFaults /\ faults' = [faults EXCEPT !.write = @ + 1]
      BY <2>2 DEF RoundsFail, WriteFails
    <3>2. MaxFaults \in Nat
      BY AuditAssumption
    <3>. QED
      BY <2>1, <3>1, <3>2
  <2>3. CASE Kill(c)
    <3>1. faults.kill < MaxKills /\ faults' = [faults EXCEPT !.kill = @ + 1]
      BY <2>3 DEF Kill
    <3>. QED
      BY <2>1, <3>1, AuditAssumption
  <2>4. CASE Violate(c) \/ Conclude(c) \/ CheckApproval(c)
    BY <2>4 DEF Violate, Conclude, CheckApproval, World
  <2>. QED
    BY <2>2, <2>3, <2>4
<1>6. Grows
  BY <1>4, <1>5, OwnerSame
<1>. QED
  BY <1>1, <1>2, <1>3, <1>4, <1>6, StopStep

LEMMA MoveSteps ==
  ASSUME AuditInv, NEW c \in Campaigns,
         \/ CheckApproval(c) /\ run[c].version \in approved
         \/ Rebind(c) \/ Reload(c) \/ Finish(c)
  PROVE  AuditInv'
<1>1. CampaignInv(c) /\ Functions
  BY DEF AuditInv
<1>2. run[c].pc \in {"approval", "load", "reloading", "loop"}
  BY DEF CheckApproval, Rebind, Reload, Finish, At
<1>3. UNCHANGED <<campaign, files, asked>> /\ Grows
  BY OwnerSame DEF CheckApproval, Rebind, Reload, Finish, World, Goto, Fail
<1>4. PICK l \in {"load", "bind", "report"} : run' = [run EXCEPT ![c].pc = l]
  BY DEF CheckApproval, Rebind, Reload, Finish, Goto
<1>5. /\ OnlyWrites(c) /\ CampaignTyped(c)' /\ FilesInv(c)' /\ BindingInv(c)'
      /\ run'[c].pc = l /\ run'[c].version = run[c].version
      /\ run'[c].collector = run[c].collector /\ run'[c].count = run[c].count
      /\ run'[c] # Idle
  <2>1. l \in Points /\ run[c].pc # "idle"
    BY <1>2 DEF Points, Writing
  <2>. QED
    BY <1>3, <1>4, <2>1, MoveIs
<1>6. run[c] # Idle
  BY <1>2 DEF Idle
<1>7. BudgetInv(c)'
  BY <1>1, <1>3, <1>5 DEF CampaignInv, BudgetInv, files
<1>8. AskedInv(c)'
  <2>1. run[c].version \in approved
    BY <1>1, <1>2 DEF CampaignInv, AskedInv, CheckApproval, Rebind, Reload, Finish, At
  <2>2. run[c].version = campaign[c].version /\ campaign[c].state # "absent"
    BY <1>1, <1>6 DEF CampaignInv, AskedInv
  <2>. QED
    BY <1>1, <1>3, <1>5, <2>1, <2>2, AskedSame DEF CampaignInv
<1>9. CollectorInv(c)'
  <2>1. CASE CheckApproval(c) /\ run[c].version \in approved
    <3>1. l = "load"
      <4>1. run' = [run EXCEPT ![c].pc = "load"]
        BY <2>1 DEF CheckApproval, Goto
      <4>2. "load" \in Points /\ run[c].pc # "idle"
        BY <1>2 DEF Points, Writing
      <4>3. run'[c].pc = "load"
        BY <1>3, <4>1, <4>2, MoveIs
      <4>. QED
        BY <1>5, <4>3
    <3>. QED
      BY <1>5, <3>1 DEF CollectorInv, Collecting
  <2>2. CASE Rebind(c) \/ Reload(c)
    <3>1. l = "bind" /\ Sound(c)
      <4>1. run' = [run EXCEPT ![c].pc = "bind"] /\ Sound(c)
        BY <2>2 DEF Rebind, Reload, Goto
      <4>2. "bind" \in Points /\ run[c].pc # "idle"
        BY <1>2 DEF Points, Writing
      <4>3. run'[c].pc = "bind"
        BY <1>3, <4>1, <4>2, MoveIs
      <4>. QED
        BY <1>5, <4>1, <4>3
    <3>2. Sound(c)'
      BY <1>3, <3>1, BoundSame DEF files
    <3>. QED
      BY <1>5, <3>1, <3>2 DEF CollectorInv, Collecting
  <2>3. CASE Finish(c)
    <3>1. l = "report"
      <4>1. run' = [run EXCEPT ![c].pc = "report"]
        BY <2>3 DEF Finish, Goto
      <4>2. "report" \in Points /\ run[c].pc # "idle"
        BY <1>2 DEF Points, Writing
      <4>3. run'[c].pc = "report"
        BY <1>3, <4>1, <4>2, MoveIs
      <4>. QED
        BY <1>5, <4>3
    <3>2. /\ run[c].pc = "loop" /\ campaign[c].binding = NoFile /\ checkpoint[c] # NoFile
          /\ Truthful(c, run[c].collector) /\ checkpoint[c] = run[c].collector
          /\ Settled(c, run[c].collector)
      BY <1>1, <2>3 DEF Finish, At, CampaignInv, CollectorInv, Collecting
    <3>3. Complete(c, run[c].collector)
      <4>1. \A a \in Anchors, s \in SlotSet(c) : run[c].collector[a][s] # Absent
        <5>1. PICK obs : obs = run[c].collector
          OBVIOUS
        <5>2. Remaining(c, obs) = {}
          BY <2>3, <5>1 DEF Finish
        <5>3. \A a \in Anchors, s \in SlotSet(c) : obs[a][s] # Absent
          BY <5>2, RemainingIs
        <5>. QED
          BY <5>1, <5>3
      <4>2. Settled(c, run[c].collector)
        BY <3>2
      <4>. QED
        BY <4>1, <4>2 DEF Settled, Complete
    <3>4. Truthful(c, run[c].collector)'
      <4>1. PICK obs : obs = run[c].collector
        OBVIOUS
      <4>2. run'[c].collector = obs /\ Truthful(c, obs)
        BY <1>5, <3>2, <4>1
      <4>3. \A a \in Anchors, s \in SlotSet(c) : Entry(c, a, s)' = Entry(c, a, s)
        BY <1>3, EntriesSame
      <4>. QED
        BY <4>2, <4>3 DEF Truthful
    <3>5. Settled(c, run[c].collector)' /\ Complete(c, run[c].collector)'
      BY <1>5, <3>2, <3>3 DEF Settled, Complete
    <3>6. /\ campaign'[c].binding = NoFile /\ checkpoint'[c] # NoFile
          /\ checkpoint'[c] = run'[c].collector
      BY <1>3, <1>5, <3>2 DEF files
    <3>. QED
      BY <1>5, <3>1, <3>4, <3>5, <3>6 DEF CollectorInv, Collecting
  <2>. QED
    BY <2>1, <2>2, <2>3
<1>. QED
  BY <1>3, <1>5, <1>7, <1>8, <1>9, CampaignStep DEF CampaignInv

-----------------------------------------------------------------------------
(* A process that writes its checkpoint or its budget.                        *)
LEMMA RunWrite ==
  ASSUME AuditInv, NEW c \in Campaigns, run[c].pc # "idle", NEW q \in Processes(c),
         run' = [run EXCEPT ![c] = q]
  PROVE  run'[c] = q /\ run'[c] # Idle /\ run[c] # Idle /\ Only(c, run, run')
<1>1. run'[c] = q /\ Only(c, run, run')
  BY WriteIs DEF AuditInv, Functions
<1>2. q # Idle
  <2>1. q.pc \in Points /\ Idle.pc = "idle" /\ "idle" \notin Points
    BY DEF Processes, Idle, Points, Writing
  <2>. QED
    BY <2>1
<1>3. run[c] # Idle
  BY DEF Idle
<1>. QED
  BY <1>1, <1>2, <1>3

LEMMA TruthfulStays ==
  ASSUME NEW c, asked'[c] = asked[c], NEW obs, Truthful(c, obs)
  PROVE  Truthful(c, obs)'
BY EntriesSame DEF Truthful

LEMMA ObservationsAre ==
  ASSUME NEW c \in Campaigns, NEW obs \in Observations(c)
  PROVE  /\ obs # NoFile /\ obs = [a \in Anchors |-> [s \in SlotSet(c) |-> obs[a][s]]]
         /\ \A a \in Anchors, s \in SlotSet(c) : obs[a][s] \in Observed \cup {Absent, Pending}
<1>1. obs # NoFile
  BY AuditAssumption
<1>2. PICK V : V = Observed \cup {Absent, Pending}
  OBVIOUS
<1>3. PICK S : S = SlotSet(c)
  OBVIOUS
<1>4. obs \in [Anchors -> [S -> V]]
  BY <1>2, <1>3 DEF Observations
<1>5. obs = [a \in Anchors |-> [s \in S |-> obs[a][s]]] /\ \A a \in Anchors, s \in S : obs[a][s] \in V
  BY <1>4
<1>. QED
  BY <1>1, <1>2, <1>3, <1>5

LEMMA CollectedIs ==
  ASSUME NEW c \in Campaigns, CampaignInv(c), ~Existing(c), NEW obs, obs = Collected(c)
  PROVE  /\ obs \in Observations(c) /\ obs # NoFile /\ Settled(c, obs) /\ Truthful(c, obs)
         /\ observations[c] # NoFile => obs = observations[c]
         /\ campaign[c].binding = NoFile
<1>1. CampaignTyped(c) /\ FilesInv(c) /\ BindingInv(c)
  BY DEF CampaignInv
<1>2. campaign[c].binding = NoFile
  BY <1>1 DEF BindingInv, Bound, Sound
<1>3. CASE checkpoint[c] = NoFile
  <2>1. obs = Fresh(c) /\ asked[c] = <<>> /\ observations[c] = NoFile
    BY <1>1, <1>3 DEF Collected, FilesInv
  <2>2. obs \in Observations(c) /\ \A a \in Anchors, s \in SlotSet(c) : obs[a][s] = Absent
    <3>1. \A a \in Anchors, s \in SlotSet(c) : Fresh(c)[a][s] = Absent
      BY DEF Fresh
    <3>2. Fresh(c) \in Observations(c)
      BY DEF Fresh, Observations
    <3>. QED
      BY <2>1, <3>1, <3>2
  <2>3. Settled(c, obs)
    BY <2>2, ValuesDiffer DEF Settled
  <2>4. Truthful(c, obs)
    BY <2>1, <2>2, EntryNone DEF Truthful
  <2>. QED
    BY <1>2, <2>1, <2>2, <2>3, <2>4, ObservationsAre
<1>4. CASE checkpoint[c] # NoFile
  <2>0. PICK old : old = checkpoint[c]
    OBVIOUS
  <2>1. old \in Observations(c) /\ Truthful(c, old)
    BY <1>1, <1>4, <2>0 DEF CampaignTyped, FilesInv
  <2>2. PICK W : W = [a \in Anchors |-> [s \in SlotSet(c) |->
                       IF old[a][s] = Pending THEN Interrupted ELSE old[a][s]]]
    OBVIOUS
  <2>3. obs = W
    BY <1>4, <2>0, <2>2 DEF Collected, Loaded
  <2>4. \A a \in Anchors, s \in SlotSet(c) :
          W[a][s] = IF old[a][s] = Pending THEN Interrupted ELSE old[a][s]
    BY <2>2
  <2>5. \A a \in Anchors, s \in SlotSet(c) : old[a][s] \in Observed \cup {Absent, Pending}
    BY <2>1, ObservationsAre
  <2>6. \A a \in Anchors, s \in SlotSet(c) : W[a][s] \in Observed \cup {Absent, Pending} /\ W[a][s] # Pending
    BY <2>4, <2>5, ValuesDiffer
  <2>7. W = [a \in Anchors |-> [s \in SlotSet(c) |-> W[a][s]]]
    BY <2>2, <2>4
  <2>8. obs \in Observations(c)
    BY <2>3, <2>6, <2>7, PerSlot
  <2>9. Settled(c, obs)
    BY <2>3, <2>6 DEF Settled
  <2>10. Truthful(c, obs)
    <3> SUFFICES ASSUME NEW a \in Anchors, NEW s \in SlotSet(c)
                 PROVE  /\ W[a][s] \in {Absent, NotAttempted} => Entry(c, a, s) = {}
                        /\ W[a][s] \notin {Absent, Pending, NotAttempted, Interrupted}
                             => \E e \in Entry(c, a, s) : e.answer = W[a][s]
      BY <2>3 DEF Truthful
    <3>1. CASE old[a][s] = Pending
      BY <2>4, <3>1, ValuesDiffer
    <3>2. CASE old[a][s] # Pending
      <4>1. W[a][s] = old[a][s]
        BY <2>4, <3>2
      <4>. QED
        BY <2>1, <4>1 DEF Truthful
    <3>. QED
      BY <3>1, <3>2
  <2>11. ASSUME observations[c] # NoFile PROVE obs = observations[c]
    <3>1. old = observations[c] /\ Complete(c, old)
      BY <1>1, <1>4, <2>0, <2>11 DEF FilesInv
    <3>2. \A a \in Anchors, s \in SlotSet(c) : W[a][s] = old[a][s]
      BY <2>4, <3>1 DEF Complete
    <3>3. old = [a \in Anchors |-> [s \in SlotSet(c) |-> old[a][s]]]
      BY <2>1, ObservationsAre
    <3>4. W = old
      BY <2>7, <3>2, <3>3
    <3>. QED
      BY <2>3, <3>1, <3>4
  <2>. QED
    BY <1>2, <2>8, <2>9, <2>10, <2>11, ObservationsAre
<1>. QED
  BY <1>3, <1>4

LEMMA WorkStep ==
  ASSUME AuditInv, NEW c \in Campaigns, run[c].pc \notin {"idle", "approval"},
         NEW q \in Processes(c), run' = [run EXCEPT ![c] = q], q.version = run[c].version,
         UNCHANGED <<campaign, observations, report, asked>>, Grows,
         checkpoint'[c] \in Observations(c) \cup {NoFile}, Only(c, checkpoint, checkpoint'),
         budget'[c] \in 0..MaxCalls[c] \cup {NoFile}, Only(c, budget, budget')
  PROVE  /\ OnlyWrites(c) /\ CampaignTyped(c)' /\ AskedInv(c)' /\ BindingInv(c)' /\ run'[c] = q
<1>1. CampaignInv(c)
  BY DEF AuditInv
<1>2. run'[c] = q /\ run'[c] # Idle /\ run[c] # Idle /\ Only(c, run, run')
  BY RunWrite
<1>3. OnlyWrites(c)
  BY <1>2, Unwritten DEF OnlyWrites
<1>4. CampaignTyped(c)'
  BY <1>1, <1>2 DEF CampaignInv, CampaignTyped, Reported, Shaped
<1>5. AskedInv(c)'
  <2>1. /\ run[c].version = campaign[c].version /\ campaign[c].state # "absent"
        /\ run[c].version \in approved
    BY <1>1, <1>2 DEF CampaignInv, AskedInv
  <2>. QED
    BY <1>1, <1>2, <2>1, AskedSame DEF CampaignInv
<1>6. BindingInv(c)'
  BY <1>1, BindingSame DEF CampaignInv
<1>. QED
  BY <1>2, <1>3, <1>4, <1>5, <1>6

LEMMA LoadStep ==
  ASSUME AuditInv, NEW c \in Campaigns, Load(c)
  PROVE  AuditInv'
<1>1. CampaignInv(c) /\ Functions
  BY DEF AuditInv
<1>2. run[c].pc = "load" /\ ~Existing(c)
  BY DEF Load, At
<1>3. PICK obs : obs = Collected(c)
  OBVIOUS
<1>4. /\ obs \in Observations(c) /\ obs # NoFile /\ Settled(c, obs) /\ Truthful(c, obs)
      /\ observations[c] # NoFile => obs = observations[c]
      /\ campaign[c].binding = NoFile
  BY <1>1, <1>2, <1>3, CollectedIs
<1>5. PICK r \in Processes(c) : r = run[c]
  BY <1>1, <1>2, ProcessIs DEF CampaignInv
<1>6. PICK q : q = [r EXCEPT !.pc = "budget", !.collector = obs]
  OBVIOUS
<1>7. q \in Processes(c) /\ q.pc = "budget" /\ q.version = r.version /\ q.collector = obs
  BY <1>4, <1>6 DEF Processes, Points, Writing
<1>8. run' = [run EXCEPT ![c] = q] /\ checkpoint' = [checkpoint EXCEPT ![c] = obs]
  BY <1>3, <1>5, <1>6 DEF Load
<1>9. checkpoint'[c] = obs /\ Only(c, checkpoint, checkpoint')
  BY <1>1, <1>8, WriteIs DEF Functions
<1>10. UNCHANGED <<campaign, observations, report, asked, budget>> /\ Grows
  BY OwnerSame DEF Load, World
<1>11. budget'[c] \in 0..MaxCalls[c] \cup {NoFile} /\ Only(c, budget, budget')
  BY <1>1, <1>10, Unwritten DEF CampaignInv, CampaignTyped
<1>12. /\ OnlyWrites(c) /\ CampaignTyped(c)' /\ AskedInv(c)' /\ BindingInv(c)' /\ run'[c] = q
  BY <1>2, <1>4, <1>5, <1>7, <1>8, <1>9, <1>10, <1>11, WorkStep
<1>13. Truthful(c, obs)'
  BY <1>4, <1>10, TruthfulStays
<1>14. FilesInv(c)'
  <2>1. checkpoint'[c] = obs /\ obs # NoFile
    BY <1>4, <1>9
  <2>2. Truthful(c, checkpoint[c])'
    BY <1>13, <2>1 DEF Truthful
  <2>3. ASSUME observations[c] # NoFile
        PROVE  obs = observations'[c] /\ Truthful(c, observations[c])' /\ Complete(c, observations[c])'
    <3>1. obs = observations'[c] /\ Complete(c, observations[c])
      BY <1>1, <1>4, <1>10, <2>3 DEF CampaignInv, FilesInv
    <3>2. Truthful(c, observations[c])'
      BY <1>13, <3>1 DEF Truthful
    <3>3. Complete(c, observations[c])'
      BY <1>10, <3>1 DEF Complete
    <3>. QED
      BY <3>1, <3>2, <3>3
  <2>. QED
    BY <1>10, <2>1, <2>2, <2>3 DEF FilesInv
<1>15. BudgetInv(c)'
  BY <1>1, <1>7, <1>10, <1>12 DEF CampaignInv, BudgetInv
<1>16. CollectorInv(c)'
  <2>1. Truthful(c, run[c].collector)' /\ Settled(c, run[c].collector)'
    BY <1>4, <1>7, <1>12, <1>13 DEF Truthful, Settled
  <2>. QED
    BY <1>4, <1>7, <1>9, <1>10, <1>12, <2>1 DEF CollectorInv, Collecting
<1>. QED
  BY <1>10, <1>12, <1>14, <1>15, <1>16, CampaignStep DEF CampaignInv

LEMMA OpenBudgetStep ==
  ASSUME AuditInv, NEW c \in Campaigns, OpenBudget(c)
  PROVE  AuditInv'
<1>1. CampaignInv(c) /\ Functions
  BY DEF AuditInv
<1>2. run[c].pc = "budget"
  BY DEF OpenBudget, At
<1>3. PICK n : n = IF budget[c] = NoFile THEN 0 ELSE budget[c]
  OBVIOUS
<1>4. n \in 0..MaxCalls[c]
  BY <1>1, <1>3, AuditAssumption DEF CampaignInv, CampaignTyped
<1>5. PICK r \in Processes(c) : r = run[c]
  BY <1>1, <1>2, ProcessIs DEF CampaignInv
<1>6. PICK q : q = [r EXCEPT !.pc = "loop", !.count = n]
  OBVIOUS
<1>7. /\ q \in Processes(c) /\ q.pc = "loop" /\ q.version = r.version
      /\ q.collector = r.collector /\ q.count = n
  BY <1>4, <1>6 DEF Processes, Points, Writing
<1>8. run' = [run EXCEPT ![c] = q] /\ budget' = [budget EXCEPT ![c] = n]
  BY <1>3, <1>5, <1>6 DEF OpenBudget
<1>9. budget'[c] = n /\ Only(c, budget, budget')
  BY <1>1, <1>8, WriteIs DEF Functions
<1>10. UNCHANGED <<campaign, observations, report, asked, checkpoint>> /\ Grows
  BY OwnerSame DEF OpenBudget, World
<1>11. checkpoint'[c] \in Observations(c) \cup {NoFile} /\ Only(c, checkpoint, checkpoint')
  BY <1>1, <1>10, Unwritten DEF CampaignInv, CampaignTyped
<1>12. /\ OnlyWrites(c) /\ CampaignTyped(c)' /\ AskedInv(c)' /\ BindingInv(c)' /\ run'[c] = q
  BY <1>2, <1>4, <1>5, <1>7, <1>8, <1>9, <1>10, <1>11, WorkStep
<1>14. FilesInv(c)'
  BY <1>1, <1>10, FilesSame DEF CampaignInv, SameFiles
<1>15. BudgetInv(c)'
  <2>1. asked'[c] # <<>> => n # NoFile /\ Len(asked'[c]) <= n
    <3>1. n # NoFile
      BY <1>4, AuditAssumption
    <3>. QED
      BY <1>1, <1>3, <1>10, <3>1 DEF CampaignInv, BudgetInv
  <2>. QED
    BY <1>7, <1>9, <1>12, <2>1 DEF BudgetInv
<1>16. CollectorInv(c)'
  <2>0. PICK obs : obs = r.collector
    OBVIOUS
  <2>1. /\ campaign[c].binding = NoFile /\ checkpoint[c] # NoFile /\ Truthful(c, obs)
        /\ checkpoint[c] = obs /\ Settled(c, obs)
    BY <1>1, <1>2, <1>5, <2>0 DEF CampaignInv, CollectorInv, Collecting
  <2>2. Truthful(c, obs)'
    BY <1>10, <2>1, TruthfulStays
  <2>3. Truthful(c, run[c].collector)' /\ Settled(c, run[c].collector)'
    BY <1>7, <1>12, <2>0, <2>1, <2>2 DEF Truthful, Settled
  <2>. QED
    BY <1>7, <1>10, <1>12, <2>0, <2>1, <2>3 DEF CollectorInv, Collecting
<1>. QED
  BY <1>10, <1>12, <1>14, <1>15, <1>16, CampaignStep DEF CampaignInv

(* A slot not observed is marked before its evaluator is asked.               *)
LEMMA MarkStep ==
  ASSUME AuditInv, NEW c \in Campaigns, Mark(c)
  PROVE  AuditInv'
<1>1. CampaignInv(c) /\ Functions
  BY DEF AuditInv
<1>2. run[c].pc = "loop" /\ run[c].count < MaxCalls[c]
  BY DEF Mark, At
<1>3. PICK r \in Processes(c) : r = run[c]
  BY <1>1, <1>2, ProcessIs DEF CampaignInv
<1>4. PICK obs : obs = r.collector
  OBVIOUS
<1>5. /\ campaign[c].binding = NoFile /\ checkpoint[c] # NoFile /\ Truthful(c, obs)
      /\ checkpoint[c] = obs /\ Settled(c, obs) /\ obs \in Observations(c)
  BY <1>1, <1>2, <1>3, <1>4 DEF CampaignInv, CollectorInv, Collecting, Processes
<1>6. Remaining(c, obs) # {}
  BY <1>3, <1>4 DEF Mark
<1>7. PICK a \in Anchors, s \in SlotSet(c) : Coming(c)[1] = a /\ Coming(c)[2] = s /\ obs[a][s] = Absent
  <2>1. PICK b \in Anchors, t \in SlotSet(c) :
           /\ Coordinates(c)[Min(Remaining(c, obs))][1] = b
           /\ Coordinates(c)[Min(Remaining(c, obs))][2] = t /\ obs[b][t] = Absent
    BY <1>6, RemainingIs
  <2>2. Coming(c) = Coordinates(c)[Min(Remaining(c, obs))]
    BY <1>3, <1>4 DEF Coming
  <2>. QED
    BY <2>1, <2>2
<1>8. PICK marked : marked = Put(obs, a, s, Pending)
  OBVIOUS
<1>9. /\ marked \in Observations(c) /\ marked # NoFile /\ marked[a][s] = Pending
      /\ \A b \in Anchors, t \in SlotSet(c) : ~(b = a /\ t = s) => marked[b][t] = obs[b][t]
  BY <1>5, <1>8, PutIs, ObservationsAre
<1>10. PICK q : q = [r EXCEPT !.pc = "invoke", !.collector = marked]
  OBVIOUS
<1>11. /\ q \in Processes(c) /\ q.pc = "invoke" /\ q.version = r.version
       /\ q.collector = marked /\ q.count = r.count
  BY <1>9, <1>10 DEF Processes, Points, Writing
<1>12. run' = [run EXCEPT ![c] = q] /\ checkpoint' = [checkpoint EXCEPT ![c] = marked]
  BY <1>3, <1>4, <1>7, <1>8, <1>10 DEF Mark, Collect, Persist
<1>13. checkpoint'[c] = marked /\ Only(c, checkpoint, checkpoint')
  BY <1>1, <1>12, WriteIs DEF Functions
<1>14. UNCHANGED <<campaign, observations, report, asked, budget>> /\ Grows
  BY OwnerSame DEF Mark, World
<1>15. budget'[c] \in 0..MaxCalls[c] \cup {NoFile} /\ Only(c, budget, budget')
  BY <1>1, <1>14, Unwritten DEF CampaignInv, CampaignTyped
<1>16. /\ OnlyWrites(c) /\ CampaignTyped(c)' /\ AskedInv(c)' /\ BindingInv(c)' /\ run'[c] = q
  BY <1>2, <1>3, <1>9, <1>11, <1>12, <1>13, <1>14, <1>15, WorkStep
<1>17. Entry(c, a, s) = {}
  BY <1>5, <1>7 DEF Truthful
<1>18. Truthful(c, marked)
  <2> SUFFICES ASSUME NEW b \in Anchors, NEW t \in SlotSet(c)
               PROVE  /\ marked[b][t] \in {Absent, NotAttempted} => Entry(c, b, t) = {}
                      /\ marked[b][t] \notin {Absent, Pending, NotAttempted, Interrupted}
                           => \E e \in Entry(c, b, t) : e.answer = marked[b][t]
    BY DEF Truthful
  <2>1. CASE b = a /\ t = s
    BY <1>9, <1>17, <2>1, ValuesDiffer
  <2>2. CASE ~(b = a /\ t = s)
    <3>1. marked[b][t] = obs[b][t]
      BY <1>9, <2>2
    <3>. QED
      BY <1>5, <3>1 DEF Truthful
  <2>. QED
    BY <2>1, <2>2
<1>19. Truthful(c, marked)'
  BY <1>14, <1>18, TruthfulStays
<1>20. observations[c] = NoFile
  BY <1>1, <1>5, <1>7 DEF CampaignInv, FilesInv, Complete
<1>21. FilesInv(c)'
  <2>1. Truthful(c, checkpoint[c])'
    BY <1>13, <1>19 DEF Truthful
  <2>. QED
    BY <1>9, <1>13, <1>14, <1>20, <2>1 DEF FilesInv
<1>22. BudgetInv(c)'
  BY <1>1, <1>2, <1>3, <1>11, <1>14, <1>16 DEF CampaignInv, BudgetInv
<1>23. CollectorInv(c)'
  <2>1. Truthful(c, run[c].collector)'
    BY <1>11, <1>16, <1>19 DEF Truthful
  <2>2. OnePending(c, run[c].collector)'
    <3>1. Entry(c, a, s)' = {}
      BY <1>14, <1>17, EntriesSame
    <3>2. \A b \in Anchors, t \in SlotSet(c) : marked[b][t] = Pending => b = a /\ t = s
      BY <1>5, <1>9 DEF Settled
    <3>. QED
      BY <1>9, <1>11, <1>16, <3>1, <3>2 DEF OnePending
  <2>. QED
    BY <1>5, <1>9, <1>11, <1>13, <1>14, <1>16, <1>20, <2>1, <2>2 DEF CollectorInv, Collecting
<1>. QED
  BY <1>14, <1>16, <1>21, <1>22, <1>23, CampaignStep DEF CampaignInv

LEMMA ExhaustStep ==
  ASSUME AuditInv, NEW c \in Campaigns, Exhaust(c)
  PROVE  AuditInv'
<1>1. CampaignInv(c) /\ Functions
  BY DEF AuditInv
<1>2. run[c].pc = "loop"
  BY DEF Exhaust, At
<1>3. PICK r \in Processes(c) : r = run[c]
  BY <1>1, <1>2, ProcessIs DEF CampaignInv
<1>4. PICK obs : obs = r.collector
  OBVIOUS
<1>5. /\ campaign[c].binding = NoFile /\ checkpoint[c] # NoFile /\ Truthful(c, obs)
      /\ checkpoint[c] = obs /\ Settled(c, obs) /\ obs \in Observations(c)
  BY <1>1, <1>2, <1>3, <1>4 DEF CampaignInv, CollectorInv, Collecting, Processes
<1>6. PICK a \in Anchors, s \in SlotSet(c) : obs[a][s] = Absent
  <2>1. Remaining(c, obs) # {}
    BY <1>3, <1>4 DEF Exhaust
  <2>. QED
    BY <2>1, RemainingIs
<1>7. PICK marked : marked = [b \in Anchors |-> [t \in SlotSet(c) |->
                                 IF obs[b][t] = Absent THEN NotAttempted ELSE obs[b][t]]]
  OBVIOUS
<1>8. \A b \in Anchors, t \in SlotSet(c) :
        marked[b][t] = IF obs[b][t] = Absent THEN NotAttempted ELSE obs[b][t]
  BY <1>7
<1>9. marked \in Observations(c) /\ marked # NoFile
  <2>1. \A b \in Anchors, t \in SlotSet(c) : obs[b][t] \in Observed \cup {Absent, Pending}
    BY <1>5, ObservationsAre
  <2>2. \A b \in Anchors, t \in SlotSet(c) : marked[b][t] \in Observed \cup {Absent, Pending}
    BY <1>8, <2>1, ValuesDiffer
  <2>3. marked = [b \in Anchors |-> [t \in SlotSet(c) |-> marked[b][t]]]
    BY <1>7, <1>8
  <2>4. marked \in Observations(c)
    BY <2>2, <2>3, PerSlot
  <2>. QED
    BY <2>4, ObservationsAre
<1>10. PICK q : q = [r EXCEPT !.pc = "report", !.collector = marked, !.exhausted = TRUE]
  OBVIOUS
<1>11. q \in Processes(c) /\ q.pc = "report" /\ q.version = r.version /\ q.collector = marked
  BY <1>9, <1>10 DEF Processes, Points, Writing
<1>12. run' = [run EXCEPT ![c] = q] /\ checkpoint' = [checkpoint EXCEPT ![c] = marked]
  BY <1>3, <1>4, <1>7, <1>10 DEF Exhaust, Persist
<1>13. checkpoint'[c] = marked /\ Only(c, checkpoint, checkpoint')
  BY <1>1, <1>12, WriteIs DEF Functions
<1>14. UNCHANGED <<campaign, observations, report, asked, budget>> /\ Grows
  BY OwnerSame DEF Exhaust, World
<1>15. budget'[c] \in 0..MaxCalls[c] \cup {NoFile} /\ Only(c, budget, budget')
  BY <1>1, <1>14, Unwritten DEF CampaignInv, CampaignTyped
<1>16. /\ OnlyWrites(c) /\ CampaignTyped(c)' /\ AskedInv(c)' /\ BindingInv(c)' /\ run'[c] = q
  BY <1>2, <1>3, <1>9, <1>11, <1>12, <1>13, <1>14, <1>15, WorkStep
<1>17. Truthful(c, marked)
  <2> SUFFICES ASSUME NEW b \in Anchors, NEW t \in SlotSet(c)
               PROVE  /\ marked[b][t] \in {Absent, NotAttempted} => Entry(c, b, t) = {}
                      /\ marked[b][t] \notin {Absent, Pending, NotAttempted, Interrupted}
                           => \E e \in Entry(c, b, t) : e.answer = marked[b][t]
    BY DEF Truthful
  <2>1. CASE obs[b][t] = Absent
    <3>1. Entry(c, b, t) = {} /\ marked[b][t] = NotAttempted
      BY <1>5, <1>8, <2>1 DEF Truthful
    <3>. QED
      BY <3>1
  <2>2. CASE obs[b][t] # Absent
    <3>1. marked[b][t] = obs[b][t]
      BY <1>8, <2>2
    <3>. QED
      BY <1>5, <3>1 DEF Truthful
  <2>. QED
    BY <2>1, <2>2
<1>18. Truthful(c, marked)'
  BY <1>14, <1>17, TruthfulStays
<1>19. Complete(c, marked)
  BY <1>5, <1>8, ValuesDiffer DEF Settled, Complete
<1>20. observations[c] = NoFile
  BY <1>1, <1>5, <1>6 DEF CampaignInv, FilesInv, Complete
<1>21. FilesInv(c)'
  <2>1. Truthful(c, checkpoint[c])'
    BY <1>13, <1>18 DEF Truthful
  <2>. QED
    BY <1>9, <1>13, <1>14, <1>20, <2>1 DEF FilesInv
<1>22. BudgetInv(c)'
  BY <1>1, <1>11, <1>14, <1>16 DEF CampaignInv, BudgetInv
<1>23. CollectorInv(c)'
  <2>1. Truthful(c, run[c].collector)' /\ Complete(c, run[c].collector)'
    BY <1>11, <1>16, <1>18, <1>19 DEF Truthful, Complete
  <2>2. Settled(c, run[c].collector)'
    BY <2>1 DEF Settled, Complete
  <2>. QED
    BY <1>5, <1>9, <1>11, <1>13, <1>14, <1>16, <2>1, <2>2 DEF CollectorInv, Collecting
<1>. QED
  BY <1>14, <1>16, <1>21, <1>22, <1>23, CampaignStep DEF CampaignInv

(* The count is durable before the evaluator is asked.                        *)
LEMMA CountStep ==
  ASSUME AuditInv, NEW c \in Campaigns, Count(c)
  PROVE  AuditInv'
<1>1. CampaignInv(c) /\ Functions
  BY DEF AuditInv
<1>2. run[c].pc = "invoke"
  BY DEF Count, At
<1>3. PICK r \in Processes(c) : r = run[c]
  BY <1>1, <1>2, ProcessIs DEF CampaignInv
<1>4. PICK obs : obs = r.collector
  OBVIOUS
<1>5. /\ campaign[c].binding = NoFile /\ checkpoint[c] # NoFile /\ Truthful(c, obs)
      /\ checkpoint[c] = obs /\ OnePending(c, obs) /\ observations[c] = NoFile
  BY <1>1, <1>2, <1>3, <1>4 DEF CampaignInv, CollectorInv, Collecting
<1>6. /\ budget[c] = r.count /\ r.count \in Nat /\ r.count < MaxCalls[c] /\ MaxCalls[c] \in Nat
      /\ Len(asked[c]) \in Nat /\ (asked[c] # <<>> => Len(asked[c]) <= r.count)
      /\ asked[c] = <<>> => Len(asked[c]) = 0
  <2>1. /\ budget[c] = r.count /\ r.count < MaxCalls[c]
        /\ asked[c] # <<>> => Len(asked[c]) <= budget[c]
    BY <1>1, <1>2, <1>3 DEF CampaignInv, BudgetInv
  <2>2. MaxCalls[c] \in Nat /\ r.count \in Nat
    BY AuditAssumption DEF Processes
  <2>3. Len(asked[c]) \in Nat /\ (asked[c] = <<>> => Len(asked[c]) = 0)
    BY <1>1 DEF CampaignInv, CampaignTyped
  <2>. QED
    BY <2>1, <2>2, <2>3
<1>7. PICK n : n = r.count + 1
  OBVIOUS
<1>8. n \in 0..MaxCalls[c] /\ n # NoFile /\ Len(asked[c]) < n
  BY <1>6, <1>7, AuditAssumption
<1>9. PICK q : q = [r EXCEPT !.pc = "calling", !.count = n]
  OBVIOUS
<1>10. /\ q \in Processes(c) /\ q.pc = "calling" /\ q.version = r.version
       /\ q.collector = obs /\ q.count = n
  BY <1>4, <1>8, <1>9 DEF Processes, Points
<1>11. run' = [run EXCEPT ![c] = q] /\ budget' = [budget EXCEPT ![c] = n]
  BY <1>3, <1>7, <1>9 DEF Count
<1>12. budget'[c] = n /\ Only(c, budget, budget')
  BY <1>1, <1>11, WriteIs DEF Functions
<1>13. UNCHANGED <<campaign, observations, report, asked, checkpoint>> /\ Grows
  BY OwnerSame DEF Count, World
<1>14. checkpoint'[c] \in Observations(c) \cup {NoFile} /\ Only(c, checkpoint, checkpoint')
  BY <1>1, <1>13, Unwritten DEF CampaignInv, CampaignTyped
<1>15. /\ OnlyWrites(c) /\ CampaignTyped(c)' /\ AskedInv(c)' /\ BindingInv(c)' /\ run'[c] = q
  BY <1>2, <1>3, <1>8, <1>10, <1>11, <1>12, <1>13, <1>14, WorkStep
<1>16. FilesInv(c)'
  BY <1>1, <1>13, FilesSame DEF CampaignInv, SameFiles
<1>17. BudgetInv(c)'
  BY <1>8, <1>10, <1>12, <1>13, <1>15, <1>6 DEF BudgetInv
<1>18. CollectorInv(c)'
  <2>1. Truthful(c, obs)'
    BY <1>5, <1>13, TruthfulStays
  <2>2. Truthful(c, run[c].collector)'
    BY <1>10, <1>15, <2>1 DEF Truthful
  <2>3. OnePending(c, run[c].collector)'
    <3>1. PICK a \in Anchors, s \in SlotSet(c) :
            /\ obs[a][s] = Pending /\ Entry(c, a, s) = {}
            /\ \A b \in Anchors, t \in SlotSet(c) : obs[b][t] = Pending => b = a /\ t = s
      BY <1>5 DEF OnePending
    <3>2. Entry(c, a, s)' = {} /\ run'[c].collector = obs
      BY <1>10, <1>13, <1>15, <3>1, EntriesSame
    <3>. QED
      BY <3>1, <3>2 DEF OnePending
  <2>4. /\ campaign'[c].binding = NoFile /\ checkpoint'[c] # NoFile /\ observations'[c] = NoFile
        /\ run'[c].pc = "calling" /\ checkpoint'[c] = run'[c].collector
    BY <1>5, <1>10, <1>13, <1>15
  <2>. QED
    BY <2>2, <2>3, <2>4 DEF CollectorInv, Collecting
<1>. QED
  BY <1>13, <1>15, <1>16, <1>17, <1>18, CampaignStep DEF CampaignInv

LEMMA SaveStep ==
  ASSUME AuditInv, NEW c \in Campaigns, Save(c)
  PROVE  AuditInv'
<1>1. CampaignInv(c) /\ Functions
  BY DEF AuditInv
<1>2. run[c].pc = "answered"
  BY DEF Save, At
<1>3. PICK r \in Processes(c) : r = run[c]
  BY <1>1, <1>2, ProcessIs DEF CampaignInv
<1>4. PICK obs : obs = r.collector
  OBVIOUS
<1>5. /\ campaign[c].binding = NoFile /\ Truthful(c, obs) /\ Settled(c, obs)
      /\ observations[c] = NoFile /\ obs \in Observations(c) /\ obs # NoFile
  BY <1>1, <1>2, <1>3, <1>4, ObservationsAre DEF CampaignInv, CollectorInv, Collecting, Processes
<1>6. PICK q : q = [r EXCEPT !.pc = "loop"]
  OBVIOUS
<1>7. /\ q \in Processes(c) /\ q.pc = "loop" /\ q.version = r.version
      /\ q.collector = obs /\ q.count = r.count
  BY <1>4, <1>6 DEF Processes, Points, Writing
<1>8. run' = [run EXCEPT ![c] = q] /\ checkpoint' = [checkpoint EXCEPT ![c] = obs]
  BY <1>3, <1>4, <1>6 DEF Save, Persist, Goto
<1>9. checkpoint'[c] = obs /\ Only(c, checkpoint, checkpoint')
  BY <1>1, <1>8, WriteIs DEF Functions
<1>10. UNCHANGED <<campaign, observations, report, asked, budget>> /\ Grows
  BY OwnerSame DEF Save, World
<1>11. budget'[c] \in 0..MaxCalls[c] \cup {NoFile} /\ Only(c, budget, budget')
  BY <1>1, <1>10, Unwritten DEF CampaignInv, CampaignTyped
<1>12. /\ OnlyWrites(c) /\ CampaignTyped(c)' /\ AskedInv(c)' /\ BindingInv(c)' /\ run'[c] = q
  BY <1>2, <1>3, <1>5, <1>7, <1>8, <1>9, <1>10, <1>11, WorkStep
<1>13. Truthful(c, obs)'
  BY <1>5, <1>10, TruthfulStays
<1>14. FilesInv(c)'
  <2>1. Truthful(c, checkpoint[c])'
    BY <1>9, <1>13 DEF Truthful
  <2>. QED
    BY <1>5, <1>9, <1>10, <2>1 DEF FilesInv
<1>15. BudgetInv(c)'
  BY <1>1, <1>2, <1>3, <1>7, <1>10, <1>12 DEF CampaignInv, BudgetInv
<1>16. CollectorInv(c)'
  <2>1. Truthful(c, run[c].collector)' /\ Settled(c, run[c].collector)'
    BY <1>5, <1>7, <1>12, <1>13 DEF Truthful, Settled
  <2>. QED
    BY <1>5, <1>7, <1>9, <1>10, <1>12, <2>1 DEF CollectorInv, Collecting
<1>. QED
  BY <1>10, <1>12, <1>14, <1>15, <1>16, CampaignStep DEF CampaignInv

LEMMA HereIs ==
  ASSUME NEW c \in Campaigns, NEW a \in Anchors, NEW s \in SlotSet(c), run[c].collector[a][s] = Pending,
         \A b \in Anchors, t \in SlotSet(c) : run[c].collector[b][t] = Pending => b = a /\ t = s
  PROVE  Here(c)[1] = a /\ Here(c)[2] = s
<1>1. PICK x : x = Here(c)
  OBVIOUS
<1>2. <<a, s>> \in Anchors \X SlotSet(c) /\ run[c].collector[<<a, s>>[1]][<<a, s>>[2]] = Pending
  OBVIOUS
<1>3. x \in Anchors \X SlotSet(c) /\ run[c].collector[x[1]][x[2]] = Pending
  BY <1>1, <1>2 DEF Here
<1>4. x[1] \in Anchors /\ x[2] \in SlotSet(c)
  BY <1>3
<1>. QED
  BY <1>1, <1>3, <1>4

LEMMA CallStep ==
  ASSUME AuditInv, NEW c \in Campaigns, Call(c)
  PROVE  AuditInv'
<1>1. CampaignInv(c) /\ Functions
  BY DEF AuditInv
<1>2. run[c].pc = "calling" /\ sources = run[c].version
  BY DEF Call, At
<1>3. PICK r \in Processes(c) : r = run[c]
  BY <1>1, <1>2, ProcessIs DEF CampaignInv
<1>4. PICK obs : obs = r.collector
  OBVIOUS
<1>5. /\ campaign[c].binding = NoFile /\ checkpoint[c] # NoFile /\ Truthful(c, obs)
      /\ checkpoint[c] = obs /\ OnePending(c, obs) /\ observations[c] = NoFile
      /\ obs \in Observations(c)
  BY <1>1, <1>2, <1>3, <1>4 DEF CampaignInv, CollectorInv, Collecting, Processes
<1>6. PICK a \in Anchors, s \in SlotSet(c) :
        /\ obs[a][s] = Pending /\ Entry(c, a, s) = {}
        /\ \A b \in Anchors, t \in SlotSet(c) : obs[b][t] = Pending => b = a /\ t = s
  BY <1>5 DEF OnePending
<1>7. Here(c)[1] = a /\ Here(c)[2] = s
  BY <1>3, <1>4, <1>6, HereIs
<1>8. PICK o \in Answered :
        /\ asked' = [asked EXCEPT ![c] = Append(@, [anchor |-> a, slot |-> s, version |-> sources, answer |-> o])]
        /\ run' = [run EXCEPT ![c].pc = "answered", ![c].collector = Put(run[c].collector, a, s, o)]
  BY <1>7 DEF Call, Collect, Answered
<1>9. PICK e : e = [anchor |-> a, slot |-> s, version |-> sources, answer |-> o]
  OBVIOUS
<1>10. /\ run[c].version = campaign[c].version /\ campaign[c].state # "absent"
       /\ run[c].version \in approved /\ run[c] # Idle
  <2>1. run[c] # Idle
    BY <1>2 DEF Idle
  <2>. QED
    BY <1>1, <1>2, <2>1 DEF CampaignInv, AskedInv
<1>11. /\ e \in Questions(c) /\ e.anchor = a /\ e.slot = s /\ e.answer = o
       /\ e.version \in reviewed /\ e.version = campaign[c].version
  <2>1. sources \in Versions /\ approved \subseteq reviewed
    BY DEF AuditInv, OwnerInv
  <2>2. o \in Observed
    BY ValuesDiffer
  <2>. QED
    BY <1>2, <1>9, <1>10, <2>1, <2>2 DEF Questions
<1>12. asked'[c] = Append(asked[c], e) /\ Only(c, asked, asked')
  <2>1. PICK x : x = Append(asked[c], e)
    OBVIOUS
  <2>2. asked' = [asked EXCEPT ![c] = x]
    BY <1>8, <1>9, <2>1
  <2>. QED
    BY <1>1, <2>1, <2>2, WriteIs DEF Functions
<1>13. /\ asked'[c] \in Seq(Questions(c)) /\ Len(asked'[c]) = Len(asked[c]) + 1
       /\ Entries(c)' = Entries(c) \cup {e}
       /\ \A b, t : /\ Entry(c, b, t) \subseteq Entry(c, b, t)'
                    /\ e.anchor = b /\ e.slot = t => e \in Entry(c, b, t)'
                    /\ ~(e.anchor = b /\ e.slot = t) => Entry(c, b, t)' = Entry(c, b, t)
  BY <1>1, <1>11, <1>12, EntriesGrow DEF CampaignInv, CampaignTyped
<1>14. PICK new : new = Put(obs, a, s, o)
  OBVIOUS
<1>15. /\ new \in Observations(c) /\ new[a][s] = o
       /\ \A b \in Anchors, t \in SlotSet(c) : ~(b = a /\ t = s) => new[b][t] = obs[b][t]
  BY <1>5, <1>14, PutIs, ValuesDiffer
<1>16. PICK q : q = [r EXCEPT !.pc = "answered", !.collector = new]
  OBVIOUS
<1>17. /\ q \in Processes(c) /\ q.pc = "answered" /\ q.version = r.version
       /\ q.collector = new /\ q.count = r.count
  BY <1>15, <1>16 DEF Processes, Points, Writing
<1>18. run' = [run EXCEPT ![c] = q]
  BY <1>3, <1>4, <1>8, <1>14, <1>16
<1>19. run'[c] = q /\ run'[c] # Idle /\ Only(c, run, run')
  BY <1>2, <1>17, <1>18, RunWrite
<1>20. UNCHANGED <<campaign, files>> /\ Grows
  BY OwnerSame DEF Call
<1>21. OnlyWrites(c)
  BY <1>12, <1>19, <1>20, Unwritten DEF OnlyWrites, files
<1>22. CampaignTyped(c)'
  BY <1>1, <1>13, <1>17, <1>19, <1>20 DEF CampaignInv, CampaignTyped, Reported, Shaped, files
<1>23. FilesInv(c)'
  <2>1. \A b \in Anchors, t \in SlotSet(c) :
          /\ obs[b][t] \in {Absent, NotAttempted} => Entry(c, b, t)' = {}
          /\ obs[b][t] \notin {Absent, Pending, NotAttempted, Interrupted}
               => \E x \in Entry(c, b, t)' : x.answer = obs[b][t]
    <3> SUFFICES ASSUME NEW b \in Anchors, NEW t \in SlotSet(c)
                 PROVE  /\ obs[b][t] \in {Absent, NotAttempted} => Entry(c, b, t)' = {}
                        /\ obs[b][t] \notin {Absent, Pending, NotAttempted, Interrupted}
                             => \E x \in Entry(c, b, t)' : x.answer = obs[b][t]
      OBVIOUS
    <3>1. CASE b = a /\ t = s
      BY <1>6, <3>1, ValuesDiffer
    <3>2. CASE ~(b = a /\ t = s)
      <4>1. Entry(c, b, t)' = Entry(c, b, t)
        BY <1>11, <1>13, <3>2
      <4>. QED
        BY <1>5, <4>1 DEF Truthful
    <3>. QED
      BY <3>1, <3>2
  <2>2. Truthful(c, checkpoint[c])'
    BY <1>5, <1>20, <2>1 DEF Truthful, files
  <2>. QED
    BY <1>5, <1>20, <2>2 DEF FilesInv, files
<1>24. BudgetInv(c)'
  <2>1. /\ Len(asked[c]) < budget[c] /\ budget[c] = r.count /\ r.count \in Nat
        /\ Len(asked[c]) \in Nat
    <3>1. Len(asked[c]) < budget[c] /\ budget[c] = r.count
      BY <1>1, <1>2, <1>3 DEF CampaignInv, BudgetInv
    <3>2. Len(asked[c]) \in Nat
      BY <1>1 DEF CampaignInv, CampaignTyped
    <3>3. r.count \in Nat
      BY AuditAssumption DEF Processes
    <3>. QED
      BY <3>1, <3>2, <3>3
  <2>2. budget[c] # NoFile
    BY <2>1, AuditAssumption
  <2>3. Len(asked'[c]) <= budget[c]
    BY <1>13, <2>1
  <2>. QED
    BY <1>17, <1>19, <1>20, <2>1, <2>2, <2>3 DEF BudgetInv, files
<1>25. AskedInv(c)'
  <2>1. \A i, j \in DOMAIN asked'[c] :
          asked'[c][i].anchor = asked'[c][j].anchor /\ asked'[c][i].slot = asked'[c][j].slot => i = j
    <3>1. PICK old : old = asked[c]
      OBVIOUS
    <3>2. PICK grown : grown = asked'[c]
      OBVIOUS
    <3>3. old \in Seq(Questions(c)) /\ grown = Append(old, e)
      BY <1>1, <1>12, <3>1, <3>2 DEF CampaignInv, CampaignTyped
    <3>4. \A i \in DOMAIN old : ~(old[i].anchor = a /\ old[i].slot = s)
      BY <1>1, <1>6, <3>1, NoEntry DEF CampaignInv, CampaignTyped
    <3>5. \A i, j \in DOMAIN old : old[i].anchor = old[j].anchor /\ old[i].slot = old[j].slot => i = j
      BY <1>1, <3>1 DEF CampaignInv, AskedInv
    <3>6. /\ Len(old) \in Nat /\ DOMAIN old = 1..Len(old) /\ DOMAIN grown = 1..Len(old) + 1
          /\ grown[Len(old) + 1] = e /\ \A i \in 1..Len(old) : grown[i] = old[i]
      <4>1. PICK Q : Q = Questions(c)
        OBVIOUS
      <4>2. old \in Seq(Q) /\ e \in Q
        BY <1>11, <3>3, <4>1
      <4>. QED
        BY <3>3, <4>2
    <3>7. \A i, j \in DOMAIN grown : grown[i].anchor = grown[j].anchor /\ grown[i].slot = grown[j].slot => i = j
      <4> SUFFICES ASSUME NEW i \in DOMAIN grown, NEW j \in DOMAIN grown,
                          grown[i].anchor = grown[j].anchor, grown[i].slot = grown[j].slot
                   PROVE  i = j
        OBVIOUS
      <4>1. CASE i \in DOMAIN old /\ j \in DOMAIN old
        BY <3>5, <3>6, <4>1
      <4>2. CASE i \notin DOMAIN old /\ j \in DOMAIN old
        <5>1. i = Len(old) + 1
          BY <3>6, <4>2
        <5>2. grown[j] = old[j] /\ grown[i] = e
          BY <3>6, <4>2, <5>1
        <5>. QED
          BY <1>11, <3>4, <4>2, <5>2
      <4>3. CASE i \in DOMAIN old /\ j \notin DOMAIN old
        <5>1. j = Len(old) + 1
          BY <3>6, <4>3
        <5>2. grown[i] = old[i] /\ grown[j] = e
          BY <3>6, <4>3, <5>1
        <5>. QED
          BY <1>11, <3>4, <4>3, <5>2
      <4>4. CASE i \notin DOMAIN old /\ j \notin DOMAIN old
        BY <3>6, <4>4
      <4>. QED
        BY <4>1, <4>2, <4>3, <4>4
    <3>. QED
      BY <3>2, <3>7
  <2>2. \A x \in Entries(c)' : x.version \in reviewed' /\ x.version = campaign'[c].version
    <3>1. \A x \in Entries(c) : x.version \in reviewed /\ x.version = campaign[c].version
      BY <1>1 DEF CampaignInv, AskedInv
    <3>. QED
      BY <1>11, <1>13, <1>20, <3>1 DEF Grows
  <2>. QED
    BY <1>3, <1>10, <1>17, <1>19, <1>20, <2>1, <2>2 DEF AskedInv, Grows
<1>26. CollectorInv(c)'
  <2>1. \A b \in Anchors, t \in SlotSet(c) :
          /\ new[b][t] \in {Absent, NotAttempted} => Entry(c, b, t)' = {}
          /\ new[b][t] \notin {Absent, Pending, NotAttempted, Interrupted}
               => \E x \in Entry(c, b, t)' : x.answer = new[b][t]
    <3> SUFFICES ASSUME NEW b \in Anchors, NEW t \in SlotSet(c)
                 PROVE  /\ new[b][t] \in {Absent, NotAttempted} => Entry(c, b, t)' = {}
                        /\ new[b][t] \notin {Absent, Pending, NotAttempted, Interrupted}
                             => \E x \in Entry(c, b, t)' : x.answer = new[b][t]
      OBVIOUS
    <3>1. CASE b = a /\ t = s
      <4>1. new[b][t] = o /\ e \in Entry(c, b, t)' /\ e.answer = o
        BY <1>11, <1>13, <1>15, <3>1
      <4>. QED
        BY <4>1, ValuesDiffer
    <3>2. CASE ~(b = a /\ t = s)
      <4>1. Entry(c, b, t)' = Entry(c, b, t) /\ new[b][t] = obs[b][t]
        BY <1>11, <1>13, <1>15, <3>2
      <4>. QED
        BY <1>5, <4>1 DEF Truthful
    <3>. QED
      BY <3>1, <3>2
  <2>2. Truthful(c, run[c].collector)'
    BY <1>17, <1>19, <2>1 DEF Truthful
  <2>3. \A b \in Anchors, t \in SlotSet(c) : new[b][t] # Pending
    BY <1>6, <1>15, ValuesDiffer
  <2>4. Settled(c, run[c].collector)'
    BY <1>17, <1>19, <2>3 DEF Settled
  <2>5. /\ campaign'[c].binding = NoFile /\ checkpoint'[c] # NoFile /\ observations'[c] = NoFile
        /\ run'[c].pc = "answered"
    BY <1>5, <1>17, <1>19, <1>20 DEF files
  <2>. QED
    BY <2>2, <2>4, <2>5 DEF CollectorInv, Collecting
<1>27. BindingInv(c)'
  BY <1>1, <1>20, BindingSame DEF CampaignInv, files
<1>. QED
  BY <1>20, <1>21, <1>22, <1>23, <1>24, <1>25, <1>26, <1>27, CampaignStep DEF CampaignInv

-----------------------------------------------------------------------------
(* The artifacts, and their binding.                                          *)
LEMMA ReportingStep ==
  ASSUME AuditInv, NEW c \in Campaigns, WriteObservations(c) \/ WriteReport(c)
  PROVE  AuditInv'
<1>1. CampaignInv(c) /\ Functions
  BY DEF AuditInv
<1>2. run[c].pc \in {"report", "reporting"}
  BY DEF WriteObservations, WriteReport, At
<1>3. PICK r \in Processes(c) : r = run[c]
  BY <1>1, <1>2, ProcessIs DEF CampaignInv
<1>4. PICK obs : obs = r.collector
  OBVIOUS
<1>5. /\ campaign[c].binding = NoFile /\ checkpoint[c] # NoFile /\ Truthful(c, obs)
      /\ checkpoint[c] = obs /\ Settled(c, obs) /\ Complete(c, obs) /\ obs \in Observations(c)
  BY <1>1, <1>2, <1>3, <1>4 DEF CampaignInv, CollectorInv, Collecting, Processes
<1>6. PICK l \in {"reporting", "reloading"} : run' = [run EXCEPT ![c].pc = l]
  BY DEF WriteObservations, WriteReport, Goto
<1>7. PICK q : q = [r EXCEPT !.pc = l]
  OBVIOUS
<1>8. /\ q \in Processes(c) /\ q.pc = l /\ q.version = r.version
      /\ q.collector = obs /\ q.count = r.count
  BY <1>4, <1>7 DEF Processes, Points, Writing
<1>9. run' = [run EXCEPT ![c] = q]
  BY <1>3, <1>6, <1>7
<1>10. run'[c] = q /\ run'[c] # Idle /\ run[c] # Idle /\ Only(c, run, run')
  BY <1>2, <1>8, <1>9, RunWrite
<1>11. UNCHANGED <<campaign, checkpoint, budget, asked>> /\ Grows
  BY OwnerSame DEF WriteObservations, WriteReport, World
<1>12. /\ observations'[c] \in {observations[c], obs} /\ Only(c, observations, observations')
       /\ Only(c, report, report')
       /\ report'[c] = report[c] \/ (Reported(report'[c]) /\ observations'[c] = observations[c])
  <2>1. CASE WriteObservations(c)
    <3>1. observations' = [observations EXCEPT ![c] = obs] /\ report' = report
      BY <1>3, <1>4, <2>1 DEF WriteObservations
    <3>. QED
      BY <1>1, <3>1, WriteIs, Unwritten DEF Functions
  <2>2. CASE WriteReport(c)
    <3>1. PICK x : x = [collection |-> IF run[c].exhausted THEN "budget_exhausted" ELSE "complete",
                        version |-> run[c].version, observations |-> run[c].collector]
      OBVIOUS
    <3>2. report' = [report EXCEPT ![c] = x] /\ observations' = observations
      BY <2>2, <3>1 DEF WriteReport
    <3>3. Reported(x)
      BY <1>3, <3>1 DEF Reported, Processes
    <3>. QED
      BY <1>1, <3>2, <3>3, WriteIs, Unwritten DEF Functions
  <2>. QED
    BY <2>1, <2>2
<1>13. OnlyWrites(c)
  BY <1>10, <1>11, <1>12, Unwritten DEF OnlyWrites
<1>14. CampaignTyped(c)'
  BY <1>1, <1>5, <1>8, <1>10, <1>11, <1>12 DEF CampaignInv, CampaignTyped, Shaped, Reported
<1>15. Truthful(c, obs)'
  BY <1>5, <1>11, TruthfulStays
<1>16. FilesInv(c)'
  <2>1. Truthful(c, checkpoint[c])' /\ checkpoint'[c] # NoFile
    BY <1>5, <1>11, <1>15 DEF Truthful
  <2>2. ASSUME observations'[c] # NoFile
        PROVE  /\ Truthful(c, observations[c])' /\ Complete(c, observations[c])'
               /\ checkpoint'[c] = observations'[c]
    <3>1. observations'[c] = obs
      BY <1>1, <1>5, <1>12, <2>2 DEF CampaignInv, FilesInv
    <3>2. Truthful(c, observations[c])'
      BY <1>15, <3>1 DEF Truthful
    <3>3. Complete(c, observations[c])'
      BY <1>5, <3>1 DEF Complete
    <3>. QED
      BY <1>5, <1>11, <3>1, <3>2, <3>3
  <2>. QED
    BY <2>1, <2>2 DEF FilesInv
<1>17. BudgetInv(c)'
  BY <1>1, <1>8, <1>10, <1>11 DEF CampaignInv, BudgetInv
<1>18. AskedInv(c)'
  <2>1. /\ run[c].version = campaign[c].version /\ campaign[c].state # "absent"
        /\ run[c].version \in approved
    BY <1>1, <1>2, <1>10 DEF CampaignInv, AskedInv
  <2>. QED
    BY <1>1, <1>3, <1>8, <1>10, <1>11, <2>1, AskedSame DEF CampaignInv
<1>19. CollectorInv(c)'
  <2>1. Truthful(c, run[c].collector)' /\ Settled(c, run[c].collector)' /\ Complete(c, run[c].collector)'
    BY <1>5, <1>8, <1>10, <1>15 DEF Truthful, Settled, Complete
  <2>2. /\ campaign'[c].binding = NoFile /\ checkpoint'[c] # NoFile /\ run'[c].pc = l
        /\ checkpoint'[c] = run'[c].collector
    BY <1>5, <1>8, <1>10, <1>11
  <2>. QED
    BY <2>1, <2>2 DEF CollectorInv, Collecting
<1>20. BindingInv(c)'
  BY <1>5, <1>11 DEF BindingInv
<1>. QED
  BY <1>11, <1>13, <1>14, <1>16, <1>17, <1>18, <1>19, <1>20, CampaignStep DEF CampaignInv

LEMMA BindStep ==
  ASSUME AuditInv, NEW c \in Campaigns, Bind(c) \/ Optimize(c)
  PROVE  AuditInv'
<1>1. CampaignInv(c) /\ Functions
  BY DEF AuditInv
<1>2. run[c].pc \in {"bind", "optimizing"}
  BY DEF Bind, Optimize, At
<1>3. PICK r \in Processes(c) : r = run[c]
  BY <1>1, <1>2, ProcessIs DEF CampaignInv
<1>4. PICK l \in {"cleanup", "rounds"} : run' = [run EXCEPT ![c].pc = l] /\ (l = "cleanup" => Bind(c))
  BY DEF Bind, Optimize, Goto
<1>5. PICK q : q = [r EXCEPT !.pc = l]
  OBVIOUS
<1>6. q \in Processes(c) /\ q.pc = l /\ q.version = r.version
  BY <1>5 DEF Processes, Points
<1>7. run' = [run EXCEPT ![c] = q]
  BY <1>3, <1>4, <1>5
<1>8. run'[c] = q /\ run'[c] # Idle /\ run[c] # Idle /\ Only(c, run, run')
  BY <1>2, <1>6, <1>7, RunWrite
<1>9. UNCHANGED <<files, asked>> /\ Grows
  BY OwnerSame DEF Bind, Optimize, World
<1>10. /\ run[c].version = campaign[c].version /\ campaign[c].state # "absent"
       /\ run[c].version \in approved
  BY <1>1, <1>2, <1>8 DEF CampaignInv, AskedInv
<1>11. Bind(c) => Sound(c)
  BY <1>1 DEF Bind, At, CampaignInv, CollectorInv
<1>12. /\ Shaped(campaign'[c]) /\ campaign'[c].state \in States \ {"absent"}
       /\ campaign'[c].version = campaign[c].version
       /\ campaign'[c].binding = campaign[c].binding \/ (campaign'[c].binding = BindingOf(c) /\ Sound(c))
       /\ Only(c, campaign, campaign')
  <2>0. Shaped(campaign[c]) /\ campaign[c].state \in States
    BY <1>1 DEF CampaignInv, CampaignTyped
  <2>1. CASE Bind(c)
    <3>1. PICK b : b = BindingOf(c)
      OBVIOUS
    <3>2. PICK old : old = campaign[c]
      OBVIOUS
    <3>3. old = [state |-> old.state, version |-> old.version, binding |-> old.binding]
      BY <2>0, <3>2 DEF Shaped
    <3>4. PICK x : x = [old EXCEPT !.binding = b]
      OBVIOUS
    <3>5. x = [state |-> old.state, version |-> old.version, binding |-> b]
      BY <3>3, <3>4
    <3>6. campaign' = [campaign EXCEPT ![c] = x]
      BY <2>1, <3>1, <3>2, <3>4 DEF Bind
    <3>7. campaign'[c] = x /\ Only(c, campaign, campaign')
      BY <1>1, <3>6, WriteIs DEF Functions
    <3>. QED
      BY <1>10, <1>11, <2>0, <2>1, <3>1, <3>2, <3>5, <3>7 DEF Shaped
  <2>2. CASE Optimize(c)
    <3>1. campaign' = [campaign EXCEPT ![c].state = "running"]
      BY <2>2 DEF Optimize
    <3>2. Functions /\ Shaped(campaign[c])
      BY <1>1, <2>0
    <3>3. /\ Shaped(campaign'[c]) /\ campaign'[c].state = "running"
          /\ campaign'[c].version = campaign[c].version
          /\ campaign'[c].binding = campaign[c].binding /\ Only(c, campaign, campaign')
      BY <3>1, <3>2, StateIs, Zenon
    <3>. QED
      BY <3>3 DEF States
  <2>. QED
    BY <2>1, <2>2
<1>13. OnlyWrites(c)
  BY <1>8, <1>9, <1>12, Unwritten DEF OnlyWrites, files
<1>14. CampaignTyped(c)'
  BY <1>1, <1>6, <1>8, <1>9, <1>12 DEF CampaignInv, CampaignTyped, Reported, files
<1>15. FilesInv(c)'
  BY <1>1, <1>9, FilesSame DEF CampaignInv, SameFiles, files
<1>16. BudgetInv(c)'
  BY <1>1, <1>6, <1>8, <1>9 DEF CampaignInv, BudgetInv, files
<1>17. AskedInv(c)'
  BY <1>1, <1>3, <1>6, <1>8, <1>9, <1>10, <1>12, AskedSame DEF CampaignInv, files
<1>18. Sound(c)' = Sound(c) /\ BindingOf(c)' = BindingOf(c)
  BY <1>9, BoundSame DEF files
<1>19. CollectorInv(c)'
  BY <1>4, <1>6, <1>8, <1>11, <1>18 DEF CollectorInv, Collecting
<1>20. BindingInv(c)'
  <2>1. CASE campaign'[c].binding = campaign[c].binding
    BY <1>1, <1>9, <2>1, BindingSame DEF CampaignInv, files
  <2>2. CASE campaign'[c].binding = BindingOf(c) /\ Sound(c)
    BY <1>18, <2>2 DEF BindingInv, Bound
  <2>. QED
    BY <1>12, <2>1, <2>2
<1>. QED
  BY <1>9, <1>13, <1>14, <1>15, <1>16, <1>17, <1>19, <1>20, CampaignStep DEF CampaignInv

(* The checkpoint goes only when both artifacts are there.                    *)
LEMMA CleanupStep ==
  ASSUME AuditInv, NEW c \in Campaigns, Cleanup(c)
  PROVE  AuditInv'
<1>1. CampaignInv(c) /\ Functions
  BY DEF AuditInv
<1>2. run[c].pc = "cleanup" /\ Sound(c)
  BY <1>1 DEF Cleanup, At, CampaignInv, CollectorInv
<1>3. PICK r \in Processes(c) : r = run[c]
  BY <1>1, <1>2, ProcessIs DEF CampaignInv
<1>4. PICK q : q = [r EXCEPT !.pc = "optimizing"]
  OBVIOUS
<1>5. q \in Processes(c) /\ q.pc = "optimizing" /\ q.version = r.version
  BY <1>4 DEF Processes, Points
<1>6. run' = [run EXCEPT ![c] = q]
  BY <1>3, <1>4 DEF Cleanup, Goto
<1>7. UNCHANGED <<campaign, observations, report, asked, budget>> /\ Grows
  BY OwnerSame DEF Cleanup, World
<1>8. checkpoint'[c] \in {checkpoint[c], NoFile} /\ Only(c, checkpoint, checkpoint')
  <2>1. CASE checkpoint' = checkpoint
    BY <1>1, <2>1, Unwritten
  <2>2. CASE checkpoint' = [checkpoint EXCEPT ![c] = NoFile]
    BY <1>1, <2>2, WriteIs DEF Functions
  <2>. QED
    BY <2>1, <2>2 DEF Cleanup
<1>9. budget'[c] \in 0..MaxCalls[c] \cup {NoFile} /\ Only(c, budget, budget')
  BY <1>1, <1>7, Unwritten DEF CampaignInv, CampaignTyped
<1>10. checkpoint'[c] \in Observations(c) \cup {NoFile}
  BY <1>1, <1>8 DEF CampaignInv, CampaignTyped
<1>11. /\ OnlyWrites(c) /\ CampaignTyped(c)' /\ AskedInv(c)' /\ BindingInv(c)' /\ run'[c] = q
  BY <1>2, <1>3, <1>5, <1>6, <1>7, <1>8, <1>9, <1>10, WorkStep
<1>12. FilesInv(c)'
  <2>1. Existing(c)'
    BY <1>2, <1>7, BoundSame DEF Sound
  <2>2. ASSUME checkpoint'[c] # NoFile
        PROVE  Truthful(c, checkpoint[c])' /\ (observations[c] # NoFile => checkpoint'[c] = observations'[c])
    <3>1. checkpoint'[c] = checkpoint[c] /\ Truthful(c, checkpoint[c])
      BY <1>1, <1>8, <2>2 DEF CampaignInv, FilesInv
    <3>2. PICK obs : obs = checkpoint[c]
      OBVIOUS
    <3>3. Truthful(c, obs)'
      BY <1>7, <3>1, <3>2, TruthfulStays
    <3>4. Truthful(c, checkpoint[c])'
      BY <3>1, <3>2, <3>3 DEF Truthful
    <3>. QED
      BY <1>1, <1>7, <2>2, <3>1, <3>4 DEF CampaignInv, FilesInv
  <2>3. ASSUME observations[c] # NoFile
        PROVE  Truthful(c, observations[c])' /\ Complete(c, observations[c])'
    <3>1. PICK obs : obs = observations[c]
      OBVIOUS
    <3>2. Truthful(c, obs) /\ Complete(c, obs)
      BY <1>1, <2>3, <3>1 DEF CampaignInv, FilesInv
    <3>3. Truthful(c, obs)'
      BY <1>7, <3>2, TruthfulStays
    <3>. QED
      BY <1>7, <3>1, <3>2, <3>3 DEF Truthful, Complete
  <2>. QED
    BY <1>7, <2>1, <2>2, <2>3 DEF FilesInv
<1>13. BudgetInv(c)'
  BY <1>1, <1>5, <1>7, <1>11 DEF CampaignInv, BudgetInv
<1>14. CollectorInv(c)'
  BY <1>5, <1>11 DEF CollectorInv, Collecting
<1>. QED
  BY <1>7, <1>11, <1>12, <1>13, <1>14, CampaignStep DEF CampaignInv

(* A comparison adds a verdict only.                                          *)
LEMMA QuietStep ==
  ASSUME AuditInv, UNCHANGED <<owner, campaign, files, run, asked, faults>>
  PROVE  AuditInv'
<1>1. Grows
  BY OwnerSame DEF owner
<1>2. Functions'
  BY DEF AuditInv, Functions, files
<1>3. \A c \in Campaigns : Same(c)
  BY DEF Same, files
<1>4. \A c \in Campaigns : CampaignInv(c)'
  BY <1>1, <1>3, Elsewhere DEF AuditInv
<1>. QED
  BY <1>1, <1>2, <1>4 DEF AuditInv, Grows

LEMMA InitAudit == Init => AuditInv
<1> SUFFICES ASSUME Init PROVE AuditInv
  OBVIOUS
<1>1. Functions
  BY DEF Init, Functions
<1>2. OwnerInv
  BY AuditAssumption DEF Init, OwnerInv
<1>3. ASSUME NEW c \in Campaigns PROVE CampaignInv(c)
  <2>1. /\ campaign[c] = [state |-> "absent", version |-> NoFile, binding |-> NoFile]
        /\ checkpoint[c] = NoFile /\ budget[c] = NoFile /\ observations[c] = NoFile
        /\ report[c] = NoFile /\ run[c] = Idle /\ asked[c] = <<>>
    BY <1>3 DEF Init
  <2>2. run[c].pc = "idle" /\ campaign[c].state = "absent" /\ campaign[c].binding = NoFile
    BY <2>1 DEF Idle
  <2>3. Shaped(campaign[c])
    BY <2>1 DEF Shaped
  <2>4. CampaignTyped(c)
    BY <2>1, <2>2, <2>3 DEF CampaignTyped, States
  <2>5. FilesInv(c)
    BY <2>1 DEF FilesInv
  <2>6. BudgetInv(c)
    BY <2>1, <2>2 DEF BudgetInv
  <2>7. AskedInv(c)
    BY <2>1, <2>2 DEF AskedInv, Entries
  <2>8. CollectorInv(c)
    BY <2>2 DEF CollectorInv, Collecting
  <2>9. BindingInv(c)
    BY <2>2 DEF BindingInv
  <2>. QED
    BY <2>4, <2>5, <2>6, <2>7, <2>8, <2>9 DEF CampaignInv
<1>. QED
  BY <1>1, <1>2, <1>3 DEF AuditInv

LEMMA NextAudit == AuditInv /\ [Next]_vars => AuditInv'
<1> SUFFICES ASSUME AuditInv, [Next]_vars PROVE AuditInv'
  OBVIOUS
<1>1. CASE Preview \/ Approve \/ EditAnchors
  BY <1>1, OwnerStep
<1>2. ASSUME NEW c \in Campaigns, Start(c) \/ Resume(c) PROVE AuditInv'
  BY <1>2, StartStep
<1>3. ASSUME NEW c \in Campaigns, Audit(c) PROVE AuditInv'
  <2>1. CASE CheckApproval(c)
    BY <1>3, <2>1, StopSteps, MoveSteps
  <2>2. CASE Rebind(c) \/ Reload(c) \/ Finish(c)
    BY <1>3, <2>2, MoveSteps
  <2>3. CASE Violate(c) \/ Conclude(c)
    BY <1>3, <2>3, StopSteps
  <2>4. CASE Load(c)
    BY <1>3, <2>4, LoadStep
  <2>5. CASE OpenBudget(c)
    BY <1>3, <2>5, OpenBudgetStep
  <2>6. CASE Mark(c)
    BY <1>3, <2>6, MarkStep
  <2>7. CASE Exhaust(c)
    BY <1>3, <2>7, ExhaustStep
  <2>8. CASE Count(c)
    BY <1>3, <2>8, CountStep
  <2>9. CASE Call(c)
    BY <1>3, <2>9, CallStep
  <2>10. CASE Save(c)
    BY <1>3, <2>10, SaveStep
  <2>11. CASE WriteObservations(c) \/ WriteReport(c)
    BY <1>3, <2>11, ReportingStep
  <2>12. CASE Bind(c) \/ Optimize(c)
    BY <1>3, <2>12, BindStep
  <2>13. CASE Cleanup(c)
    BY <1>3, <2>13, CleanupStep
  <2>. QED
    BY <1>3, <2>1, <2>2, <2>3, <2>4, <2>5, <2>6, <2>7, <2>8, <2>9, <2>10, <2>11, <2>12, <2>13 DEF Audit
<1>4. ASSUME NEW c \in Campaigns, RoundsFail(c) \/ WriteFails(c) \/ Kill(c) PROVE AuditInv'
  BY <1>4, StopSteps
<1>5. ASSUME NEW b \in Campaigns, NEW t \in Campaigns, Compare(b, t) PROVE AuditInv'
  BY <1>5, QuietStep DEF Compare
<1>6. CASE UNCHANGED vars
  BY <1>6, QuietStep DEF vars
<1>. QED
  BY <1>1, <1>2, <1>3, <1>4, <1>5, <1>6 DEF Next

LEMMA AuditAlways == Spec => []AuditInv
BY InitAudit, NextAudit, PTL DEF Spec

-----------------------------------------------------------------------------
(* Every file of an audit and every process has its type, and a count never   *)
(* passes the campaign's budget.                                              *)
THEOREM AuditTyped == Spec => []TypeOK
<1>1. AuditInv => TypeOK
  <2> SUFFICES ASSUME AuditInv PROVE TypeOK
    OBVIOUS
  <2>1. OwnerInv /\ \A c \in Campaigns : CampaignTyped(c)
    BY DEF AuditInv, CampaignInv
  <2>2. approved \subseteq Versions
    BY <2>1 DEF OwnerInv
  <2>3. ASSUME NEW c \in Campaigns
        PROVE  run[c] = Idle \/ /\ run[c].pc \in Points /\ run[c].collector \in Observations(c)
                                /\ run[c].count \in 0..MaxCalls[c]
    BY <2>1 DEF CampaignTyped, Processes
  <2>. QED
    BY <2>1, <2>2, <2>3 DEF TypeOK, OwnerInv, CampaignTyped, States, Reported
<1>. QED
  BY <1>1, AuditAlways, PTL

(* No evaluator is asked twice about an anchor, and the durable budget        *)
(* accounts for every call, whatever fails, dies and is resumed.              *)
THEOREM AuditCallsAccounted == Spec => []CallsAccounted
<1>1. AuditInv => CallsAccounted
  <2> SUFFICES ASSUME AuditInv, NEW c \in Campaigns
               PROVE  /\ \A i, j \in DOMAIN asked[c] :
                           asked[c][i].anchor = asked[c][j].anchor /\ asked[c][i].slot = asked[c][j].slot
                             => i = j
                      /\ asked[c] # <<>> => Len(asked[c]) <= budget[c] /\ budget[c] <= MaxCalls[c]
    BY Zenon DEF CallsAccounted
  <2>1. AskedInv(c) /\ BudgetInv(c) /\ CampaignTyped(c)
    BY DEF AuditInv, CampaignInv
  <2>2. budget[c] # NoFile => budget[c] <= MaxCalls[c]
    BY <2>1, AuditAssumption DEF CampaignTyped
  <2>. QED
    BY <2>1, <2>2 DEF AskedInv, BudgetInv
<1>. QED
  BY <1>1, AuditAlways, PTL

(* Every question is about anchors the owner has reviewed, of the version the *)
(* campaign was started with.                                                 *)
THEOREM AuditAskedReviewed == Spec => []AskedReviewed
<1>1. AuditInv => AskedReviewed
  BY DEF AuditInv, CampaignInv, AskedInv, AskedReviewed
<1>. QED
  BY <1>1, AuditAlways, PTL

(* What the checkpoint and the observations say of a slot is what its         *)
(* evaluator answered, and a slot said not to be attempted was never asked.   *)
THEOREM AuditReportedTruly == Spec => []ReportedTruly
<1>1. AuditInv => ReportedTruly
  BY DEF AuditInv, CampaignInv, FilesInv, ReportedTruly
<1>. QED
  BY <1>1, AuditAlways, PTL

(* What campaign.json binds is in the files.                                  *)
THEOREM AuditBindingHolds == Spec => []BindingHolds
<1>1. AuditInv => BindingHolds
  BY DEF AuditInv, CampaignInv, BindingInv, BindingHolds
<1>. QED
  BY <1>1, AuditAlways, PTL

-----------------------------------------------------------------------------
(* A mean beyond the threshold has a term beyond it.                          *)
LEMMA DetectedHasTerm ==
  ASSUME NEW S, IsFiniteSet(S), NEW W \in [S -> Int], NEW t \in Nat, Detected(W, t)
  PROVE  \E a \in S : Magnitude(W[a]) > t
<1> SUFFICES ASSUME \A a \in S : ~(Magnitude(W[a]) > t) PROVE FALSE
  OBVIOUS
<1>1. \A a \in S : -t <= W[a] /\ W[a] <= t
  BY DEF Magnitude
<1>2. PICK sum \in Int : /\ sum = MapThenSumSet(LAMBDA c : W[c], S)
                         /\ -(t * Cardinality(S)) <= sum /\ sum <= t * Cardinality(S)
  BY <1>1, SumBounded
<1>3. DOMAIN W = S
  OBVIOUS
<1>4. Magnitude(MapThenSumSet(LAMBDA c : W[c], S)) > t * Cardinality(S)
  BY <1>3, Zenon DEF Detected
<1>5. t * Cardinality(S) \in Nat
  BY FS_CardinalityType
<1>. QED
  BY <1>2, <1>4, <1>5 DEF Magnitude

LEMMA AnchorsFinite == IsFiniteSet(Anchors)
<1>1. Order \in Seq(Anchors) /\ \A a \in Anchors : \E i \in DOMAIN Order : Order[i] = a
  BY AuditAssumption
<1>2. PICK n \in Nat : n = Len(Order) /\ DOMAIN Order = 1..n
  BY <1>1
<1>3. IsFiniteSet(1..n)
  BY FS_Interval
<1>4. Order \in Surjection(1..n, Anchors)
  <2>1. Order \in [1..n -> Anchors]
    BY <1>1, <1>2
  <2>. QED
    BY <1>1, <1>2, <2>1 DEF Surjection
<1>. QED
  BY <1>3, <1>4, FS_Surjection

(* What is scored is an answer that the evaluator gave.                       *)
LEMMA ScoredIs ==
  ASSUME NEW c \in Campaigns, NEW obs \in Observations(c), Truthful(c, obs),
         NEW s \in SlotSet(c), NEW a \in Scored(obs, s)
  PROVE  /\ a \in Anchors /\ \A d \in Dims : obs[a][s].scores[d] \in Int
         /\ \E e \in Entry(c, a, s) : e.answer = obs[a][s] /\ e.answer.state = "completed"
<1>1. a \in Anchors /\ obs[a][s].state = "completed"
  BY DEF Scored
<1>2. PICK o : o = obs[a][s]
  OBVIOUS
<1>3. o \in Observed \cup {Absent, Pending} /\ o.state = "completed"
  BY <1>1, <1>2, ObservationsAre
<1>4. Absent.state = "absent" /\ Pending.state = "pending"
  BY DEF Absent, Pending
<1>5. \A k : Unavailable(k).state = "unavailable"
  BY DEF Unavailable
<1>6. NotAttempted.state = "unavailable" /\ Interrupted.state = "unavailable"
  BY <1>5, Zenon DEF NotAttempted, Interrupted
<1>7. o \notin {Absent, Pending, NotAttempted, Interrupted}
  BY <1>3, <1>4, <1>6
<1>8. PICK f \in Answers : o = Completed(f)
  BY <1>3, <1>5, <1>7 DEF Observed
<1>9. o.scores = f /\ f \in [Dims -> 0..Full] /\ Full \in Nat
  <2>1. IsScore(f) /\ Full \in Nat
    BY AuditAssumption
  <2>. QED
    BY <1>8, <2>1 DEF Completed, IsScore
<1>10. \A d \in Dims : f[d] \in Int
  BY <1>9
<1>11. \E e \in Entry(c, a, s) : e.answer = o
  BY <1>1, <1>2, <1>7 DEF Truthful
<1>. QED
  BY <1>1, <1>2, <1>3, <1>9, <1>10, <1>11

LEMMA DriftHasAnswers ==
  ASSUME AuditInv, NEW b \in Campaigns, NEW t \in Campaigns, Bound(b), Bound(t),
         NEW s \in DriftOf(b, t).drifted
  PROVE  \E a \in Anchors : \E e \in Entry(b, a, s), f \in Entry(t, a, s) :
           /\ e.answer.state = "completed" /\ f.answer.state = "completed"
           /\ \E d \in Dims : Magnitude(f.answer.scores[d] - e.answer.scores[d]) > Threshold[t][d]
<1>1. PICK base \in Observations(b) : base = observations[b] /\ Truthful(b, base)
  <2>1. observations[b] # NoFile /\ CampaignInv(b)
    BY DEF AuditInv, Bound, Sound, Existing
  <2>. QED
    BY <2>1 DEF CampaignInv, CampaignTyped, FilesInv
<1>2. PICK target \in Observations(t) : target = observations[t] /\ Truthful(t, target)
  <2>1. observations[t] # NoFile /\ CampaignInv(t)
    BY DEF AuditInv, Bound, Sound, Existing
  <2>. QED
    BY <2>1 DEF CampaignInv, CampaignTyped, FilesInv
<1>3. PICK d \in Dims : /\ s \in SlotSet(b) \cap SlotSet(t)
                        /\ Detected(Deltas(base, target, s, d), Threshold[t][d])
  BY <1>1, <1>2, Zenon DEF DriftOf, Drift
<1>4. PICK S : S = Scored(base, s) \cap Scored(target, s)
  OBVIOUS
<1>5. PICK W : W = Deltas(base, target, s, d)
  OBVIOUS
<1>6. W = [a \in S |-> target[a][s].scores[d] - base[a][s].scores[d]]
  BY <1>4, <1>5, Zenon DEF Deltas
<1>7. ASSUME NEW a \in S
      PROVE  /\ a \in Anchors
             /\ base[a][s].scores[d] \in Int /\ target[a][s].scores[d] \in Int
             /\ \E e \in Entry(b, a, s) : e.answer = base[a][s] /\ e.answer.state = "completed"
             /\ \E f \in Entry(t, a, s) : f.answer = target[a][s] /\ f.answer.state = "completed"
  <2>1. a \in Scored(base, s) /\ a \in Scored(target, s) /\ s \in SlotSet(b) /\ s \in SlotSet(t)
    BY <1>3, <1>4
  <2>2. /\ a \in Anchors /\ base[a][s].scores[d] \in Int
        /\ \E e \in Entry(b, a, s) : e.answer = base[a][s] /\ e.answer.state = "completed"
    BY <1>1, <2>1, ScoredIs
  <2>3. /\ target[a][s].scores[d] \in Int
        /\ \E f \in Entry(t, a, s) : f.answer = target[a][s] /\ f.answer.state = "completed"
    BY <1>2, <2>1, ScoredIs
  <2>. QED
    BY <2>2, <2>3
<1>8. W \in [S -> Int]
  BY <1>6, <1>7
<1>9. IsFiniteSet(S)
  BY <1>7, AnchorsFinite, FS_Subset
<1>10. Threshold[t][d] \in Nat
  BY AuditAssumption
<1>11. PICK a \in S : Magnitude(W[a]) > Threshold[t][d]
  BY <1>3, <1>5, <1>8, <1>9, <1>10, DetectedHasTerm
<1>12. W[a] = target[a][s].scores[d] - base[a][s].scores[d]
  BY <1>6
<1>13. PICK e \in Entry(b, a, s) : e.answer = base[a][s] /\ e.answer.state = "completed"
  BY <1>7
<1>14. PICK f \in Entry(t, a, s) : f.answer = target[a][s] /\ f.answer.state = "completed"
  BY <1>7
<1>15. Magnitude(f.answer.scores[d] - e.answer.scores[d]) > Threshold[t][d]
  BY <1>11, <1>12, <1>13, <1>14
<1>. QED
  BY <1>7, <1>13, <1>14, <1>15

(* No question is forgotten, and only a comparison adds a verdict.            *)
Evidenced(v) ==
  \A s \in v.drift.drifted : \E a \in Anchors :
    \E e \in Entry(v.base, a, s), f \in Entry(v.target, a, s) :
      e.answer.state = "completed" /\ f.answer.state = "completed" /\ Far(v, e, f)
DriftInv == \A v \in verdicts : v.base \in Campaigns /\ v.target \in Campaigns /\ Evidenced(v)

LEMMA AskedGrows ==
  ASSUME AuditInv, [Next]_vars, NEW c \in Campaigns
  PROVE  Entries(c) \subseteq Entries(c)'
<1>1. asked[c] \in Seq(Questions(c))
  BY DEF AuditInv, CampaignInv, CampaignTyped
<1>2. CASE asked' = asked
  BY <1>2 DEF Entries
<1>3. CASE \E d \in Campaigns : Call(d)
  <2>0. PICK d \in Campaigns : \E x : asked' = [asked EXCEPT ![d] = Append(@, x)]
    BY <1>3 DEF Call
  <2>1. PICK x : asked' = [asked EXCEPT ![d] = Append(@, x)]
    BY <2>0
  <2>2. PICK F : F = [e \in Campaigns |-> asked[e]] /\ asked = F
    BY DEF AuditInv, Functions
  <2>3. asked'[c] = asked[c] \/ asked'[c] = Append(asked[c], x)
    BY <2>1, <2>2
  <2>4. CASE asked'[c] = asked[c]
    BY <2>4 DEF Entries
  <2>5. CASE asked'[c] = Append(asked[c], x)
    <3>1. \A i \in DOMAIN asked[c] : i \in DOMAIN asked'[c] /\ asked'[c][i] = asked[c][i]
      BY <1>1, <2>5
    <3>. QED
      BY <3>1 DEF Entries
  <2>. QED
    BY <2>3, <2>4, <2>5
<1>4. \/ asked' = asked
      \/ \E d \in Campaigns : Call(d)
  <2>1. CASE Preview \/ Approve \/ EditAnchors
    BY <2>1 DEF Preview, Approve, EditAnchors
  <2>2. ASSUME NEW d \in Campaigns, Start(d) \/ Resume(d) \/ RoundsFail(d) \/ WriteFails(d) \/ Kill(d)
        PROVE  asked' = asked
    BY <2>2 DEF Start, Resume, World, RoundsFail, WriteFails, Kill
  <2>3. ASSUME NEW d \in Campaigns, Audit(d), ~Call(d)
        PROVE  asked' = asked
    BY <2>3 DEF Audit, World, CheckApproval, Rebind, Load, OpenBudget, Mark, Exhaust, Count, Violate,
                Save, Finish, WriteObservations, WriteReport, Reload, Bind, Cleanup, Optimize, Conclude
  <2>4. ASSUME NEW b \in Campaigns, NEW t \in Campaigns, Compare(b, t) PROVE asked' = asked
    BY <2>4 DEF Compare
  <2>5. CASE UNCHANGED vars
    BY <2>5 DEF vars
  <2>. QED
    BY <2>1, <2>2, <2>3, <2>4, <2>5, Zenon DEF Next
<1>. QED
  BY <1>2, <1>3, <1>4

LEMMA VerdictsAre ==
  ASSUME [Next]_vars
  PROVE  verdicts' = verdicts \/ \E b, t \in Campaigns : Compare(b, t)
<1>1. CASE Preview \/ Approve \/ EditAnchors
  BY <1>1 DEF Preview, Approve, EditAnchors
<1>2. ASSUME NEW d \in Campaigns, Start(d) \/ Resume(d) \/ RoundsFail(d) \/ WriteFails(d) \/ Kill(d)
      PROVE  verdicts' = verdicts
  BY <1>2 DEF Start, Resume, World, RoundsFail, WriteFails, Kill
<1>3. ASSUME NEW d \in Campaigns, Audit(d)
      PROVE  verdicts' = verdicts
  BY <1>3 DEF Audit, World, CheckApproval, Rebind, Load, OpenBudget, Mark, Exhaust, Count, Call, Violate,
              Save, Finish, WriteObservations, WriteReport, Reload, Bind, Cleanup, Optimize, Conclude
<1>4. CASE UNCHANGED vars
  BY <1>4 DEF vars
<1>. QED
  BY <1>1, <1>2, <1>3, <1>4, Zenon DEF Next

LEMMA NextDrift == AuditInv /\ DriftInv /\ [Next]_vars => DriftInv'
<1> SUFFICES ASSUME AuditInv, DriftInv, [Next]_vars PROVE DriftInv'
  OBVIOUS
<1>1. \A c \in Campaigns : \A a, s : Entry(c, a, s) \subseteq Entry(c, a, s)'
  BY AskedGrows DEF Entry
<1>2. ASSUME NEW v, v.base \in Campaigns, v.target \in Campaigns, Evidenced(v)
      PROVE  Evidenced(v)'
  <2> SUFFICES ASSUME NEW s \in v.drift.drifted
               PROVE  \E a \in Anchors :
                        \E e \in Entry(v.base, a, s)', f \in Entry(v.target, a, s)' :
                          e.answer.state = "completed" /\ f.answer.state = "completed" /\ Far(v, e, f)
    BY Zenon DEF Evidenced, Far
  <2>1. PICK a \in Anchors : \E e \in Entry(v.base, a, s), f \in Entry(v.target, a, s) :
          e.answer.state = "completed" /\ f.answer.state = "completed" /\ Far(v, e, f)
    BY <1>2, Zenon DEF Evidenced
  <2>2. /\ Entry(v.base, a, s) \subseteq Entry(v.base, a, s)'
        /\ Entry(v.target, a, s) \subseteq Entry(v.target, a, s)'
    BY <1>1, <1>2, Zenon
  <2>. QED
    BY <2>1, <2>2, Zenon
<1>3. CASE verdicts' = verdicts
  BY <1>2, <1>3, Zenon DEF DriftInv
<1>4. ASSUME NEW b \in Campaigns, NEW t \in Campaigns, Compare(b, t) PROVE DriftInv'
  <2>1. PICK v : v = [base |-> b, target |-> t, drift |-> DriftOf(b, t)]
    OBVIOUS
  <2>2. v.base = b /\ v.target = t /\ v.drift = DriftOf(b, t)
    BY <2>1
  <2>3. verdicts' = verdicts \cup {v} /\ Bound(b) /\ Bound(t)
    BY <1>4, <2>1 DEF Compare
  <2>4. Evidenced(v)
    <3> SUFFICES ASSUME NEW s \in DriftOf(b, t).drifted
                 PROVE  \E a \in Anchors : \E e \in Entry(b, a, s), f \in Entry(t, a, s) :
                          e.answer.state = "completed" /\ f.answer.state = "completed" /\ Far(v, e, f)
      BY <2>2 DEF Evidenced
    <3>0. PICK a \in Anchors : \E e \in Entry(b, a, s), f \in Entry(t, a, s) :
            /\ e.answer.state = "completed" /\ f.answer.state = "completed"
            /\ \E d \in Dims : Magnitude(f.answer.scores[d] - e.answer.scores[d]) > Threshold[t][d]
      BY <2>3, DriftHasAnswers, Zenon
    <3>1. PICK e \in Entry(b, a, s), f \in Entry(t, a, s) :
            /\ e.answer.state = "completed" /\ f.answer.state = "completed"
            /\ \E d \in Dims : Magnitude(f.answer.scores[d] - e.answer.scores[d]) > Threshold[t][d]
      BY <3>0
    <3>2. Far(v, e, f)
      BY <2>2, <3>1 DEF Far
    <3>. QED
      BY <3>1, <3>2
  <2>5. Evidenced(v)' /\ v.base \in Campaigns /\ v.target \in Campaigns
    BY <1>2, <2>2, <2>4, Zenon
  <2>6. \A w \in verdicts : w.base \in Campaigns /\ w.target \in Campaigns /\ Evidenced(w)'
    BY <1>2, Zenon DEF DriftInv
  <2>. QED
    BY <2>3, <2>5, <2>6, Zenon DEF DriftInv
<1>. QED
  BY <1>3, <1>4, VerdictsAre

(* A drift found between two campaigns is the evaluators': some slot of both  *)
(* gave answers to one anchor that differ by more than the threshold.         *)
THEOREM AuditDriftEvidenced == Spec => []DriftEvidenced
<1>1. Init => DriftInv
  BY DEF Init, DriftInv
<1>2. DriftInv => DriftEvidenced
  BY Zenon DEF DriftInv, Evidenced, DriftEvidenced
<1>. QED
  BY <1>1, <1>2, NextDrift, AuditAlways, PTL DEF Spec

=============================================================================
