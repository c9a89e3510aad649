-------------------------- MODULE ActiveStateProofs --------------------------
(***************************************************************************)
(* Proofs about ActiveState for any slots, digests and evidence, any number *)
(* of stops and any length of the journal, for careful callers and for      *)
(* stops at the two points recovery is written for.                         *)
(***************************************************************************)
EXTENDS ActiveState, TLAPS

(* Callers recover before they go on and never apply a preview twice; a        *)
(* manager stops after the pointer replacement or after the commit entry.      *)
Careful ==
  /\ Liberties = {}
  /\ CrashPoints \subseteq {"pointer", "committed"}

USE DEF Begin, End, Goto, Point

(* An entry of a known action extends a journal of entries.                    *)
LEMMA WriteEntry ==
  ASSUME journal \in Seq(Entries), NEW a \in Effective \cup {"prepare"},
         NEW t \in Transactions, Write(a, t)
  PROVE  /\ journal' \in Seq(Entries)
         /\ Len(journal') = Len(journal) + 1
         /\ \A i \in DOMAIN journal : journal'[i] = journal[i]
         /\ journal'[Len(journal) + 1] = [action |-> a, tx |-> t]
         /\ DOMAIN journal = 1..Len(journal) /\ DOMAIN journal' = 1..(Len(journal) + 1)
<1> DEFINE e == [action |-> a, tx |-> t]
<1>1. e \in Entries
  BY DEF Entries
<1>2. journal' = Append(journal, e)
  BY DEF Write
<1> HIDE DEF e
<1>. QED
  BY <1>1, <1>2 DEF e

-----------------------------------------------------------------------------
(* What an operation in progress knows: its transaction is one, and so is the  *)
(* pending one of an advance or a recovery.                                    *)
InFlight ==
  /\ pc # "idle" => op \in Transactions
  /\ pc \in AdvancePoints \cup {"restored", "rejournaled"} =>
       pending = op /\ op.previous \in Digests
  /\ pending # NoTransaction => pending.previous \in Digests

(* Every reachable state is well typed (all writes of the manager).            *)
THEOREM TypeCorrect == Spec => [](TypeOK /\ InFlight)
<1>1. Init => TypeOK /\ InFlight
  <2> SUFFICES ASSUME Init PROVE TypeOK /\ InFlight
    OBVIOUS
  <2>1. journal \in Seq(Entries)
    BY DEF Init
  <2>2. live \in BOOLEAN /\ crashes \in Nat /\ pointer \in [Slots -> Digests \cup {None}]
    BY DEF Init
  <2>3. pc = "idle" /\ op = NoTransaction /\ pending = NoTransaction
    BY DEF Init
  <2>. QED
    BY <2>1, <2>2, <2>3 DEF TypeOK, InFlight, AdvancePoints
<1>2. TypeOK /\ InFlight /\ [Next]_vars => (TypeOK /\ InFlight)'
  <2> SUFFICES ASSUME TypeOK, InFlight, [Next]_vars PROVE (TypeOK /\ InFlight)'
    OBVIOUS
  <2>c. Crash => crashes' \in Nat
    <3>1. crashes \in Nat /\ (Crash => crashes' = crashes + 1)
      BY Zenon DEF TypeOK, Crash
    <3>. QED
      BY <3>1
  <2> USE StateAssumption DEF TypeOK, InFlight, AdvancePoints, OtherPoints
  <2>1. CASE Open
    BY <2>1 DEF Open
  <2>2. CASE Close
    BY <2>2 DEF Close
  <2>3. CASE FinishInitialize
    <3>1. journal' \in Seq(Entries)
      BY <2>3, WriteEntry DEF FinishInitialize, Effective
    <3>. QED
      BY <2>3, <3>1 DEF FinishInitialize
  <2>4. CASE Prepare
    <3>1. journal' \in Seq(Entries)
      BY <2>4, WriteEntry DEF Prepare, Effective
    <3>. QED
      BY <2>4, <3>1 DEF Prepare
  <2>5. CASE ReplacePointer
    BY <2>5 DEF ReplacePointer, Transactions
  <2>6. CASE Commit
    <3>1. journal' \in Seq(Entries)
      BY <2>6, WriteEntry DEF Commit, Effective
    <3>. QED
      BY <2>6, <3>1 DEF Commit
  <2>7. CASE FinishAdvance
    BY <2>7 DEF FinishAdvance
  <2>8. CASE FinishRollback
    <3>1. journal' \in Seq(Entries)
      BY <2>8, WriteEntry DEF FinishRollback, Effective
    <3>. QED
      BY <2>8, <3>1 DEF FinishRollback
  <2>9. CASE RecoverJournal
    <3>1. [op EXCEPT !.active = op.previous] \in Transactions
      BY <2>9 DEF RecoverJournal, Transactions
    <3>2. journal' \in Seq(Entries)
      BY <2>9, <3>1, WriteEntry DEF RecoverJournal, Effective
    <3>. QED
      BY <2>9, <3>2 DEF RecoverJournal
  <2>10. CASE FinishRecover
    BY <2>10 DEF FinishRecover
  <2>11. CASE RecoverCommitted
    BY <2>11 DEF RecoverCommitted
  <2>12. CASE RecoverPointer
    BY <2>12 DEF RecoverPointer, Transactions
  <2>13. CASE Crash
    BY <2>13, <2>c, Zenon DEF Crash
  <2>14. ASSUME NEW s \in Slots, NEW d \in Digests, Initialize(s, d)
         PROVE  (TypeOK /\ InFlight)'
    BY <2>14 DEF Initialize, Ready, Transactions
  <2>15. ASSUME NEW s \in Slots, NEW d \in Digests, Rollback(s, d)
         PROVE  (TypeOK /\ InFlight)'
    BY <2>15 DEF Rollback, Ready, Transactions
  <2>16. ASSUME NEW s \in Slots, NEW d \in Digests, NEW e \in Evidence, Advance(s, d, e)
         PROVE  (TypeOK /\ InFlight)'
    BY <2>16 DEF Advance, Ready, Preview, Transactions
  <2>17. CASE UNCHANGED vars
    BY <2>17 DEF vars
  <2>. QED
    BY <2>1, <2>2, <2>3, <2>4, <2>5, <2>6, <2>7, <2>8, <2>9, <2>10, <2>11, <2>12, <2>13,
       <2>14, <2>15, <2>16, <2>17 DEF Next, Step, Recover
<1>. QED
  BY <1>1, <1>2, PTL DEF Spec

-----------------------------------------------------------------------------
(* Every prefix of a journal that changes a slot has a last entry that does;    *)
(* without it CHOOSE in ActiveAt would say nothing.                            *)
HasLast(j) ==
  \A n \in 0..Len(j), s \in Slots : EffectiveFor(j, n, s) # {} =>
    \E i \in EffectiveFor(j, n, s) : \A k \in EffectiveFor(j, n, s) : k <= i

(* The last effective entry of a prefix is unique, so ActiveAt reads it.        *)
LEMMA ActiveOfLast ==
  ASSUME NEW j, NEW n \in Nat, NEW s \in Slots, NEW i \in EffectiveFor(j, n, s),
         \A k \in EffectiveFor(j, n, s) : k <= i
  PROVE  ActiveAt(j, n, s) = j[i].tx.active
<1> DEFINE m == CHOOSE x \in EffectiveFor(j, n, s) : \A k \in EffectiveFor(j, n, s) : k <= x
<1>1. m \in EffectiveFor(j, n, s) /\ \A k \in EffectiveFor(j, n, s) : k <= m
  OBVIOUS
<1>2. EffectiveFor(j, n, s) \subseteq 1..n
  BY DEF EffectiveFor
<1>3. i <= m /\ m <= i /\ i \in Int /\ m \in Int
  BY <1>1, <1>2
<1>4. i = m
  BY <1>3
<1>5. ActiveAt(j, n, s) = j[m].tx.active
  BY <1>1 DEF ActiveAt
<1>. QED
  BY <1>4, <1>5

(* Appending an entry leaves every earlier prefix alone, and makes the entry's  *)
(* digest active for its slot if it is effective, and nothing else.             *)
LEMMA AppendActive ==
  ASSUME NEW j \in Seq(Entries), NEW e \in Entries, HasLast(j)
  PROVE  LET k == Append(j, e)
         IN  /\ \A n \in 0..Len(j), s \in Slots : ActiveAt(k, n, s) = ActiveAt(j, n, s)
             /\ \A s \in Slots :
                  ActiveAt(k, Len(k), s) = IF e.action \in Effective /\ s = e.tx.slot
                                           THEN e.tx.active ELSE ActiveAt(j, Len(j), s)
             /\ HasLast(k)
<1> DEFINE k == Append(j, e)
           N == Len(j)
<1>0. /\ N \in Nat /\ Len(k) = N + 1
      /\ \A i \in 1..N : k[i] = j[i]
      /\ k[N + 1] = e
  OBVIOUS
<1> HIDE DEF k, N
<1>1. \A n \in 0..N, s \in Slots : EffectiveFor(k, n, s) = EffectiveFor(j, n, s)
  BY <1>0 DEF EffectiveFor
<1>2. ASSUME NEW n \in 0..N, NEW s \in Slots
      PROVE  ActiveAt(k, n, s) = ActiveAt(j, n, s)
  <2>1. CASE EffectiveFor(j, n, s) = {}
    BY <1>1, <2>1 DEF ActiveAt
  <2>2. CASE EffectiveFor(j, n, s) # {}
    <3>1. PICK i \in EffectiveFor(j, n, s) : \A x \in EffectiveFor(j, n, s) : x <= i
      BY <2>2 DEF HasLast, N
    <3>2. ActiveAt(j, n, s) = j[i].tx.active /\ ActiveAt(k, n, s) = k[i].tx.active
      BY <1>0, <1>1, <3>1, ActiveOfLast
    <3>3. i \in 1..N
      BY <1>0, <3>1 DEF EffectiveFor
    <3>. QED
      BY <1>0, <3>2, <3>3
  <2>. QED
    BY <2>1, <2>2
<1>3. ASSUME NEW s \in Slots
      PROVE  /\ e.action \in Effective /\ s = e.tx.slot =>
                  EffectiveFor(k, N + 1, s) = EffectiveFor(j, N, s) \cup {N + 1}
             /\ ~(e.action \in Effective /\ s = e.tx.slot) =>
                  EffectiveFor(k, N + 1, s) = EffectiveFor(j, N, s)
  <2>1. \A i \in 1..(N + 1) : i \in 1..N \/ i = N + 1
    BY <1>0
  <2>2. 1..N \subseteq 1..(N + 1) /\ N + 1 \in 1..(N + 1) /\ N + 1 \notin 1..N
    BY <1>0
  <2>. QED
    BY <1>0, <2>1, <2>2 DEF EffectiveFor
<1>4. ASSUME NEW s \in Slots
      PROVE  ActiveAt(k, N + 1, s) = IF e.action \in Effective /\ s = e.tx.slot
                                     THEN e.tx.active ELSE ActiveAt(j, N, s)
  <2>1. CASE e.action \in Effective /\ s = e.tx.slot
    <3>1. /\ N + 1 \in EffectiveFor(k, N + 1, s)
          /\ \A x \in EffectiveFor(k, N + 1, s) : x <= N + 1
      BY <1>0, <1>3, <2>1 DEF EffectiveFor
    <3>. QED
      BY <1>0, <2>1, <3>1, ActiveOfLast
  <2>2. CASE ~(e.action \in Effective /\ s = e.tx.slot)
    <3>1. EffectiveFor(k, N + 1, s) = EffectiveFor(k, N, s)
      BY <1>0, <1>1, <1>3, <2>2
    <3>2. ActiveAt(k, N + 1, s) = ActiveAt(k, N, s)
      <4>1. CASE EffectiveFor(k, N, s) = {}
        BY <3>1, <4>1 DEF ActiveAt
      <4>2. CASE EffectiveFor(k, N, s) # {}
        <5>1. EffectiveFor(j, N, s) = EffectiveFor(k, N, s) /\ N \in 0..N
          BY <1>0, <1>1
        <5>2. PICK i \in EffectiveFor(k, N, s) : \A x \in EffectiveFor(k, N, s) : x <= i
          BY <4>2, <5>1 DEF HasLast, N
        <5>. QED
          BY <1>0, <3>1, <5>2, ActiveOfLast
      <4>. QED
        BY <4>1, <4>2
    <3>. QED
      BY <1>0, <1>2, <2>2, <3>2
  <2>. QED
    BY <2>1, <2>2
<1>5. HasLast(k)
  <2> SUFFICES ASSUME NEW n \in 0..(N + 1), NEW s \in Slots, EffectiveFor(k, n, s) # {}
               PROVE  \E i \in EffectiveFor(k, n, s) : \A x \in EffectiveFor(k, n, s) : x <= i
    BY <1>0 DEF HasLast
  <2>1. CASE n \in 0..N
    BY <1>1, <2>1 DEF HasLast, N
  <2>2. CASE n = N + 1 /\ e.action \in Effective /\ s = e.tx.slot
    <3>1. /\ N + 1 \in EffectiveFor(k, n, s)
          /\ \A x \in EffectiveFor(k, n, s) : x <= N + 1
      BY <1>0, <1>3, <2>2 DEF EffectiveFor
    <3>. QED
      BY <3>1
  <2>3. CASE n = N + 1 /\ ~(e.action \in Effective /\ s = e.tx.slot)
    <3>1. EffectiveFor(k, n, s) = EffectiveFor(j, N, s) /\ N \in 0..N
      BY <1>0, <1>3, <2>3
    <3>. QED
      BY <3>1 DEF HasLast, N
  <2>. QED
    BY <1>0, <2>1, <2>2, <2>3
<1>. QED
  BY <1>0, <1>2, <1>4, <1>5 DEF k, N

-----------------------------------------------------------------------------
(* A pointer that is ahead of the journal by the transaction t alone.           *)
Ahead(t) ==
  /\ \A s \in Slots : s # t.slot => pointer[s] = Active(s)
  /\ pointer[t.slot] = t.active
  /\ Active(t.slot) = t.previous

(* Where pointers and journal are at every program point, and behind a pending  *)
(* transaction that a stopped manager left.                                    *)
IndexInv ==
  /\ pc \in {"pending", "prepared", "committed", "restored", "rejournaled"} => Reconciled
  /\ pc \in {"pending", "prepared", "restored"} => Active(op.slot) = op.previous
  /\ pc \in {"initializing", "rolling back", "pointer"} => Ahead(op)
  /\ pc \in {"initializing", "rolling back"} => pending = NoTransaction
  /\ pc \in {"pending", "prepared", "pointer", "restored", "rejournaled"} =>
       ~CommittedAdvance(op)
  /\ pc = "committed" => CommittedAdvance(op)
  /\ pc = "idle" => IF pending = NoTransaction \/ CommittedAdvance(pending)
                    THEN Reconciled ELSE Ahead(pending)
  /\ JournalChain
  /\ HasLast(journal)

(* What appending one entry does to everything IndexInv reads.                  *)
LEMMA WriteActive ==
  ASSUME journal \in Seq(Entries), HasLast(journal), JournalChain,
         NEW a \in Effective \cup {"prepare"}, NEW t \in Transactions, Write(a, t),
         a \in Effective => t.previous = Active(t.slot)
  PROVE  /\ \A s \in Slots : Active(s)' = IF a \in Effective /\ s = t.slot
                                          THEN t.active ELSE Active(s)
         /\ \A u : CommittedAdvance(u)' <=> CommittedAdvance(u) \/ (a = "advance" /\ u = t)
         /\ JournalChain' /\ HasLast(journal)'
<1> DEFINE e == [action |-> a, tx |-> t]
<1>0. /\ journal' = Append(journal, e) /\ e \in Entries
      /\ e.action = a /\ e.tx = t
      /\ Len(journal) \in Nat
  BY DEF Write, Entries
<1>1. /\ DOMAIN journal = 1..Len(journal) /\ DOMAIN journal' = 1..(Len(journal) + 1)
      /\ \A i \in 1..Len(journal) : journal'[i] = journal[i]
      /\ journal'[Len(journal) + 1] = e
  BY WriteEntry
<1> HIDE DEF e
<1>2. /\ \A n \in 0..Len(journal), s \in Slots : ActiveAt(journal', n, s) = ActiveAt(journal, n, s)
      /\ \A s \in Slots : ActiveAt(journal', Len(journal'), s) =
                            IF a \in Effective /\ s = t.slot THEN t.active ELSE Active(s)
      /\ HasLast(journal')
  BY <1>0, AppendActive DEF Active
<1>3. \A u : CommittedAdvance(u)' <=> CommittedAdvance(u) \/ (a = "advance" /\ u = t)
  BY <1>0, <1>1 DEF CommittedAdvance
<1>4. JournalChain'
  <2> SUFFICES ASSUME NEW i \in 1..(Len(journal) + 1), journal'[i].action \in Effective
               PROVE  journal'[i].tx.previous = ActiveAt(journal', i - 1, journal'[i].tx.slot)
    BY <1>1 DEF JournalChain
  <2>1. CASE i \in 1..Len(journal)
    <3>0. journal'[i] = journal[i] /\ i - 1 \in 0..Len(journal) /\ journal[i] \in Entries
      BY <1>0, <1>1, <2>1
    <3>1. /\ journal'[i] = journal[i] /\ i - 1 \in 0..Len(journal)
          /\ journal[i].tx.slot \in Slots
          /\ journal[i].tx.previous = ActiveAt(journal, i - 1, journal[i].tx.slot)
      BY <1>1, <2>1, <3>0 DEF JournalChain, Entries, Transactions
    <3>. QED
      BY <1>2, <3>1
  <2>2. CASE i = Len(journal) + 1
    <3>1. /\ journal'[i].tx = t /\ a \in Effective /\ t.slot \in Slots
          /\ i - 1 = Len(journal) /\ Len(journal) \in 0..Len(journal)
      BY <1>0, <1>1, <2>2 DEF Transactions
    <3>. QED
      BY <1>2, <3>1 DEF Active
  <2>. QED
    BY <1>0, <2>1, <2>2
<1>. QED
  BY <1>2, <1>3, <1>4 DEF Active

(* Every write of the manager keeps pointer, journal and pending file in step.  *)
LEMMA IndexInvariant == ASSUME Careful PROVE Spec => []IndexInv
<1>1. Init => IndexInv
  <2> SUFFICES ASSUME Init PROVE IndexInv
    OBVIOUS
  <2>0. journal = <<>> /\ Len(journal) = 0 /\ DOMAIN journal = {}
    BY DEF Init
  <2>1. \A n \in 0..Len(journal), s \in Slots : EffectiveFor(journal, n, s) = {}
    BY <2>0 DEF EffectiveFor
  <2>2. \A s \in Slots : Active(s) = None
    BY <2>0, <2>1 DEF Active, ActiveAt
  <2>. QED
    BY <2>0, <2>1, <2>2 DEF Init, IndexInv, Reconciled, JournalChain, HasLast
<1>2. TypeOK /\ InFlight /\ IndexInv /\ [Next]_vars => IndexInv'
  <2> SUFFICES ASSUME TypeOK, InFlight, IndexInv, [Next]_vars PROVE IndexInv'
    OBVIOUS
  <2> USE StateAssumption DEF IndexInv
  <2>0. Liberties = {} /\ CrashPoints \subseteq {"pointer", "committed"}
    BY DEF Careful
  (* steps that append nothing leave what the journal says alone *)
  <2>u. UNCHANGED journal =>
          /\ \A s \in Slots : Active(s)' = Active(s)
          /\ \A u : CommittedAdvance(u)' <=> CommittedAdvance(u)
          /\ JournalChain' /\ HasLast(journal)'
    BY DEF Active, CommittedAdvance, JournalChain
  <2>t. \A t \in Transactions : t.slot \in Slots /\ t # NoTransaction
    <3>1. \A t \in Transactions : t.slot \in Slots /\ t.active # None
      BY DEF Transactions
    <3>2. NoTransaction.active = None
      BY DEF NoTransaction
    <3>. QED
      BY <3>1, <3>2
  <2>1. CASE Open
    BY <2>1, <2>u DEF Open, Reconciled
  <2>2. CASE Close
    <3>1. pc = "idle" /\ UNCHANGED <<journal, pending, pointer, pc, op>>
      BY <2>2 DEF Close
    <3>2. CommittedAdvance(pending)' <=> CommittedAdvance(pending)
      BY <3>1 DEF CommittedAdvance
    <3>3. UNCHANGED <<Active(op.slot), Active(pending.slot)>>
      BY <3>1 DEF Active
    <3>. QED
      BY <2>u, <3>1, <3>2, <3>3 DEF Reconciled, Ahead
  <2>3. CASE FinishInitialize
    <3>1. /\ op \in Transactions /\ Ahead(op) /\ pending = NoTransaction
          /\ Write("initialize", op) /\ pc' = "idle" /\ pending' = pending /\ pointer' = pointer
      BY <2>3 DEF FinishInitialize, InFlight
    <3>e. "initialize" \in Effective /\ op.previous = Active(op.slot)
      BY <2>t, <3>1 DEF Effective, Ahead
    <3>2. /\ \A s \in Slots : Active(s)' = IF s = op.slot THEN op.active ELSE Active(s)
          /\ JournalChain' /\ HasLast(journal)'
      BY <3>1, <3>e, WriteActive DEF TypeOK
    <3>. QED
      BY <3>1, <3>2 DEF Reconciled, Ahead
  <2>4. CASE Prepare
    <3>1. /\ op \in Transactions /\ pc = "pending" /\ pc' = "prepared"
          /\ Write("prepare", op) /\ UNCHANGED <<pending, pointer, op>>
      BY <2>4 DEF Prepare, InFlight
    <3>2. /\ \A s \in Slots : Active(s)' = Active(s)
          /\ \A u : CommittedAdvance(u)' <=> CommittedAdvance(u)
          /\ JournalChain' /\ HasLast(journal)'
      BY <3>1, WriteActive DEF TypeOK, Effective
    <3>. QED
      BY <2>t, <3>1, <3>2 DEF Reconciled
  <2>5. CASE ReplacePointer
    <3>1. /\ op \in Transactions /\ pc = "prepared" /\ pc' = "pointer"
          /\ pointer' = [pointer EXCEPT ![op.slot] = op.active]
          /\ UNCHANGED <<journal, pending, op>>
      BY <2>5 DEF ReplacePointer, InFlight
    <3>. QED
      BY <2>t, <2>u, <3>1 DEF TypeOK, Reconciled, Ahead
  <2>6. CASE Commit
    <3>1. /\ op \in Transactions /\ Ahead(op) /\ pc' = "committed"
          /\ Write("advance", op) /\ UNCHANGED <<pending, pointer, op>>
      BY <2>6 DEF Commit, InFlight
    <3>2. /\ \A s \in Slots : Active(s)' = IF s = op.slot THEN op.active ELSE Active(s)
          /\ CommittedAdvance(op)'
          /\ JournalChain' /\ HasLast(journal)'
      BY <3>1, WriteActive DEF TypeOK, Ahead, Effective
    <3>. QED
      BY <3>1, <3>2 DEF Reconciled, Ahead
  <2>7. CASE FinishAdvance
    BY <2>7, <2>u DEF FinishAdvance, Reconciled
  <2>8. CASE FinishRollback
    <3>1. /\ op \in Transactions /\ Ahead(op) /\ pending = NoTransaction
          /\ Write("rollback", op) /\ pc' = "idle" /\ pending' = pending /\ pointer' = pointer
      BY <2>8 DEF FinishRollback, InFlight
    <3>2. /\ \A s \in Slots : Active(s)' = IF s = op.slot THEN op.active ELSE Active(s)
          /\ JournalChain' /\ HasLast(journal)'
      BY <3>1, WriteActive DEF TypeOK, Ahead, Effective
    <3>. QED
      BY <3>1, <3>2 DEF Reconciled, Ahead
  <2>9. CASE RecoverJournal
    <3> DEFINE t == [op EXCEPT !.active = op.previous]
    <3>1. /\ op \in Transactions /\ pc = "restored" /\ pc' = "rejournaled"
          /\ Write("recover", t) /\ UNCHANGED <<pending, pointer, op>>
      BY <2>9 DEF RecoverJournal, InFlight
    <3>2. t \in Transactions /\ t.slot = op.slot /\ t.active = op.previous /\ t.previous = op.previous
      BY <2>9 DEF RecoverJournal, InFlight, Transactions
    <3> HIDE DEF t
    <3>3. /\ \A s \in Slots : Active(s)' = IF s = t.slot THEN t.active ELSE Active(s)
          /\ \A u : CommittedAdvance(u)' <=> CommittedAdvance(u)
          /\ JournalChain' /\ HasLast(journal)'
      BY <3>1, <3>2, WriteActive DEF TypeOK, Effective
    <3>. QED
      BY <2>t, <3>1, <3>2, <3>3 DEF Reconciled
  <2>10. CASE FinishRecover
    BY <2>10, <2>u DEF FinishRecover, Reconciled
  <2>11. CASE RecoverCommitted
    BY <2>11, <2>u DEF RecoverCommitted, Reconciled
  <2>12. CASE RecoverPointer
    <3>1. /\ pending \in Transactions /\ ~CommittedAdvance(pending) /\ Ahead(pending)
          /\ pointer' = [pointer EXCEPT ![pending.slot] = pending.previous]
          /\ pc' = "restored" /\ op' = pending /\ UNCHANGED <<journal, pending>>
      BY <2>12 DEF RecoverPointer, TypeOK
    <3>. QED
      BY <2>t, <2>u, <3>1 DEF TypeOK, Reconciled, Ahead
  <2>13. CASE Crash
    <3>1. pc \in {"pointer", "committed"} /\ pc' = "idle" /\ UNCHANGED <<journal, pending, pointer>>
      BY <2>0, <2>13, Zenon DEF Crash
    <3>2. pending = op /\ op \in Transactions
      BY <3>1 DEF InFlight, AdvancePoints
    <3>. QED
      BY <2>t, <2>u, <3>1, <3>2 DEF Reconciled, Ahead
  <2>14. ASSUME NEW s \in Slots, NEW d \in Digests, Initialize(s, d) PROVE IndexInv'
    <3>1. /\ pending = NoTransaction /\ Reconciled /\ pc' = "initializing"
          /\ pointer' = [pointer EXCEPT ![s] = d] /\ pointer[s] = None
          /\ op'.slot = s /\ op'.previous = None /\ op'.active = d
          /\ UNCHANGED <<journal, pending>>
      BY <2>0, <2>14 DEF Initialize, Ready
    <3>. QED
      BY <2>u, <3>1 DEF TypeOK, Reconciled, Ahead
  <2>15. ASSUME NEW s \in Slots, NEW d \in Digests, Rollback(s, d) PROVE IndexInv'
    <3>1. /\ pending = NoTransaction /\ Reconciled /\ pc' = "rolling back"
          /\ pointer' = [pointer EXCEPT ![s] = d]
          /\ op'.slot = s /\ op'.previous = pointer[s] /\ op'.active = d
          /\ UNCHANGED <<journal, pending>>
      BY <2>0, <2>15 DEF Rollback, Ready
    <3>. QED
      BY <2>u, <3>1 DEF TypeOK, Reconciled, Ahead
  <2>16. ASSUME NEW s \in Slots, NEW d \in Digests, NEW e \in Evidence, Advance(s, d, e)
         PROVE  IndexInv'
    <3>1. /\ Reconciled /\ pc' = "pending" /\ ~CommittedAdvance(op')
          /\ op'.slot = s /\ op'.previous = pointer[s]
          /\ UNCHANGED <<journal, pointer>>
      BY <2>0, <2>16 DEF Advance, Ready, Preview
    <3>. QED
      BY <2>u, <3>1 DEF Reconciled
  <2>17. CASE UNCHANGED vars
    <3>1. UNCHANGED <<journal, pending, pointer, pc, op>>
      BY <2>17, Zenon DEF vars
    <3>2. /\ CommittedAdvance(pending)' <=> CommittedAdvance(pending)
          /\ CommittedAdvance(op)' <=> CommittedAdvance(op)
      BY <3>1 DEF CommittedAdvance
    <3>3. UNCHANGED <<Active(op.slot), Active(pending.slot)>>
      BY <3>1 DEF Active
    <3>. QED
      BY <2>u, <3>1, <3>2, <3>3 DEF Reconciled, Ahead
  <2>. QED
    BY <2>1, <2>2, <2>3, <2>4, <2>5, <2>6, <2>7, <2>8, <2>9, <2>10, <2>11, <2>12, <2>13,
       <2>14, <2>15, <2>16, <2>17 DEF Next, Step, Recover
<1>. QED
  BY <1>1, <1>2, TypeCorrect, PTL DEF Spec

(* The pointer files match the journal whenever nothing runs or is pending      *)
(* (apply, recover, initialize and rollback of active_state.py).                *)
THEOREM IndexFollowsJournal == ASSUME Careful PROVE Spec => []IndexMatchesJournal
<1>1. IndexInv => IndexMatchesJournal
  BY DEF IndexInv, IndexMatchesJournal
<1>. QED
  BY <1>1, IndexInvariant, PTL

(* Each change of a slot is made from the digest that was active just before,   *)
(* so a stale or recovered candidate is never the parent of anything           *)
(* (advance and _rollback of active_state.py).                                 *)
THEOREM JournalUnbroken == ASSUME Careful PROVE Spec => []JournalChain
<1>1. IndexInv => JournalChain
  BY DEF IndexInv
<1>. QED
  BY <1>1, IndexInvariant, PTL
==============================================================================
