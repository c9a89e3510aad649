-------------------------- MODULE AgreementReport --------------------------
(***************************************************************************)
(* The aggregates of an evaluator agreement report                           *)
(* (kpo.evaluator_agreement.AgreementCollector).  An event is an evaluation  *)
(* with the primary evaluator's scores and a slot for every observer; a mean *)
(* is kept as the sum and the count it divides.  Events are a function from  *)
(* their identity, so that equal ones count apart.                           *)
(***************************************************************************)
EXTENDS Integers, FiniteSetsExt

CONSTANTS Observers   \* names of the observer evaluators

Scored(scores) == [state |-> "completed", scores |-> scores]
Missing(kind) == [state |-> "unavailable", kind |-> kind]
Event(partition, primary, slots) ==
  [partition |-> partition, primary |-> primary, observers |-> slots]

Compares(e, o) == e.observers[o].state = "completed"
Offset(e, o, d) == e.observers[o].scores[d] - e.primary[d]
Magnitude(n) == IF n < 0 THEN -n ELSE n
Null == -1   \* the null of a metric about no event; magnitudes are natural
Largest(S) == IF S = {} THEN Null ELSE Max(S)

(* The events of a partition, by identity.                                    *)
In(events, p) == {id \in DOMAIN events : events[id].partition = p}

Kinds(events, S, o) == {events[id].observers[o].kind : id \in {x \in S : ~Compares(events[x], o)}}
Unavailable(events, S, o) ==
  [k \in Kinds(events, S, o) |->
     Cardinality({id \in S : events[id].observers[o] = Missing(k)})]

Metric(events, p, o, d) ==
  LET compared == {id \in In(events, p) : Compares(events[id], o)}
      offset(id) == Offset(events[id], o, d)
  IN  [comparable |-> Cardinality(compared),
       offsets |-> MapThenSumSet(offset, compared),
       deltas |-> MapThenSumSet(LAMBDA id : Magnitude(offset(id)), compared),
       largest |-> Largest({Magnitude(offset(id)) : id \in compared}),
       unavailable |-> Unavailable(events, In(events, p), o)]

(* The range of an event that at least one observer scored.                   *)
Panel(e, d) == {e.primary[d]} \cup {e.observers[o].scores[d] : o \in {x \in Observers : Compares(e, x)}}
Ranges(events, S, d) ==
  {Max(Panel(events[id], d)) - Min(Panel(events[id], d)) :
     id \in {x \in S : \E o \in Observers : Compares(events[x], o)}}

(* agreement_summary.                                                         *)
AgreementSummary(events, Dims) ==
  [count |-> Cardinality(DOMAIN events),
   range |-> [d \in Dims |-> Largest(Ranges(events, DOMAIN events, d))],
   unavailable |-> [o \in Observers |-> Unavailable(events, DOMAIN events, o)]]

(* _validate_report_schema: the counts add up, and a metric is null when and  *)
(* only when it is about no event.                                            *)
Consistent(events, Partitions, Dims) ==
  /\ MapThenSumSet(LAMBDA p : Cardinality(In(events, p)), Partitions) = Cardinality(DOMAIN events)
  /\ \A p \in Partitions, d \in Dims :
       /\ \A o \in Observers :
            LET m == Metric(events, p, o, d)
            IN  m.comparable = 0 <=> m.largest = Null
       /\ Ranges(events, In(events, p), d) = {}
            <=> \A id \in In(events, p), o \in Observers : ~Compares(events[id], o)
=============================================================================
