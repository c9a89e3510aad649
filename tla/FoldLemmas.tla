----------------------------- MODULE FoldLemmas -----------------------------
(***************************************************************************)
(* Induction over numbers and over finite sets, stated for a given set of    *)
(* them, and what the sum over a finite set is: the lemmas that the proofs   *)
(* about the modules' recursive functions and folds rest on.                *)
(***************************************************************************)
EXTENDS Integers, FiniteSetsExt, FiniteSetTheorems, WellFoundedInduction, TLAPS

(* Every set of naturals that is not empty has a least element: among the     *)
(* intervals 0..n that its elements give, one holds no smaller one.           *)
LEMMA LeastNumber ==
  ASSUME NEW S, S \subseteq Nat, S # {}
  PROVE  \E m \in S : \A n \in S : m <= n
<1>1. PICK s \in S : TRUE
  OBVIOUS
<1> DEFINE U == 0..s
           T == {0..n : n \in {k \in S : k <= s}}
<1>2. IsFiniteSet(U)
  BY <1>1, FS_Interval
<1>3. FiniteSubsetsOf(U) = SUBSET U
  BY <1>2, FS_FiniteSubsetsOfFinite
<1>4. IsWellFoundedOn(StrictSubsetOrdering(U), SUBSET U)
  BY <1>3, FS_StrictSubsetOrderingWellFounded
<1>5. T \subseteq SUBSET U /\ T # {}
  BY <1>1
<1>6. PICK x \in T : \A y \in T : ~(<<y, x>> \in StrictSubsetOrdering(U))
  <2> HIDE DEF U, T
  <2>. QED
    BY <1>4, <1>5, WFMin
<1>7. PICK m \in S : m <= s /\ x = 0..m
  BY <1>6
<1>8. ASSUME NEW n \in S, n < m PROVE FALSE
  <2>1. 0..n \in T
    BY <1>7, <1>8
  <2>2. ~(<<0..n, x>> \in StrictSubsetOrdering(U))
    BY <2>1, <1>6
  <2>3. 0..n \subseteq x /\ m \in x /\ ~(m \in 0..n)
    BY <1>7, <1>8
  <2>. QED
    BY <2>2, <2>3, <2>1, <1>5, <1>6 DEF StrictSubsetOrdering
<1>. QED
  BY <1>8

(* A set that holds zero, and the successor of each of its members, holds     *)
(* every natural.                                                            *)
LEMMA NatInSet ==
  ASSUME NEW S, 0 \in S, \A n \in Nat : n \in S => n + 1 \in S
  PROVE  Nat \subseteq S
<1> SUFFICES ASSUME Nat \ S # {} PROVE FALSE
  OBVIOUS
<1>1. PICK m \in Nat \ S : \A n \in Nat \ S : m <= n
  <2>1. Nat \ S \subseteq Nat
    OBVIOUS
  <2>. QED
    BY <2>1, LeastNumber
<1>2. m # 0 /\ m - 1 \in Nat /\ m - 1 \in S
  BY <1>1
<1>. QED
  BY <1>1, <1>2

(* The least number of a set is what Min names.                               *)
LEMMA MinOfNaturals ==
  ASSUME NEW S, S \subseteq Nat, S # {}
  PROVE  Min(S) \in S /\ \A n \in S : Min(S) <= n
BY LeastNumber DEF Min

LEMMA PutBack ==
  ASSUME NEW T, NEW x \in T
  PROVE  (T \ {x}) \cup {x} = T
OBVIOUS

(* A family of subsets of a finite set that holds the empty one, and, with a  *)
(* subset, every subset larger by one element, holds them all.                *)
LEMMA SubsetsInFamily ==
  ASSUME NEW S, IsFiniteSet(S), NEW F
  PROVE  {} \in F /\ (\A T \in SUBSET S : \A x \in S \ T : T \in F => T \cup {x} \in F)
           => SUBSET S \subseteq F
<1>a. SUFFICES ASSUME {} \in F, \A T \in SUBSET S : \A x \in S \ T : T \in F => T \cup {x} \in F,
                      (SUBSET S) \ F # {}
               PROVE  FALSE
  OBVIOUS
<1> DEFINE Bad == (SUBSET S) \ F
<1>1. FiniteSubsetsOf(S) = SUBSET S
  BY FS_FiniteSubsetsOfFinite
<1>2. IsWellFoundedOn(StrictSubsetOrdering(S), SUBSET S)
  BY <1>1, FS_StrictSubsetOrderingWellFounded
<1>3. PICK T \in Bad : \A U \in Bad : ~(<<U, T>> \in StrictSubsetOrdering(S))
  <2>1. Bad \subseteq SUBSET S /\ Bad # {}
    BY <1>a
  <2> HIDE DEF Bad
  <2>. QED
    BY <1>2, <2>1, WFMin
<1>4. T \in SUBSET S /\ T \notin F
  BY <1>3
<1>5. PICK x \in T : TRUE
  <2>1. T # {}
    BY <1>a, <1>4
  <2>. QED
    BY <2>1
<1>6. <<T \ {x}, T>> \in StrictSubsetOrdering(S)
  BY <1>4, <1>5 DEF StrictSubsetOrdering
<1>7. T \ {x} \in F
  BY <1>3, <1>4, <1>6
<1>8. (T \ {x}) \cup {x} \in F
  BY <1>a, <1>4, <1>5, <1>7
<1>9. (T \ {x}) \cup {x} = T
  BY <1>5, PutBack
<1>. QED
  BY <1>4, <1>8, <1>9

(* A finite set of naturals that is not empty has a greatest one, which Max   *)
(* names, and the image of a finite set is finite.                           *)
LEMMA MaxOfNaturals ==
  ASSUME NEW S, IsFiniteSet(S), S \subseteq Nat, S # {}
  PROVE  Max(S) \in S /\ \A n \in S : Max(S) >= n
<1> DEFINE F == {T \in SUBSET S : T # {} => \E m \in T : \A n \in T : m >= n}
<1>1. {} \in F
  OBVIOUS
<1>2. ASSUME NEW T \in SUBSET S, NEW x \in S \ T, T \in F PROVE T \cup {x} \in F
  <2>1. CASE T = {}
    BY <2>1
  <2>2. CASE T # {}
    <3>1. PICK m \in T : \A n \in T : m >= n
      BY <1>2, <2>2
    <3>2. m \in Nat /\ x \in Nat /\ T \subseteq Nat
      BY <3>1
    <3>3. CASE x >= m
      BY <3>1, <3>2, <3>3
    <3>4. CASE m >= x
      BY <3>1, <3>2, <3>4
    <3>. QED
      BY <3>2, <3>3, <3>4
  <2>. QED
    BY <2>1, <2>2
<1>3. S \in F
  <2> HIDE DEF F
  <2>1. SUBSET S \subseteq F
    BY <1>1, <1>2, SubsetsInFamily
  <2>. QED
    BY <2>1
<1>. QED
  BY <1>3 DEF Max

LEMMA ImageFinite ==
  ASSUME NEW S, IsFiniteSet(S), NEW f, S \subseteq DOMAIN f
  PROVE  IsFiniteSet({f[x] : x \in S})
<1> DEFINE F == {T \in SUBSET S : IsFiniteSet({f[x] : x \in T})}
<1>1. {} \in F
  <2>1. {f[x] : x \in {}} = {}
    OBVIOUS
  <2>. QED
    BY <2>1, FS_EmptySet
<1>2. ASSUME NEW T \in SUBSET S, NEW y \in S \ T, T \in F PROVE T \cup {y} \in F
  <2>1. PICK A : A = {f[x] : x \in T} /\ IsFiniteSet(A)
    BY <1>2
  <2>2. {f[x] : x \in T \cup {y}} = A \cup {f[y]}
    BY <2>1
  <2>3. IsFiniteSet(A \cup {f[y]})
    BY <2>1, FS_AddElement
  <2>4. T \cup {y} \in SUBSET S
    OBVIOUS
  <2>. QED
    BY <2>2, <2>3, <2>4
<1>3. S \in F
  <2> HIDE DEF F
  <2>1. SUBSET S \subseteq F
    BY <1>1, <1>2, SubsetsInFamily
  <2>. QED
    BY <2>1
<1>. QED
  BY <1>3

-----------------------------------------------------------------------------
(* The sums over the subsets of S that taking away one element after another  *)
(* gives, in the order the choice takes them.                                 *)
Sums(g, W, S) ==
  /\ g \in [SUBSET S -> Int]
  /\ \A T \in SUBSET S :
       g[T] = IF T = {} THEN 0
              ELSE LET x == CHOOSE x \in T : TRUE IN W[x] + g[T \ {x}]

LEMMA SumsExist ==
  ASSUME NEW S, IsFiniteSet(S), NEW W \in [S -> Int]
  PROVE  \E g : Sums(g, W, S)
<1> DEFINE Small(n) == {T \in SUBSET S : Cardinality(T) <= n}
           Body(g, T) == IF T = {} THEN 0
                         ELSE LET x == CHOOSE x \in T : TRUE IN W[x] + g[T \ {x}]
           Some(n) == \E g \in [Small(n) -> Int] : \A T \in Small(n) : g[T] = Body(g, T)
           Good == {n \in Nat : Some(n)}
<1>1. \A T \in SUBSET S : /\ IsFiniteSet(T) /\ Cardinality(T) \in Nat
                          /\ Cardinality(T) = 0 => T = {}
                          /\ \A x \in T : Cardinality(T \ {x}) = Cardinality(T) - 1
  BY FS_Subset, FS_CardinalityType, FS_EmptySet, FS_RemoveElement
<1>2. 0 \in Good
  <2> DEFINE g == [T \in Small(0) |-> 0]
  <2>1. \A T \in Small(0) : T = {}
    BY <1>1
  <2>2. g \in [Small(0) -> Int] /\ \A T \in Small(0) : g[T] = Body(g, T)
    BY <2>1
  <2>. QED
    BY <2>2
<1>3. ASSUME NEW n \in Nat, n \in Good PROVE n + 1 \in Good
  <2>1. PICK g \in [Small(n) -> Int] : \A T \in Small(n) : g[T] = Body(g, T)
    BY <1>3
  <2> DEFINE h == [T \in Small(n + 1) |-> Body(g, T)]
             First(T) == CHOOSE x \in T : TRUE
  <2>2. ASSUME NEW T \in Small(n + 1), T # {}
        PROVE  First(T) \in T /\ T \ {First(T)} \in Small(n) /\ W[First(T)] \in Int
    <3>1. First(T) \in T
      BY <2>2
    <3>2. Cardinality(T \ {First(T)}) = Cardinality(T) - 1 /\ Cardinality(T) \in Nat
      BY <3>1, <1>1
    <3>. QED
      BY <3>1, <3>2
  <2>3. \A T \in Small(n) : T \in Small(n + 1) /\ g[T] \in Int
    BY <2>1, <1>1
  <2>4. \A T \in Small(n + 1) : h[T] = Body(g, T)
    OBVIOUS
  <2>5. \A T \in Small(n + 1) : Body(g, T) \in Int
    <3> SUFFICES ASSUME NEW T \in Small(n + 1) PROVE Body(g, T) \in Int
      OBVIOUS
    <3>1. T = {} => Body(g, T) = 0
      OBVIOUS
    <3>2. T # {} => Body(g, T) = W[First(T)] + g[T \ {First(T)}]
      OBVIOUS
    <3> HIDE DEF Small, Body, First
    <3>. QED
      BY <2>2, <2>3, <3>1, <3>2
  <2>6. h \in [Small(n + 1) -> Int]
    <3> HIDE DEF Small, Body
    <3>. QED
      BY <2>5
  <2>7. \A T \in Small(n) : h[T] = g[T]
    <3> HIDE DEF Small, Body, h
    <3>. QED
      BY <2>1, <2>3, <2>4
  <2>8. \A T \in Small(n + 1) : h[T] = Body(h, T)
    <3> SUFFICES ASSUME NEW T \in Small(n + 1) PROVE Body(g, T) = Body(h, T)
      BY <2>4
    <3>1. T = {} => Body(g, T) = 0 /\ Body(h, T) = 0
      OBVIOUS
    <3>2. T # {} => /\ Body(g, T) = W[First(T)] + g[T \ {First(T)}]
                    /\ Body(h, T) = W[First(T)] + h[T \ {First(T)}]
      <4> HIDE DEF Small, h
      <4>. QED
        OBVIOUS
    <3> HIDE DEF Small, Body, First, h
    <3>. QED
      BY <2>2, <2>7, <3>1, <3>2
  <2>9. Some(n + 1)
    <3> HIDE DEF Small, Body, h
    <3>. QED
      BY <2>6, <2>8
  <2> HIDE DEF Some
  <2>. QED
    BY <2>9
<1>4. Cardinality(S) \in Good
  <2>1. Nat \subseteq Good
    <3> HIDE DEF Good
    <3>. QED
      BY <1>2, <1>3, NatInSet
  <2>. QED
    BY <2>1, FS_CardinalityType
<1>5. Small(Cardinality(S)) = SUBSET S
  BY FS_Subset, FS_CardinalityType
<1>. QED
  BY <1>4, <1>5 DEF Sums

LEMMA TwoTaken ==
  ASSUME NEW a \in Int, NEW b \in Int, NEW rest \in Int, NEW all, NEW without, NEW other,
         all = a + without, without = b + rest, other = a + rest
  PROVE  all = b + other
OBVIOUS

(* Any element may be taken away first.                                       *)
TakenFirst(g, W, T, x) == g[T] = W[x] + g[T \ {x}]
LEMMA SumStep ==
  ASSUME NEW S, IsFiniteSet(S), NEW W \in [S -> Int], NEW g, Sums(g, W, S)
  PROVE  \A T \in SUBSET S : \A x \in T : TakenFirst(g, W, T, x)
<1> SUFFICES ASSUME NEW T \in SUBSET S, NEW x \in T PROVE g[T] = W[x] + g[T \ {x}]
  BY DEF TakenFirst
<1> DEFINE Good == {n \in Nat : \A U \in SUBSET S : \A u \in U :
                      Cardinality(U) = n => g[U] = W[u] + g[U \ {u}]}
<1>1. \A U \in SUBSET S : /\ IsFiniteSet(U) /\ Cardinality(U) \in Nat
                          /\ Cardinality(U) = 0 => U = {}
                          /\ \A u \in U : Cardinality(U \ {u}) = Cardinality(U) - 1
  BY FS_Subset, FS_CardinalityType, FS_EmptySet, FS_RemoveElement
<1>2. 0 \in Good
  BY <1>1
<1>3. ASSUME NEW n \in Nat, n \in Good PROVE n + 1 \in Good
  <2> SUFFICES ASSUME NEW U \in SUBSET S, NEW u \in U, Cardinality(U) = n + 1
               PROVE  g[U] = W[u] + g[U \ {u}]
    OBVIOUS
  <2>1. PICK y : y = CHOOSE z \in U : TRUE
    OBVIOUS
  <2>2. y \in U /\ g[U] = W[y] + g[U \ {y}]
    BY <2>1 DEF Sums
  <2>3. CASE y = u
    BY <2>2, <2>3
  <2>4. CASE y # u
    <3>1. Cardinality(U \ {u}) = n /\ Cardinality(U \ {y}) = n
      <4>1. Cardinality(U \ {u}) = Cardinality(U) - 1
        BY <1>1
      <4>2. Cardinality(U \ {y}) = Cardinality(U) - 1
        BY <1>1, <2>2
      <4>. QED
        BY <4>1, <4>2
    <3>2. u \in U \ {y} /\ y \in U \ {u}
      BY <2>2, <2>4
    <3>3. g[U \ {y}] = W[u] + g[(U \ {y}) \ {u}]
      BY <1>3, <3>1, <3>2
    <3>4. g[U \ {u}] = W[y] + g[(U \ {u}) \ {y}]
      BY <1>3, <3>1, <3>2
    <3>5. (U \ {y}) \ {u} = (U \ {u}) \ {y}
      BY Zenon
    <3>6. W[u] \in Int /\ W[y] \in Int /\ g[(U \ {u}) \ {y}] \in Int
      <4>1. g \in [SUBSET S -> Int]
        BY DEF Sums
      <4>2. (U \ {u}) \ {y} \in SUBSET S
        <5>1. U \in SUBSET S
          OBVIOUS
        <5>. QED
          BY <5>1, Zenon
      <4>. QED
        BY <4>1, <4>2, <2>2
    <3>7. g[(U \ {y}) \ {u}] = g[(U \ {u}) \ {y}]
      BY <3>5
    <3>. QED
      BY <2>2, <3>3, <3>4, <3>6, <3>7, TwoTaken
  <2>. QED
    BY <2>3, <2>4
<1>4. Cardinality(T) \in Good
  <2>1. Nat \subseteq Good
    <3> HIDE DEF Good
    <3>. QED
      BY <1>2, <1>3, NatInSet
  <2>. QED
    BY <2>1, <1>1
<1>. QED
  BY <1>4

(* An equation of those sums has only them for a solution.                    *)
LEMMA SumsAre ==
  ASSUME NEW S, IsFiniteSet(S), NEW W \in [S -> Int],
         NEW i, i = [T \in SUBSET S |->
                      IF T = {} THEN 0 ELSE LET x == CHOOSE x \in T : TRUE IN W[x] + i[T \ {x}]]
  PROVE  Sums(i, W, S)
<1> DEFINE Good == {n \in Nat : \A T \in SUBSET S : Cardinality(T) = n => i[T] \in Int}
           First(T) == CHOOSE x \in T : TRUE
<1>1. \A T \in SUBSET S : /\ Cardinality(T) \in Nat
                          /\ Cardinality(T) = 0 => T = {}
                          /\ \A x \in T : Cardinality(T \ {x}) = Cardinality(T) - 1
  BY FS_Subset, FS_CardinalityType, FS_EmptySet, FS_RemoveElement
<1>2. \A T \in SUBSET S : i[T] = IF T = {} THEN 0 ELSE W[First(T)] + i[T \ {First(T)}]
  OBVIOUS
<1>3. \A T \in SUBSET S : T # {} => First(T) \in T
  OBVIOUS
<1> HIDE DEF First
<1>4. i[{}] = 0
  BY <1>2
<1>5. 0 \in Good
  BY <1>1, <1>4
<1>6. ASSUME NEW n \in Nat, n \in Good PROVE n + 1 \in Good
  <2> SUFFICES ASSUME NEW T \in SUBSET S, Cardinality(T) = n + 1 PROVE i[T] \in Int
    OBVIOUS
  <2>1. CASE T = {}
    BY <2>1, <1>4
  <2>2. CASE T # {}
    <3>1. First(T) \in T /\ W[First(T)] \in Int
      BY <2>2, <1>3
    <3>2. Cardinality(T \ {First(T)}) = n
      BY <3>1, <1>1
    <3>3. i[T \ {First(T)}] \in Int
      BY <3>2, <1>6
    <3>4. i[T] = W[First(T)] + i[T \ {First(T)}]
      BY <2>2, <1>2
    <3>. QED
      BY <3>1, <3>3, <3>4
  <2>. QED
    BY <2>1, <2>2
<1>7. Nat \subseteq Good
  <2> HIDE DEF Good
  <2>. QED
    BY <1>5, <1>6, NatInSet
<1>8. \A T \in SUBSET S : i[T] \in Int
  BY <1>1, <1>7
<1>9. i \in [SUBSET S -> Int]
  BY <1>8
<1>. QED
  BY <1>2, <1>9 DEF Sums, First

(* The sum over a finite set is the sum that is left by taking one element    *)
(* away after another.                                                       *)
LEMMA SumOverSet ==
  ASSUME NEW S, IsFiniteSet(S), NEW W \in [S -> Int]
  PROVE  \E g : Sums(g, W, S) /\ MapThenSumSet(LAMBDA c : W[c], S) = g[S]
<1> DEFINE Eq(i) == i = [T \in SUBSET S |->
                          IF T = {} THEN 0
                          ELSE LET x == CHOOSE x \in T : TRUE IN W[x] + i[T \ {x}]]
           it == CHOOSE i : Eq(i)
<1>1. PICK g : Sums(g, W, S)
  BY SumsExist
<1>2. Eq(g)
  BY <1>1 DEF Sums
<1>3. Eq(it)
  BY <1>2
<1>4. Sums(it, W, S)
  <2> HIDE DEF it
  <2>. QED
    BY <1>3, SumsAre
<1>5. MapThenSumSet(LAMBDA c : W[c], S) = it[S]
  BY DEF MapThenSumSet, MapThenFoldSet
<1>. QED
  BY <1>4, <1>5

(* Integers of which none exceeds a bound have a sum within that bound for    *)
(* each of them.                                                             *)
LEMMA TimesNext ==
  ASSUME NEW t \in Nat, NEW n \in Nat
  PROVE  t * n \in Nat /\ t * (n + 1) = t * n + t /\ t * 0 = 0
OBVIOUS

LEMMA SumBounded ==
  ASSUME NEW S, IsFiniteSet(S), NEW W \in [S -> Int], NEW t \in Nat,
         \A x \in S : -t <= W[x] /\ W[x] <= t
  PROVE  LET sum == MapThenSumSet(LAMBDA c : W[c], S)
         IN  sum \in Int /\ -(t * Cardinality(S)) <= sum /\ sum <= t * Cardinality(S)
<1>1. PICK g : Sums(g, W, S) /\ MapThenSumSet(LAMBDA c : W[c], S) = g[S]
  BY SumOverSet
<1>2. g \in [SUBSET S -> Int] /\ g[{}] = 0
  BY <1>1 DEF Sums
<1>3. \A T \in SUBSET S : \A x \in T : TakenFirst(g, W, T, x)
  BY <1>1, SumStep
<1> DEFINE Within(T, n) == -(t * n) <= g[T] /\ g[T] <= t * n
           F == {T \in SUBSET S : Within(T, Cardinality(T))}
<1>4. {} \in F
  BY <1>2, FS_EmptySet, TimesNext
<1>5. ASSUME NEW T \in SUBSET S, NEW x \in S \ T, T \in F PROVE T \cup {x} \in F
  <2>1. PICK U \in SUBSET S : U = T \cup {x}
    OBVIOUS
  <2>2. x \in U /\ U \ {x} = T
    BY <2>1
  <2>3. g[U] = W[x] + g[T]
    BY <1>3, <2>2 DEF TakenFirst
  <2>4. IsFiniteSet(T) /\ Cardinality(T) \in Nat
    BY FS_Subset, FS_CardinalityType
  <2>5. PICK n \in Nat : n = Cardinality(T)
    BY <2>4
  <2>6. Cardinality(U) = n + 1
    BY <2>1, <2>4, <2>5, FS_AddElement
  <2>7. g[T] \in Int /\ W[x] \in Int /\ -t <= W[x] /\ W[x] <= t
    BY <1>2
  <2>8. -(t * n) <= g[T] /\ g[T] <= t * n
    BY <1>5, <2>5
  <2>9. t * (n + 1) = t * n + t /\ t * n \in Nat
    BY TimesNext
  <2>10. Within(U, n + 1)
    <3>1. PICK m \in Nat : m = t * n
      BY <2>9
    <3>2. PICK k \in Nat : k = t * (n + 1) /\ k = m + t
      BY <2>9, <3>1
    <3>3. -k <= g[U] /\ g[U] <= k
      BY <2>3, <2>7, <2>8, <3>1, <3>2
    <3>. QED
      BY <3>2, <3>3
  <2>11. U \in F
    BY <2>6, <2>10
  <2>. QED
    BY <2>1, <2>11
<1>6. SUBSET S \subseteq F
  <2> HIDE DEF F
  <2>. QED
    BY <1>4, <1>5, SubsetsInFamily
<1>7. S \in F /\ g[S] \in Int
  BY <1>2, <1>6
<1>. QED
  BY <1>1, <1>7

-----------------------------------------------------------------------------
(* A step that maps V to V can be iterated as often as wanted.                *)
Iterates(f, a, s, M) == f = [n \in 0..M |-> IF n = 0 THEN a ELSE s[f[n - 1]]]
LEMMA IterationExists ==
  ASSUME NEW V, NEW a \in V, NEW s \in [V -> V], NEW M \in Nat
  PROVE  \E f \in [0..M -> V] : Iterates(f, a, s, M)
<1> DEFINE Body(f, n) == IF n = 0 THEN a ELSE s[f[n - 1]]
           Some(m) == \E f \in [0..m -> V] : \A n \in 0..m : f[n] = Body(f, n)
           Good == {m \in Nat : Some(m)}
<1>1. 0 \in Good
  <2>1. [n \in 0..0 |-> a] \in [0..0 -> V] /\ \A n \in 0..0 : [k \in 0..0 |-> a][n] = a /\ n = 0
    OBVIOUS
  <2>. QED
    BY <2>1
<1>2. ASSUME NEW m \in Nat, m \in Good PROVE m + 1 \in Good
  <2>1. PICK f \in [0..m -> V] : \A n \in 0..m : f[n] = Body(f, n)
    BY <1>2
  <2> DEFINE g == [n \in 0..(m + 1) |-> IF n = m + 1 THEN s[f[m]] ELSE f[n]]
  <2>2. g \in [0..(m + 1) -> V]
    OBVIOUS
  <2>3. \A n \in 0..m : g[n] = f[n]
    OBVIOUS
  <2>4. g[m + 1] = s[f[m]]
    OBVIOUS
  <2> HIDE DEF g
  <2>5. ASSUME NEW n \in 0..(m + 1) PROVE g[n] = Body(g, n)
    <3>1. CASE n = m + 1
      <4>1. n # 0 /\ n - 1 = m
        BY <3>1
      <4>. QED
        BY <3>1, <4>1, <2>3, <2>4
    <3>2. CASE n = 0
      BY <3>2, <2>1, <2>3
    <3>3. CASE n \in 1..m
      <4>1. n \in 0..m /\ n - 1 \in 0..m /\ n # 0
        BY <3>3
      <4>. QED
        BY <4>1, <2>1, <2>3
    <3>. QED
      BY <3>1, <3>2, <3>3
  <2>. QED
    BY <2>2, <2>5
<1>3. M \in Good
  <2> HIDE DEF Good
  <2>. QED
    BY <1>1, <1>2, NatInSet
<1>4. Some(M)
  <2> HIDE DEF Some
  <2>. QED
    BY <1>3
<1>5. PICK f \in [0..M -> V] : \A n \in 0..M : f[n] = Body(f, n)
  <2> HIDE DEF Body
  <2>. QED
    BY <1>4, Zenon
<1>. QED
  BY <1>5 DEF Iterates
=============================================================================
