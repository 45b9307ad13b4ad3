------------------------ MODULE RuntimeRecords_proofs ------------------------
(***************************************************************************)
(* For every value of the constants, what the runtimes of a tenant record  *)
(* and give back: the books, events and attributions, metrics, generated   *)
(* outputs and their cost, scripts and showcases, experiments and advice.  *)
(* Each part has an inductive invariant of its own.  The first section is  *)
(* about sums, counts and passes over what is stored: induction over the   *)
(* data, by the least case that would be wrong.                            *)
(***************************************************************************)
EXTENDS TenantBilling, AnalyticsStore, AnalyticsRuntime, Telemetry, AiContent, ContentFactory,
        Experiments, Intelligence, FiniteSetTheorems, WellFoundedInduction, TLAPS

-----------------------------------------------------------------------------
(* Sums over finite sets.                                                  *)

\* Of the finite sets that are bad one is least: no smaller one is.  This is
\* induction over finite sets.
LEMMA LeastSubset ==
    ASSUME NEW S, IsFiniteSet(S), NEW Bad, Bad \subseteq SUBSET S, Bad # {}
    PROVE  \E T \in Bad : \A U \in Bad : ~(U \subseteq T /\ U # T)
<1>1. FiniteSubsetsOf(S) = SUBSET S BY FS_FiniteSubsetsOfFinite
<1>2. \E T \in Bad : \A U \in Bad : ~(<<U, T>> \in StrictSubsetOrdering(S))
  BY <1>1, FS_StrictSubsetOrderingWellFounded, WFMin
<1>3. \A T, U \in SUBSET S : <<U, T>> \in StrictSubsetOrdering(S) <=> U \subseteq T /\ U # T
  BY DEF StrictSubsetOrdering
<1> QED BY <1>2, <1>3

\* What a sum over the subsets of S is defined by: it takes out an element at a time.
Picked(T) == CHOOSE x \in T : TRUE
Unfolded(f, T, g) == IF T = {} THEN 0 ELSE f[Picked(T)] + g[T \ {Picked(T)}]
Tabulates(f, S, g) == g = [T \in SUBSET S |-> Unfolded(f, T, g)]
TableOf(f, S) == CHOOSE g : Tabulates(f, S, g)

\* What is picked of a set that is not empty is in it.
LEMMA PickedIsIn == \A T : T # {} => Picked(T) \in T
BY DEF Picked

\* Tables for two sets agree on the subsets of both.
LEMMA TablesAgree ==
    ASSUME NEW S, IsFiniteSet(S), NEW f, NEW A \in SUBSET S, NEW B \in SUBSET S, NEW g, NEW h,
           Tabulates(f, A, g), Tabulates(f, B, h)
    PROVE  \A T \in SUBSET (A \cap B) : g[T] = h[T]
<1> DEFINE Differ == {T \in SUBSET (A \cap B) : g[T] # h[T]}
<1> SUFFICES ASSUME Differ # {} PROVE FALSE OBVIOUS
<1>0. Differ \subseteq SUBSET S OBVIOUS
<1>1. PICK T \in Differ : \A U \in Differ : ~(U \subseteq T /\ U # T)
  <2> HIDE DEF Differ
  <2> QED BY <1>0, LeastSubset
<1>2. T \in SUBSET A /\ T \in SUBSET B OBVIOUS
<1>3. g[T] = Unfolded(f, T, g) /\ h[T] = Unfolded(f, T, h)
  BY <1>2 DEF Tabulates
<1>4. T # {} BY <1>3 DEF Unfolded
<1>5. T \ {Picked(T)} \notin Differ
  BY <1>1, <1>4, PickedIsIn
<1>6. g[T \ {Picked(T)}] = h[T \ {Picked(T)}]
  BY <1>5, <1>2
<1> QED BY <1>3, <1>4, <1>6 DEF Unfolded

\* Every finite set has a table.
LEMMA TableExists ==
    ASSUME NEW S, IsFiniteSet(S), NEW f
    PROVE  Tabulates(f, S, TableOf(f, S))
<1> DEFINE Bad == {T \in SUBSET S : ~(\E g : Tabulates(f, T, g))}
<1> SUFFICES ASSUME Bad # {} PROVE FALSE
  <2>1. \E g : Tabulates(f, S, g) OBVIOUS
  <2> QED BY <2>1 DEF TableOf
<1>1. PICK T \in Bad : \A U \in Bad : ~(U \subseteq T /\ U # T)
  <2>1. Bad \subseteq SUBSET S OBVIOUS
  <2> HIDE DEF Bad
  <2> QED BY <2>1, LeastSubset
<1>2. \A U \in SUBSET T : U # T => Tabulates(f, U, TableOf(f, U))
  BY <1>1 DEF TableOf
<1> DEFINE h == [U \in SUBSET T |-> IF U = {} THEN 0
                   ELSE f[Picked(U)] + TableOf(f, U \ {Picked(U)})[U \ {Picked(U)}]]
<1>3. ASSUME NEW U \in SUBSET T PROVE h[U] = Unfolded(f, U, h)
  <2>1. CASE U = {} BY <2>1 DEF Unfolded
  <2>2. CASE U # {}
    <3> DEFINE V == U \ {Picked(U)}
    <3>1. V \in SUBSET T /\ V # T BY <2>2, PickedIsIn
    <3>2. TableOf(f, V)[V] = h[V]
      <4>1. TableOf(f, V)[V] = Unfolded(f, V, TableOf(f, V))
        BY <1>2, <3>1 DEF Tabulates
      <4>2. CASE V = {} BY <4>1, <4>2, <3>1 DEF Unfolded
      <4>3. CASE V # {}
        <5> DEFINE W == V \ {Picked(V)}
        <5>1. W \in SUBSET V /\ W \in SUBSET T /\ W # T BY <3>1, <4>3, PickedIsIn
        <5>2. TableOf(f, V)[W] = TableOf(f, W)[W]
          <6>1. Tabulates(f, V, TableOf(f, V)) /\ Tabulates(f, W, TableOf(f, W))
            BY <1>2, <3>1, <5>1
          <6>2. V \in SUBSET S /\ W \in SUBSET S /\ W \in SUBSET (V \cap W)
            BY <3>1, <5>1, <1>1
          <6> HIDE DEF V, W
          <6> QED BY <6>1, <6>2, TablesAgree
        <5>3. h[V] = f[Picked(V)] + TableOf(f, W)[W]
          BY <4>3, <3>1
        <5> QED BY <4>1, <4>3, <5>2, <5>3 DEF Unfolded
      <4> QED BY <4>2, <4>3
    <3> QED BY <2>2, <3>2 DEF Unfolded
  <2> QED BY <2>1, <2>2
<1>4. h = [U \in SUBSET T |-> Unfolded(f, U, h)]
  <2>1. h = [U \in SUBSET T |-> h[U]] OBVIOUS
  <2> HIDE DEF h
  <2> QED BY <1>3, <2>1
<1>5. Tabulates(f, T, h)
  <2> HIDE DEF h
  <2> QED BY <1>4 DEF Tabulates
<1> HIDE DEF h
<1> QED BY <1>1, <1>5

\* A sum over a set is the entry of that set in its table of partial sums.
LEMMA SumIsTabled ==
    ASSUME NEW S, NEW f
    PROVE  SumFunctionOnSet(f, S) = TableOf(f, S)[S]
BY DEF SumFunctionOnSet, FoldFunctionOnSet, MapThenFoldSet, TableOf, Tabulates, Unfolded, Picked

\* Sums of the subsets of one set are all in its table.
LEMMA SumsAreTabled ==
    ASSUME NEW S, IsFiniteSet(S), NEW f, NEW T \in SUBSET S
    PROVE  SumFunctionOnSet(f, T) = TableOf(f, S)[T]
<1>1. IsFiniteSet(T) BY FS_Subset
<1>2. Tabulates(f, T, TableOf(f, T)) /\ Tabulates(f, S, TableOf(f, S))
  BY <1>1, TableExists
<1>3. T \in SUBSET (T \cap S) /\ S \in SUBSET S OBVIOUS
<1>4. TableOf(f, T)[T] = TableOf(f, S)[T]
  BY <1>2, <1>3, TablesAgree
<1> QED BY <1>4, SumIsTabled

\* The sum over no element is zero.
LEMMA SumOfNone ==
    ASSUME NEW f
    PROVE  SumFunctionOnSet(f, {}) = 0
<1>1. IsFiniteSet({}) BY FS_EmptySet
<1> QED BY <1>1, SumIsTabled, TableExists DEF Tabulates, Unfolded

\* The sum takes out the element that is picked.
LEMMA SumUnfolds ==
    ASSUME NEW S, IsFiniteSet(S), NEW f, S # {}
    PROVE  SumFunctionOnSet(f, S) = f[Picked(S)] + SumFunctionOnSet(f, S \ {Picked(S)})
<1>1. TableOf(f, S)[S] = Unfolded(f, S, TableOf(f, S))
  BY TableExists DEF Tabulates
<1>2. TableOf(f, S)[S \ {Picked(S)}] = SumFunctionOnSet(f, S \ {Picked(S)})
  BY SumsAreTabled
<1> QED BY <1>1, <1>2, SumIsTabled DEF Unfolded

\* A finite sum of integers is an integer.
LEMMA SumIsInt ==
    ASSUME NEW S, IsFiniteSet(S), NEW f, \A x \in S : f[x] \in Int
    PROVE  SumFunctionOnSet(f, S) \in Int
<1> DEFINE Bad == {T \in SUBSET S : SumFunctionOnSet(f, T) \notin Int}
<1> SUFFICES ASSUME Bad # {} PROVE FALSE OBVIOUS
<1>1. PICK T \in Bad : \A U \in Bad : ~(U \subseteq T /\ U # T)
  <2>1. Bad \subseteq SUBSET S OBVIOUS
  <2> HIDE DEF Bad
  <2> QED BY <2>1, LeastSubset
<1>2. T # {} BY SumOfNone
<1>3. T \ {Picked(T)} \notin Bad /\ Picked(T) \in T BY <1>1, <1>2, PickedIsIn
<1>4. SumFunctionOnSet(f, T) = f[Picked(T)] + SumFunctionOnSet(f, T \ {Picked(T)})
  BY <1>2, SumUnfolds, FS_Subset
<1> QED BY <1>3, <1>4

\* A finite sum of naturals is a natural.
LEMMA SumOfNats ==
    ASSUME NEW S, IsFiniteSet(S), NEW f, \A x \in S : f[x] \in Nat
    PROVE  SumFunctionOnSet(f, S) \in Nat
<1> DEFINE Bad == {T \in SUBSET S : SumFunctionOnSet(f, T) \notin Nat}
<1> SUFFICES ASSUME Bad # {} PROVE FALSE OBVIOUS
<1>1. PICK T \in Bad : \A U \in Bad : ~(U \subseteq T /\ U # T)
  <2>1. Bad \subseteq SUBSET S OBVIOUS
  <2> HIDE DEF Bad
  <2> QED BY <2>1, LeastSubset
<1>2. T # {} BY SumOfNone
<1>3. T \ {Picked(T)} \notin Bad /\ Picked(T) \in T BY <1>1, <1>2, PickedIsIn
<1>4. SumFunctionOnSet(f, T) = f[Picked(T)] + SumFunctionOnSet(f, T \ {Picked(T)})
  BY <1>2, SumUnfolds, FS_Subset
<1> QED BY <1>3, <1>4

\* Any element can be taken out first.
LEMMA SumWithout ==
    ASSUME NEW S, IsFiniteSet(S), NEW f, \A x \in S : f[x] \in Int, NEW x \in S
    PROVE  SumFunctionOnSet(f, S) = f[x] + SumFunctionOnSet(f, S \ {x})
<1> DEFINE Sum(T) == SumFunctionOnSet(f, T)
           Bad == {T \in SUBSET S : \E y \in T : Sum(T) # f[y] + Sum(T \ {y})}
<1> SUFFICES ASSUME Bad # {} PROVE FALSE OBVIOUS
<1>1. PICK T \in Bad : \A U \in Bad : ~(U \subseteq T /\ U # T)
  <2>1. Bad \subseteq SUBSET S OBVIOUS
  <2> HIDE DEF Bad
  <2> QED BY <2>1, LeastSubset
<1>2. PICK y \in T : Sum(T) # f[y] + Sum(T \ {y}) BY <1>1
<1> DEFINE p == Picked(T)
<1>3. p \in T BY <1>2, PickedIsIn
<1>4. Sum(T) = f[p] + Sum(T \ {p}) BY <1>2, SumUnfolds, FS_Subset
<1>5. p # y BY <1>2, <1>4
<1>a. ASSUME NEW U \in SUBSET T, U # T, NEW z \in U
      PROVE  Sum(U) = f[z] + Sum(U \ {z})
  <2>1. U \notin Bad BY <1>1, <1>a
  <2>2. U \in SUBSET S BY <1>1
  <2> HIDE DEF Sum
  <2> QED BY <2>1, <2>2, <1>a
<1>6. Sum(T \ {p}) = f[y] + Sum((T \ {p}) \ {y})
  <2>1. T \ {p} \in SUBSET T /\ T \ {p} # T /\ y \in T \ {p} BY <1>3, <1>5
  <2> HIDE DEF Sum, p
  <2> QED BY <1>a, <2>1
<1>7. Sum(T \ {y}) = f[p] + Sum((T \ {p}) \ {y})
  <2>1. T \ {y} \in SUBSET T /\ T \ {y} # T /\ p \in T \ {y} BY <1>3, <1>5, <1>2
  <2>2. (T \ {y}) \ {p} = (T \ {p}) \ {y} OBVIOUS
  <2>3. Sum(T \ {y}) = f[p] + Sum((T \ {y}) \ {p})
    <3> HIDE DEF Sum, p
    <3> QED BY <1>a, <2>1
  <2> HIDE DEF Sum, p
  <2> QED BY <2>2, <2>3, Zenon
<1>9. Sum((T \ {p}) \ {y}) \in Int /\ f[y] \in Int /\ f[p] \in Int
  <2>1. IsFiniteSet((T \ {p}) \ {y}) BY FS_Subset
  <2> QED BY <2>1, SumIsInt, <1>3
<1> HIDE DEF Sum, p
<1> QED BY <1>2, <1>4, <1>6, <1>7, <1>9

\* One more element adds its figure to the sum.
LEMMA SumWith ==
    ASSUME NEW S, IsFiniteSet(S), NEW f, \A x \in S : f[x] \in Int, NEW x, x \notin S, f[x] \in Int
    PROVE  SumFunctionOnSet(f, S \cup {x}) = SumFunctionOnSet(f, S) + f[x]
<1>1. IsFiniteSet(S \cup {x}) BY FS_AddElement
<1>2. (S \cup {x}) \ {x} = S OBVIOUS
<1>3. SumFunctionOnSet(f, S \cup {x}) = f[x] + SumFunctionOnSet(f, S)
  BY <1>1, <1>2, SumWithout
<1> QED BY <1>3, SumIsInt

\* A sum is a matter of the values at the elements.
LEMMA SumsAgree ==
    ASSUME NEW S, IsFiniteSet(S), NEW f, NEW g, \A x \in S : f[x] = g[x]
    PROVE  SumFunctionOnSet(f, S) = SumFunctionOnSet(g, S)
<1> DEFINE Bad == {T \in SUBSET S : SumFunctionOnSet(f, T) # SumFunctionOnSet(g, T)}
<1> SUFFICES ASSUME Bad # {} PROVE FALSE OBVIOUS
<1>1. PICK T \in Bad : \A U \in Bad : ~(U \subseteq T /\ U # T)
  <2>1. Bad \subseteq SUBSET S OBVIOUS
  <2> HIDE DEF Bad
  <2> QED BY <2>1, LeastSubset
<1>2. T # {} BY SumOfNone
<1>3. T \ {Picked(T)} \notin Bad /\ Picked(T) \in T BY <1>1, <1>2, PickedIsIn
<1>4. SumFunctionOnSet(f, T) = f[Picked(T)] + SumFunctionOnSet(f, T \ {Picked(T)})
  BY <1>2, SumUnfolds, FS_Subset
<1>5. SumFunctionOnSet(g, T) = g[Picked(T)] + SumFunctionOnSet(g, T \ {Picked(T)})
  BY <1>2, SumUnfolds, FS_Subset
<1> QED BY <1>3, <1>4, <1>5

\* Sums over sets apart add up.
LEMMA SumOfBoth ==
    ASSUME NEW S, IsFiniteSet(S), NEW R, IsFiniteSet(R), S \cap R = {}, NEW f,
           \A x \in S \cup R : f[x] \in Int
    PROVE  SumFunctionOnSet(f, S \cup R) = SumFunctionOnSet(f, S) + SumFunctionOnSet(f, R)
<1> DEFINE Sum(T) == SumFunctionOnSet(f, T)
           Bad == {T \in SUBSET S : Sum(T \cup R) # Sum(T) + Sum(R)}
<1> SUFFICES ASSUME Bad # {} PROVE FALSE OBVIOUS
<1>1. PICK T \in Bad : \A U \in Bad : ~(U \subseteq T /\ U # T)
  <2>1. Bad \subseteq SUBSET S OBVIOUS
  <2> HIDE DEF Bad
  <2> QED BY <2>1, LeastSubset
<1> DEFINE p == Picked(T)
<1>0. \A U \in SUBSET (S \cup R) : IsFiniteSet(U)
  BY FS_Union, FS_Subset
<1>a. \A U \in SUBSET (S \cup R) : Sum(U) \in Int
  BY <1>0, SumIsInt
<1>2. T # {}
  <2> SUFFICES ASSUME T = {} PROVE FALSE OBVIOUS
  <2>1. T \cup R = R OBVIOUS
  <2>2. Sum(T \cup R) = Sum(R) BY <2>1, Zenon
  <2>3. Sum(T) = 0 BY SumOfNone
  <2>4. Sum(R) \in Int BY <1>a
  <2>5. Sum(T \cup R) # Sum(T) + Sum(R) BY <1>1
  <2> HIDE DEF Sum
  <2> QED BY <2>2, <2>3, <2>4, <2>5
<1>3. p \in T /\ T \ {p} \notin Bad BY <1>1, <1>2, PickedIsIn
<1>4. Sum((T \ {p}) \cup R) = Sum(T \ {p}) + Sum(R)
  <2> HIDE DEF Sum, p
  <2> QED BY <1>3
<1>5. Sum(T) = f[p] + Sum(T \ {p})
  BY <1>0, <1>3, SumWithout
<1>6. Sum(T \cup R) = f[p] + Sum((T \cup R) \ {p})
  BY <1>0, <1>3, SumWithout
<1>7. Sum((T \cup R) \ {p}) = Sum((T \ {p}) \cup R)
  <2>1. (T \cup R) \ {p} = (T \ {p}) \cup R BY <1>3
  <2> QED BY <2>1, Zenon
<1>8. Sum(T \ {p}) \in Int /\ Sum(R) \in Int /\ f[p] \in Int
  BY <1>a, <1>3
<1>9. Sum(T \cup R) # Sum(T) + Sum(R) BY <1>1
<1> HIDE DEF Sum, p
<1> QED BY <1>4, <1>5, <1>6, <1>7, <1>8, <1>9

\* A part sums up to no more than the whole.
LEMMA SumOfPart ==
    ASSUME NEW S, IsFiniteSet(S), NEW f, \A x \in S : f[x] \in Nat, NEW T \in SUBSET S
    PROVE  SumFunctionOnSet(f, T) <= SumFunctionOnSet(f, S)
<1>1. IsFiniteSet(T) /\ IsFiniteSet(S \ T) BY FS_Subset
<1>0. SumFunctionOnSet(f, T \cup (S \ T)) = SumFunctionOnSet(f, S)
  <2>1. T \cup (S \ T) = S OBVIOUS
  <2> QED BY <2>1, Zenon
<1>2. SumFunctionOnSet(f, T) \in Nat /\ SumFunctionOnSet(f, S \ T) \in Nat
  BY <1>1, SumOfNats
<1>3. SumFunctionOnSet(f, T \cup (S \ T)) = SumFunctionOnSet(f, T) + SumFunctionOnSet(f, S \ T)
  <2>1. \A x \in T \cup (S \ T) : f[x] \in Int OBVIOUS
  <2>2. T \cap (S \ T) = {} OBVIOUS
  <2> QED BY <1>1, <2>1, <2>2, SumOfBoth
<1> QED BY <1>0, <1>2, <1>3

\* A sum over a stretch of numbers grows by its end.
LEMMA SumToNext ==
    ASSUME NEW i \in Nat, NEW n \in Nat, i <= n + 1, NEW f, \A k \in i..(n + 1) : f[k] \in Int
    PROVE  SumFunctionOnSet(f, i..(n + 1)) = SumFunctionOnSet(f, i..n) + f[n + 1]
<1>1. \A k : k \in i..(n + 1) <=> k \in (i..n) \cup {n + 1}
  OBVIOUS
<1>2. i..(n + 1) = (i..n) \cup {n + 1}
  BY <1>1, Zenon
<1>3. SumFunctionOnSet(f, i..(n + 1)) = SumFunctionOnSet(f, (i..n) \cup {n + 1})
  BY <1>2, Zenon
<1> DEFINE S == i..n
<1>4. IsFiniteSet(S) BY FS_Interval
<1>5. n + 1 \notin S /\ (\A k \in S : f[k] \in Int) /\ f[n + 1] \in Int
  OBVIOUS
<1>6. SumFunctionOnSet(f, S \cup {n + 1}) = SumFunctionOnSet(f, S) + f[n + 1]
  <2> DEFINE m == n + 1
  <2> HIDE DEF S, m
  <2> QED BY <1>4, <1>5, SumWith DEF m
<1> QED BY <1>3, <1>6

\* Two functions that agree on a stretch of indices have the same sum over it.
LEMMA SumsOfStretch ==
    ASSUME NEW i \in Int, NEW n \in Int, NEW f, NEW g, \A k \in i..n : f[k] = g[k] /\ f[k] \in Nat
    PROVE  /\ SumFunctionOnSet(f, i..n) = SumFunctionOnSet(g, i..n)
           /\ SumFunctionOnSet(f, i..n) \in Nat
BY FS_Interval, SumsAgree, SumOfNats

\* The lesser and the greater of two numbers.
LEMMA MinOfTwo ==
    ASSUME NEW a \in Int, NEW b \in Int
    PROVE  Min({a, b}) \in {a, b} /\ Min({a, b}) <= a /\ Min({a, b}) <= b
<1>1. \E x \in {a, b} : \A y \in {a, b} : x =< y OBVIOUS
<1> QED BY <1>1 DEF Min

\* The larger of two integers is one of them and below neither.
LEMMA MaxOfTwo ==
    ASSUME NEW a \in Int, NEW b \in Int
    PROVE  Max({a, b}) \in {a, b} /\ Max({a, b}) >= a /\ Max({a, b}) >= b
<1>1. \E x \in {a, b} : \A y \in {a, b} : x >= y OBVIOUS
<1> QED BY <1>1 DEF Max


\* A finite set of numbers has a greatest.
LEMMA MaxIsGreatest ==
    ASSUME NEW S, IsFiniteSet(S), S # {}, \A x \in S : x \in Int
    PROVE  Max(S) \in S /\ \A x \in S : Max(S) >= x
<1> DEFINE Bad == {T \in SUBSET S : T # {} /\ \A m \in T : \E x \in T : x > m}
<1>1. Bad = {}
  <2> SUFFICES ASSUME Bad # {} PROVE FALSE OBVIOUS
  <2>1. PICK T \in Bad : \A U \in Bad : ~(U \subseteq T /\ U # T)
    <3>1. Bad \subseteq SUBSET S OBVIOUS
    <3> HIDE DEF Bad
    <3> QED BY <3>1, LeastSubset
  <2>2. PICK p \in T : TRUE OBVIOUS
  <2>3. T \ {p} # {}
    <3>1. PICK x \in T : x > p OBVIOUS
    <3>2. x # p BY <3>1
    <3> QED BY <3>2
  <2>4. T \ {p} \notin Bad BY <2>1, <2>2
  <2>5. PICK m \in T \ {p} : \A x \in T \ {p} : ~(x > m) BY <2>3, <2>4
  <2>6. m \in Int /\ p \in Int BY <2>2
  <2>7. CASE m >= p BY <2>5, <2>6, <2>7
  <2>8. CASE p > m
    <3>1. \A x \in T : ~(x > p)
      <4> SUFFICES ASSUME NEW x \in T, x > p PROVE FALSE OBVIOUS
      <4>1. x \in Int /\ x # p BY <2>6
      <4>2. x > m BY <4>1, <2>6, <2>8
      <4> QED BY <4>1, <4>2, <2>5
    <3> QED BY <3>1, <2>2
  <2> QED BY <2>6, <2>7, <2>8
<1>2. \E m \in S : \A x \in S : ~(x > m)
  BY <1>1
<1>3. \E m \in S : \A x \in S : m >= x
  BY <1>2
<1> QED BY <1>3 DEF Max

\* Two sequences, one behind the other.
LEMMA Joined ==
    ASSUME NEW S, NEW s \in Seq(S), NEW t \in Seq(S)
    PROVE  /\ s \o t \in Seq(S) /\ Len(s \o t) = Len(s) + Len(t)
           /\ \A j \in 1..Len(s) : (s \o t)[j] = s[j]
           /\ \A j \in 1..Len(t) : (s \o t)[Len(s) + j] = t[j]
OBVIOUS

Below == OpToRel(<, Nat)

\* A set of naturals has a least element.
LEMMA LeastNatural ==
    ASSUME NEW T, T \subseteq Nat, T # {}
    PROVE  \E x \in T : \A y \in T : ~(y < x)
<1>1. IsWellFoundedOn(Below, Nat) BY NatLessThanWellFounded DEF Below
<1>2. PICK x \in T : \A y \in T : <<y, x>> \notin Below BY <1>1, WFMin
<1>3. \A a, b \in Nat : a < b => <<a, b>> \in Below BY DEF Below, OpToRel
<1> QED BY <1>2, <1>3


\* A pass over 1..m: what step gives at each place of what was before it.
Passes(m, T, base, step) ==
    m \in Nat /\ base \in T[0] /\ \A k \in 1..m : \A x \in T[k - 1] : step[k][x] \in T[k]

PassFrom(f, m, T, base, step) ==
    /\ DOMAIN f = 0..m /\ f[0] = base
    /\ \A k \in 1..m : f[k] = step[k][f[k - 1]]
    /\ \A k \in 0..m : f[k] \in T[k]

\* A pass over the data, given by its start and its step, has a function that computes it.
LEMMA PassStarted ==
    ASSUME NEW m, NEW T, NEW base, NEW step, Passes(m, T, base, step)
    PROVE  \E f : PassFrom(f, m, T, base, step)
<1> DEFINE Is(f, n) == /\ DOMAIN f = 0..n /\ f[0] = base
                       /\ \A k \in 1..n : f[k] = step[k][f[k - 1]]
                       /\ \A k \in 0..n : f[k] \in T[k]
           Bad == {n \in 0..m : ~\E f : Is(f, n)}
<1>a. m \in Nat /\ base \in T[0] /\ \A k \in 1..m : \A x \in T[k - 1] : step[k][x] \in T[k] BY DEF Passes
<1>b. CASE Bad = {}
  <2>1. m \in 0..m BY <1>a
  <2>2. PICK f : Is(f, m) BY <1>b, <2>1
  <2> QED BY <2>2 DEF PassFrom
<1> SUFFICES ASSUME Bad # {} PROVE FALSE BY <1>b
<1>1. PICK n \in Bad : \A k \in Bad : ~(k < n)
  <2>1. Bad \subseteq Nat OBVIOUS
  <2> HIDE DEF Bad
  <2> QED BY <2>1, LeastNatural
<1>2. CASE n = 0
  <2>1. PICK f : f = [k \in 0..0 |-> base] OBVIOUS
  <2>2. Is(f, 0) BY <2>1, <1>a
  <2> QED BY <1>2, <2>2
<1>3. CASE n # 0
  <2>0. n \in 0..m OBVIOUS
  <2>1. n - 1 \in 0..m /\ n - 1 \notin Bad /\ n \in 1..m
    <3> HIDE DEF Bad
    <3>1. n - 1 \in 0..m /\ n \in 1..m /\ n - 1 < n BY <2>0, <1>3, <1>a
    <3> QED BY <3>1, <1>1
  <2>2. PICK f : Is(f, n - 1) BY <2>1
  <2>3. PICK g : g = [k \in 0..n |-> IF k = n THEN step[n][f[n - 1]] ELSE f[k]] OBVIOUS
  <2>4. g[n] = step[n][f[n - 1]] /\ \A k \in 0..(n - 1) : g[k] = f[k] BY <2>1, <2>3
  <2>5. f[n - 1] \in T[n - 1] BY <2>1, <2>2
  <2>6. g[n] \in T[n] BY <2>1, <2>4, <2>5, <1>a
  <2>7. \A k \in 0..n : g[k] \in T[k]
    <3>1. \A k \in 0..n : k = n \/ k \in 0..(n - 1) BY <2>1
    <3> QED BY <3>1, <2>2, <2>4, <2>6
  <2>8. \A k \in 1..n : g[k] = step[k][g[k - 1]]
    <3> SUFFICES ASSUME NEW k \in 1..n PROVE g[k] = step[k][g[k - 1]] OBVIOUS
    <3>1. k - 1 \in 0..(n - 1) /\ g[k - 1] = f[k - 1] BY <2>1, <2>4
    <3>2. CASE k = n BY <3>1, <3>2, <2>4
    <3>3. CASE k # n
      <4>1. k \in 1..(n - 1) /\ k \in 0..(n - 1) BY <2>1, <3>3
      <4>2. f[k] = step[k][f[k - 1]] BY <4>1, <2>2
      <4> QED BY <4>1, <4>2, <3>1, <2>4
    <3> QED BY <3>2, <3>3
  <2>9. DOMAIN g = 0..n /\ g[0] = base
    <3>1. 0 \in 0..(n - 1) BY <2>1
    <3> QED BY <3>1, <2>2, <2>3, <2>4
  <2> QED BY <2>7, <2>8, <2>9
<1> QED BY <1>2, <1>3

\* Two passes that make the same of the same are one.
LEMMA PassesAgree ==
    ASSUME NEW m \in Nat, NEW f, NEW g, f[0] = g[0],
           \A k \in 1..m : f[k - 1] = g[k - 1] => f[k] = g[k]
    PROVE  \A k \in 0..m : f[k] = g[k]
<1> DEFINE Bad == {n \in 0..m : f[n] # g[n]}
<1> SUFFICES ASSUME Bad # {} PROVE FALSE OBVIOUS
<1>1. PICK n \in Bad : \A k \in Bad : ~(k < n)
  <2>1. Bad \subseteq Nat OBVIOUS
  <2> HIDE DEF Bad
  <2> QED BY <2>1, LeastNatural
<1>2. n # 0 BY <1>1
<1>3. n \in 1..m /\ n - 1 \in 0..m /\ n - 1 \notin Bad BY <1>1, <1>2
<1> QED BY <1>3

\* One more place that is counted, or not.
LEMMA CountedToNext ==
    ASSUME NEW n \in Nat, NEW A \in SUBSET (1..n), NEW B \in SUBSET (1..(n + 1)),
           \A k \in 1..n : k \in A <=> k \in B
    PROVE  /\ IsFiniteSet(A) /\ Cardinality(A) \in Nat
           /\ Cardinality(B) = IF n + 1 \in B THEN Cardinality(A) + 1 ELSE Cardinality(A)
<1>0. IsFiniteSet(1..n) BY FS_Interval
<1>1. IsFiniteSet(A) /\ Cardinality(A) \in Nat
  <2>1. IsFiniteSet(A) BY <1>0, FS_Subset
  <2> QED BY <2>1, FS_CardinalityType
<1>a. \A k \in 1..(n + 1) : k \in 1..n \/ k = n + 1 OBVIOUS
<1>b. n + 1 \in 1..(n + 1) /\ \A k \in 1..n : k \in 1..(n + 1) /\ k # n + 1 OBVIOUS
<1>2. CASE n + 1 \in B
  <2>1. B = A \cup {n + 1}
    <3>1. \A k : k \in B <=> k \in A \/ k = n + 1 BY <1>2, <1>a, <1>b
    <3> QED BY <3>1
  <2>2. n + 1 \notin A OBVIOUS
  <2>3. Cardinality(A \cup {n + 1}) = Cardinality(A) + 1 BY <1>1, <2>2, FS_AddElement
  <2>4. Cardinality(B) = Cardinality(A) + 1 BY <2>1, <2>3, Zenon
  <2> QED BY <1>1, <1>2, <2>4
<1>3. CASE n + 1 \notin B
  <2>1. B = A
    <3>1. \A k : k \in B <=> k \in A BY <1>3, <1>a, <1>b
    <3> QED BY <3>1
  <2>2. Cardinality(B) = Cardinality(A) BY <2>1, Zenon
  <2> QED BY <1>1, <1>3, <2>2
<1> QED BY <1>2, <1>3

\* The same is counted.
LEMMA CountsAgree ==
    ASSUME NEW A, NEW B, \A k : k \in A <=> k \in B
    PROVE  Cardinality(A) = Cardinality(B)
<1>1. A = B OBVIOUS
<1> QED BY <1>1, Zenon

-----------------------------------------------------------------------------
(* The books of a tenant.                                                  *)

UsageEvents == [quantity : Quantities, at : UsageTimes]
Invoices == [from : Int, to : Int, status : {"draft", "issued", "partially_paid", "paid"},
             quantity : Nat, total : Int, paid : Nat, over : Nat, payments : Seq(Amounts)]

Metered == [i \in DOMAIN usage |-> usage[i].quantity]

\* No invoice charges more than what lies in its period by now.
ChargedWasUsed ==
    \A n \in DOMAIN invoices : \A from, to \in Int :
       invoices[n].from = from /\ invoices[n].to = to => invoices[n].quantity <= Quantity(InPeriod(from, to))

\* An entry of the ledger debits what it credits.
LedgerIsPaired ==
    /\ ledger \in Seq([sequence : Nat, debit : Amounts, credit : Amounts])
    /\ \A i \in DOMAIN ledger : ledger[i].sequence = i /\ ledger[i].debit = ledger[i].credit

\* How the status of an invoice, its total and its payments belong together.
Excess(i) == IF i.paid > i.total THEN i.paid - i.total ELSE 0
Balanced(i) ==
    /\ i.paid = SumOf(i.payments)
    /\ i.over = Excess(i) \/ (i.payments = <<>> /\ i.over = 0)
    /\ i.status \in {"draft", "issued"} <=> i.payments = <<>>
    /\ i.status = "partially_paid" => i.paid < i.total
    /\ i.status = "paid" => i.paid >= i.total

\* What is used is within the quota, what is charged was used, and what is booked balances.
BillingInv ==
    /\ plans \subseteq Plans /\ entitlement \in Plans \cup {NoPlan}
    /\ usage \in Seq(UsageEvents) /\ invoices \in Seq(Invoices)
    /\ UsageWithinQuota /\ ChargedWasUsed /\ LedgerIsPaired
    /\ entitlement # NoPlan => entitlement \in entitledTo
    /\ entitledTo \subseteq Plans
    /\ \A n \in DOMAIN invoices : Balanced(invoices[n])

\* The billing ledger starts within its invariant.
LEMMA BillingStarts == BillingInit => BillingInv
<1> SUFFICES ASSUME BillingInit PROVE BillingInv OBVIOUS
<1>1. Quantity({}) = 0 BY SumOfNone DEF Quantity
<1>2. DOMAIN usage = {} /\ used = 0 BY DEF BillingInit
<1>3. Quantity(DOMAIN usage) = Quantity({}) BY <1>2, Zenon
<1>4. UsageWithinQuota BY <1>1, <1>2, <1>3 DEF UsageWithinQuota
<1> QED BY <1>4 DEF BillingInit, BillingInv, ChargedWasUsed, LedgerIsPaired

\* What was metered is a number, and part of it is at most all of it.
LEMMA PartOfUsage ==
    ASSUME usage \in Seq(UsageEvents), NEW E \in SUBSET DOMAIN usage
    PROVE  Quantity(E) \in Nat /\ Quantity(DOMAIN usage) \in Nat /\ Quantity(E) <= Quantity(DOMAIN usage)
<1>1. IsFiniteSet(DOMAIN usage) /\ IsFiniteSet(E) BY FS_Interval, FS_Subset
<1>2. \A i \in DOMAIN usage : Metered[i] \in Nat
  <2>1. \A i \in DOMAIN usage : usage[i] \in UsageEvents OBVIOUS
  <2> QED BY <2>1, BillingAssumption DEF UsageEvents, Metered
<1>3. SumFunctionOnSet(Metered, E) \in Nat /\ SumFunctionOnSet(Metered, DOMAIN usage) \in Nat
  BY <1>1, <1>2, SumOfNats
<1>4. SumFunctionOnSet(Metered, E) <= SumFunctionOnSet(Metered, DOMAIN usage)
  BY <1>1, <1>2, SumOfPart
<1> QED BY <1>3, <1>4 DEF Quantity, Metered

\* Usage that comes in raises the sum of all by its quantity, and lowers none.
LEMMA UsageGrows ==
    ASSUME usage \in Seq(UsageEvents), NEW e \in UsageEvents, usage' = Append(usage, e)
    PROVE  /\ usage' \in Seq(UsageEvents)
           /\ Quantity(DOMAIN usage)' = Quantity(DOMAIN usage) + e.quantity
           /\ \A from, to \in Int :
                 Quantity(InPeriod(from, to)) \in Nat /\ Quantity(InPeriod(from, to))' \in Nat
                   /\ Quantity(InPeriod(from, to)) <= Quantity(InPeriod(from, to))'
<1>1. PICK n \in Nat : n = Len(usage) /\ DOMAIN usage = 1..n OBVIOUS
<1>2. /\ usage' \in Seq(UsageEvents) /\ DOMAIN usage' = 1..(n + 1) /\ usage'[n + 1] = e
      /\ \A i \in 1..n : usage'[i] = usage[i]
  BY <1>1
<1>3. PICK f : f = [i \in DOMAIN usage |-> usage[i].quantity] OBVIOUS
<1>4. PICK g : g = [i \in DOMAIN usage' |-> usage'[i].quantity] OBVIOUS
<1>5. /\ \A i \in 1..n : g[i] = f[i] /\ f[i] \in Nat
      /\ g[n + 1] = e.quantity /\ e.quantity \in Nat
  <2>1. \A i \in 1..n : usage[i] \in UsageEvents BY <1>1
  <2>2. \A i \in 1..n : f[i] = usage[i].quantity BY <1>1, <1>3
  <2>3. \A i \in 1..(n + 1) : g[i] = usage'[i].quantity BY <1>2, <1>4
  <2>4. \A i \in 1..n : usage[i].quantity \in Nat BY <2>1, BillingAssumption DEF UsageEvents
  <2>5. e.quantity \in Nat BY BillingAssumption DEF UsageEvents
  <2>6. \A i \in 1..n : g[i] = f[i] BY <2>2, <2>3, <1>2
  <2>7. n + 1 \in 1..(n + 1) OBVIOUS
  <2> QED BY <2>2, <2>3, <2>4, <2>5, <2>6, <2>7, <1>2
<1>6. \A i \in 1..(n + 1) : g[i] \in Nat BY <1>5
<1>7. SumFunctionOnSet(g, 1..(n + 1)) = SumFunctionOnSet(g, 1..n) + g[n + 1]
  BY <1>6, SumToNext
<1>8. SumFunctionOnSet(f, 1..n) = SumFunctionOnSet(g, 1..n) BY <1>5, SumsOfStretch
<1>9. Quantity(DOMAIN usage)' = SumFunctionOnSet(g, 1..(n + 1))
  BY <1>2, <1>4, Zenon DEF Quantity
<1>10. Quantity(DOMAIN usage) = SumFunctionOnSet(f, 1..n)
  BY <1>1, <1>3, Zenon DEF Quantity
<1>11. ASSUME NEW from \in Int, NEW to \in Int
       PROVE  Quantity(InPeriod(from, to)) \in Nat /\ Quantity(InPeriod(from, to))' \in Nat
                /\ Quantity(InPeriod(from, to)) <= Quantity(InPeriod(from, to))'
  <2>1. PICK T : T = InPeriod(from, to) OBVIOUS
  <2>2. PICK U : U = InPeriod(from, to)' OBVIOUS
  <2>3. T \subseteq 1..n BY <1>1, <2>1 DEF InPeriod
  <2>4. T \subseteq U BY <1>1, <1>2, <2>1, <2>2 DEF InPeriod
  <2>5. U \subseteq 1..(n + 1) BY <1>2, <2>2 DEF InPeriod
  <2>6. IsFiniteSet(1..n) /\ IsFiniteSet(1..(n + 1)) BY FS_Interval
  <2>7. IsFiniteSet(T) /\ IsFiniteSet(U) BY <2>3, <2>5, <2>6, FS_Subset
  <2>8. SumFunctionOnSet(f, T) = SumFunctionOnSet(g, T) BY <1>5, <2>3, <2>7, SumsAgree
  <2>9. SumFunctionOnSet(g, T) <= SumFunctionOnSet(g, U)
    BY <1>6, <2>4, <2>5, <2>7, SumOfPart
  <2>10. Quantity(InPeriod(from, to)) = SumFunctionOnSet(f, T) BY <1>3, <2>1, Zenon DEF Quantity
  <2>11. Quantity(InPeriod(from, to))' = SumFunctionOnSet(g, U) BY <1>4, <2>2, Zenon DEF Quantity
  <2>12. SumFunctionOnSet(f, T) \in Nat /\ SumFunctionOnSet(g, U) \in Nat
    BY <1>5, <1>6, <2>3, <2>5, <2>7, SumOfNats
  <2> QED BY <2>8, <2>9, <2>10, <2>11, <2>12
<1> QED BY <1>2, <1>5, <1>7, <1>8, <1>9, <1>10, <1>11

\* Metering usage keeps the billing invariant.
LEMMA meterUsageKeeps ==
    ASSUME BillingInv, NEW quantity \in Quantities, NEW at \in UsageTimes, meterUsage(quantity, at)
    PROVE  BillingInv'
<1>1. PICK e \in UsageEvents : e = [quantity |-> quantity, at |-> at] BY DEF UsageEvents
<1>2. /\ usage' = Append(usage, e) /\ used' = used + e.quantity /\ e.quantity = quantity
      /\ used + quantity <= Quota[entitlement] /\ entitlement # NoPlan
      /\ UNCHANGED <<plans, entitlement, ledger, invoices, entitledTo>>
  BY <1>1 DEF meterUsage, WithinQuota
<1>3. /\ usage \in Seq(UsageEvents) /\ invoices \in Seq(Invoices) BY DEF BillingInv
<1>4. /\ usage' \in Seq(UsageEvents)
      /\ Quantity(DOMAIN usage)' = Quantity(DOMAIN usage) + e.quantity
      /\ \A from, to \in Int :
            Quantity(InPeriod(from, to)) \in Nat /\ Quantity(InPeriod(from, to))' \in Nat
              /\ Quantity(InPeriod(from, to)) <= Quantity(InPeriod(from, to))'
  BY <1>2, <1>3, UsageGrows
<1>5. UsageWithinQuota'
  <2>1. used = Quantity(DOMAIN usage) BY DEF BillingInv, UsageWithinQuota
  <2>2. used' = Quantity(DOMAIN usage)' BY <2>1, <1>2, <1>4
  <2>3. entitlement \in entitledTo' /\ used' <= Quota[entitlement] BY <1>2 DEF BillingInv
  <2> QED BY <2>2, <2>3 DEF UsageWithinQuota
<1>6. ChargedWasUsed'
  <2> SUFFICES ASSUME NEW n \in DOMAIN invoices, NEW from \in Int, NEW to \in Int,
                      invoices[n].from = from, invoices[n].to = to
               PROVE  invoices[n].quantity <= Quantity(InPeriod(from, to))'
    BY <1>2 DEF ChargedWasUsed
  <2>1. invoices[n] \in Invoices BY <1>3
  <2>2. invoices[n].quantity \in Nat BY <2>1 DEF Invoices
  <2>3. invoices[n].quantity <= Quantity(InPeriod(from, to)) BY DEF BillingInv, ChargedWasUsed
  <2>4. PICK x : x = Quantity(InPeriod(from, to)) OBVIOUS
  <2>5. PICK y : y = Quantity(InPeriod(from, to))' OBVIOUS
  <2>6. x \in Nat /\ y \in Nat /\ x <= y BY <1>4, <2>4, <2>5
  <2>7. invoices[n].quantity <= y BY <2>2, <2>3, <2>4, <2>6
  <2> QED BY <2>5, <2>7
<1> QED BY <1>2, <1>4, <1>5, <1>6 DEF BillingInv, LedgerIsPaired

\* Drafting an invoice keeps the billing invariant: it charges what was metered.
LEMMA draftInvoiceKeeps ==
    ASSUME BillingInv, NEW from \in Int, NEW to \in Int, draftInvoice(from, to)
    PROVE  BillingInv'
<1>1. PICK charged : charged = IF Price[entitlement] = Unpriced THEN {} ELSE InPeriod(from, to) OBVIOUS
<1>2. PICK price : price = IF Price[entitlement] = Unpriced THEN 0 ELSE Price[entitlement] OBVIOUS
<1>3. PICK total : total = Quantity(charged) * price OBVIOUS
<1>4. PICK i : i = [from |-> from, to |-> to, status |-> "draft", quantity |-> Quantity(charged),
                    total |-> total, paid |-> 0, over |-> 0, payments |-> <<>>]
  OBVIOUS
<1>5. /\ invoices' = Append(invoices, i) /\ entitlement # NoPlan
      /\ UNCHANGED <<plans, entitlement, usage, used, ledger, entitledTo>>
  BY <1>1, <1>2, <1>3, <1>4 DEF draftInvoice
<1>6. usage \in Seq(UsageEvents) /\ invoices \in Seq(Invoices) BY DEF BillingInv
<1>7. InPeriod(from, to) \in SUBSET DOMAIN usage /\ {} \in SUBSET DOMAIN usage BY DEF InPeriod
<1>8. charged \in SUBSET DOMAIN usage BY <1>1, <1>7
<1>9. Quantity(charged) \in Nat BY <1>6, <1>8, PartOfUsage
<1>10. Quantity(charged) <= Quantity(InPeriod(from, to))
  <2>1. Quantity(InPeriod(from, to)) \in Nat BY <1>6, <1>7, PartOfUsage
  <2>2. Quantity({}) = 0 BY SumOfNone DEF Quantity
  <2>3. charged = {} \/ charged = InPeriod(from, to) BY <1>1
  <2>4. CASE charged = {}
    <3>1. Quantity(charged) = Quantity({}) BY <2>4, Zenon
    <3> QED BY <3>1, <2>1, <2>2
  <2>5. CASE charged = InPeriod(from, to)
    <3>1. Quantity(charged) = Quantity(InPeriod(from, to)) BY <2>5, Zenon
    <3> QED BY <3>1, <2>1
  <2> QED BY <2>3, <2>4, <2>5
<1>11. price \in Nat
  <2>1. entitlement \in Plans BY <1>5 DEF BillingInv
  <2> QED BY <1>2, <2>1, BillingAssumption
<1>12. total \in Int
  <2>1. \A a, b \in Nat : a * b \in Int OBVIOUS
  <2> QED BY <1>3, <1>9, <1>11, <2>1
<1>13. i \in Invoices BY <1>4, <1>9, <1>12 DEF Invoices
<1>14. i.payments = <<>> /\ i.paid = 0 /\ i.over = 0 /\ i.status = "draft" BY <1>4
<1>15. Balanced(i)
  <2>1. SumOf(<<>>) = 0
    <3>1. DOMAIN <<>> = {} OBVIOUS
    <3>2. SumOf(<<>>) = SumFunctionOnSet(<<>>, {}) BY <3>1, Zenon DEF SumOf
    <3> QED BY <3>2, SumOfNone
  <2> QED BY <2>1, <1>14 DEF Balanced
<1>16. i.from = from /\ i.to = to /\ i.quantity = Quantity(charged) BY <1>4
<1>17. PICK n \in Nat : n = Len(invoices) /\ DOMAIN invoices = 1..n BY <1>6
<1>18. /\ invoices' \in Seq(Invoices) /\ DOMAIN invoices' = 1..(n + 1) /\ invoices'[n + 1] = i
       /\ \A k \in 1..n : invoices'[k] = invoices[k]
  BY <1>5, <1>6, <1>13, <1>17
<1>19. \A k \in DOMAIN invoices' : Balanced(invoices'[k])
  <2>1. \A k \in 1..n : Balanced(invoices[k]) BY <1>17 DEF BillingInv
  <2> QED BY <2>1, <1>15, <1>18
<1>20. \A a, b : Quantity(InPeriod(a, b))' = Quantity(InPeriod(a, b))
  BY <1>5 DEF Quantity, InPeriod
<1>21. ChargedWasUsed'
  <2> SUFFICES ASSUME NEW k \in 1..(n + 1), NEW a \in Int, NEW b \in Int,
                      invoices'[k].from = a, invoices'[k].to = b
               PROVE  invoices'[k].quantity <= Quantity(InPeriod(a, b))
    BY <1>18, <1>20 DEF ChargedWasUsed
  <2>1. CASE k = n + 1
    <3>1. a = from /\ b = to /\ invoices'[k].quantity = Quantity(charged) BY <2>1, <1>16, <1>18
    <3> QED BY <3>1, <1>10
  <2>2. CASE k # n + 1
    <3>1. k \in DOMAIN invoices /\ invoices'[k] = invoices[k] BY <2>2, <1>17, <1>18
    <3> QED BY <3>1 DEF BillingInv, ChargedWasUsed
  <2> QED BY <2>1, <2>2
<1>22. UsageWithinQuota' BY <1>5 DEF BillingInv, UsageWithinQuota, Quantity
<1> QED BY <1>5, <1>18, <1>19, <1>21, <1>22 DEF BillingInv, LedgerIsPaired

\* An invoice that is issued or paid keeps its period and what it charges.
LEMMA InvoiceMoves ==
    ASSUME BillingInv, NEW n \in DOMAIN invoices, NEW i \in Invoices,
           invoices' = [invoices EXCEPT ![n] = i],
           i.from = invoices[n].from, i.to = invoices[n].to, i.quantity = invoices[n].quantity,
           Balanced(i), UNCHANGED <<plans, entitlement, usage, used, ledger, entitledTo>>
    PROVE  BillingInv'
<1>1. invoices \in Seq(Invoices) BY DEF BillingInv
<1>2. /\ invoices' \in Seq(Invoices) /\ DOMAIN invoices' = DOMAIN invoices /\ invoices'[n] = i
      /\ \A k \in DOMAIN invoices : k # n => invoices'[k] = invoices[k]
  BY <1>1
<1>3. \A k \in DOMAIN invoices' : Balanced(invoices'[k]) BY <1>2 DEF BillingInv
<1>4. \A k \in DOMAIN invoices :
         /\ invoices'[k].from = invoices[k].from /\ invoices'[k].to = invoices[k].to
         /\ invoices'[k].quantity = invoices[k].quantity
  BY <1>2
<1>5. \A a, b : Quantity(InPeriod(a, b))' = Quantity(InPeriod(a, b))
  BY DEF Quantity, InPeriod
<1>6. ChargedWasUsed' BY <1>2, <1>4, <1>5 DEF BillingInv, ChargedWasUsed
<1>7. UsageWithinQuota' BY DEF BillingInv, UsageWithinQuota, Quantity
<1> QED BY <1>2, <1>3, <1>6, <1>7 DEF BillingInv, LedgerIsPaired

\* Issuing an invoice keeps the billing invariant: its two entries balance.
LEMMA issueInvoiceKeeps ==
    ASSUME BillingInv, NEW n \in DOMAIN invoices, issueInvoice(n)
    PROVE  BillingInv'
<1>1. PICK old : old = invoices[n] OBVIOUS
<1>2. old \in Invoices /\ Balanced(old) /\ old.status = "draft" BY <1>1 DEF BillingInv, issueInvoice
<1>3. PICK i : i = [old EXCEPT !.status = "issued"] OBVIOUS
<1>4. /\ i \in Invoices /\ i.from = old.from /\ i.to = old.to /\ i.quantity = old.quantity
      /\ i.status = "issued" /\ i.payments = old.payments /\ i.paid = old.paid /\ i.over = old.over
      /\ i.total = old.total
  BY <1>2, <1>3 DEF Invoices
<1>5. Balanced(i) BY <1>2, <1>4 DEF Balanced, Excess
<1>6. /\ invoices' = [invoices EXCEPT ![n] = i]
      /\ UNCHANGED <<plans, entitlement, usage, used, ledger, entitledTo>>
  BY <1>1, <1>3 DEF issueInvoice
<1> QED BY <1>1, <1>4, <1>5, <1>6, InvoiceMoves

\* The sum of a sequence that one more is added to.
LEMMA SumOfAppended ==
    ASSUME NEW s \in Seq(Nat), NEW e \in Nat
    PROVE  SumOf(Append(s, e)) = SumOf(s) + e
<1>1. PICK n \in Nat : n = Len(s) /\ DOMAIN s = 1..n OBVIOUS
<1>2. PICK t : t = Append(s, e) OBVIOUS
<1>3. DOMAIN t = 1..(n + 1) /\ t[n + 1] = e /\ \A k \in 1..n : t[k] = s[k] /\ s[k] \in Nat
  BY <1>1, <1>2
<1>4. \A k \in 1..(n + 1) : t[k] \in Nat BY <1>3
<1>5. SumFunctionOnSet(t, 1..(n + 1)) = SumFunctionOnSet(t, 1..n) + t[n + 1] BY <1>4, SumToNext
<1>6. SumFunctionOnSet(s, 1..n) = SumFunctionOnSet(t, 1..n) BY <1>3, SumsOfStretch
<1>7. SumOf(t) = SumFunctionOnSet(t, 1..(n + 1)) BY <1>3, Zenon DEF SumOf
<1>8. SumOf(s) = SumFunctionOnSet(s, 1..n) BY <1>1, Zenon DEF SumOf
<1> QED BY <1>2, <1>3, <1>5, <1>6, <1>7, <1>8

\* Recording a payment keeps the billing invariant: its two entries balance.
LEMMA recordPaymentKeeps ==
    ASSUME BillingInv, NEW n \in DOMAIN invoices, NEW amount \in Amounts, recordPayment(n, amount)
    PROVE  BillingInv'
<1>1. PICK old : old = invoices[n] OBVIOUS
<1>2. old \in Invoices /\ Balanced(old) BY <1>1 DEF BillingInv
<1>3. PICK i : i = Paid(old, amount) OBVIOUS
<1>4. amount \in Nat BY BillingAssumption
<1>5. /\ i.from = old.from /\ i.to = old.to /\ i.quantity = old.quantity
      /\ i.payments = Append(old.payments, amount) /\ i.paid = old.paid + amount
      /\ i.total = old.total
      /\ i.over = IF i.paid > i.total THEN i.paid - i.total ELSE 0
      /\ i.status = IF i.paid >= i.total THEN "paid" ELSE "partially_paid"
      /\ DOMAIN i = DOMAIN old
  BY <1>2, <1>3 DEF Paid, Invoices
<1>6. /\ old.payments \in Seq(Amounts) /\ old.paid \in Nat /\ old.total \in Int
  BY <1>2 DEF Invoices
<1>7. i \in Invoices
  <2>1. i.over \in Nat /\ i.paid \in Nat /\ i.payments \in Seq(Amounts) BY <1>4, <1>5, <1>6
  <2>2. i.status \in {"draft", "issued", "partially_paid", "paid"} BY <1>5
  <2>3. i = [old EXCEPT !.payments = i.payments, !.paid = i.paid, !.over = i.over, !.status = i.status]
    BY <1>3, <1>5 DEF Paid
  <2> QED BY <1>2, <2>1, <2>2, <2>3 DEF Invoices
<1>8. Balanced(i)
  <2>0. \A S, T : \A t \in Seq(S) : S \subseteq T => t \in Seq(T) OBVIOUS
  <2>1. old.payments \in Seq(Nat) BY <1>6, <2>0, BillingAssumption
  <2>2. SumOf(i.payments) = SumOf(old.payments) + amount BY <1>4, <1>5, <2>1, SumOfAppended
  <2>3. old.paid = SumOf(old.payments) BY <1>2 DEF Balanced
  <2>4. i.payments # <<>>
    <3>1. PICK p \in Seq(Amounts) : p = old.payments BY <1>6
    <3>2. Append(p, amount) # <<>> OBVIOUS
    <3> QED BY <3>1, <3>2, <1>5
  <2>5. i.paid = SumOf(i.payments) BY <1>5, <2>2, <2>3
  <2>6. i.paid \in Int /\ i.total \in Int BY <1>4, <1>5, <1>6
  <2>7. (i.status = "paid" \/ i.status = "partially_paid") /\ (i.status = "paid" <=> i.paid >= i.total) BY <1>5
  <2>8. i.status = "partially_paid" => i.paid < i.total BY <2>6, <2>7
  <2>9. i.over = Excess(i) BY <1>5 DEF Excess
  <2>10. i.status \notin {"draft", "issued"} BY <2>7
  <2>11. i.status = "paid" => i.paid >= i.total BY <2>7
  <2> QED BY <2>4, <2>5, <2>8, <2>9, <2>10, <2>11, Zenon DEF Balanced
<1>9. /\ invoices' = [invoices EXCEPT ![n] = i]
      /\ UNCHANGED <<plans, entitlement, usage, used, ledger, entitledTo>>
  BY <1>1, <1>3 DEF recordPayment
<1> QED BY <1>1, <1>5, <1>7, <1>8, <1>9, InvoiceMoves

\* Every step of billing keeps its invariant.
LEMMA BillingStepInv == BillingInv /\ [BillingNext]_billingVars => BillingInv'
<1> SUFFICES ASSUME BillingInv, [BillingNext]_billingVars PROVE BillingInv' OBVIOUS
<1>0. ASSUME UNCHANGED <<usage, used, invoices>>, entitledTo \subseteq entitledTo'
      PROVE  /\ usage' \in Seq(UsageEvents) /\ invoices' \in Seq(Invoices)
             /\ UsageWithinQuota' /\ ChargedWasUsed'
             /\ (\A n \in DOMAIN invoices : Balanced(invoices[n]))'
  <2>1. UsageWithinQuota' BY <1>0 DEF BillingInv, UsageWithinQuota, Quantity
  <2>2. \A a, b : Quantity(InPeriod(a, b))' = Quantity(InPeriod(a, b)) BY <1>0 DEF Quantity, InPeriod
  <2>3. ChargedWasUsed' BY <1>0, <2>2 DEF BillingInv, ChargedWasUsed
  <2> QED BY <1>0, <2>1, <2>3 DEF BillingInv
<1>1. ASSUME NEW p \in Plans, definePlan(p) \/ assignEntitlement(p) PROVE BillingInv'
  BY <1>0, <1>1 DEF definePlan, assignEntitlement, BillingInv, LedgerIsPaired
<1>2. ASSUME NEW debit \in Amounts, NEW credit \in Amounts, postLedgerEntry(debit, credit) PROVE BillingInv'
  <2>1. PICK n \in Nat : n = Len(ledger) /\ DOMAIN ledger = 1..n BY DEF BillingInv, LedgerIsPaired
  <2>2. PICK e : e = [sequence |-> n + 1, debit |-> debit, credit |-> credit] OBVIOUS
  <2>3. /\ ledger' = Append(ledger, e) /\ debit = credit
        /\ UNCHANGED <<plans, entitlement, usage, used, invoices, entitledTo>>
    BY <1>2, <2>1, <2>2 DEF postLedgerEntry
  <2>4. /\ e \in [sequence : Nat, debit : Amounts, credit : Amounts]
        /\ e.sequence = n + 1 /\ e.debit = e.credit
    BY <2>2, <2>3
  <2>5. LedgerIsPaired' BY <2>1, <2>3, <2>4 DEF BillingInv, LedgerIsPaired
  <2> QED BY <1>0, <2>3, <2>5 DEF BillingInv
<1>3. ASSUME NEW p \in Periods, draftInvoice(p[1], p[2]) PROVE BillingInv'
  <2>1. p[1] \in Int /\ p[2] \in Int BY BillingAssumption
  <2> QED BY <1>3, <2>1, draftInvoiceKeeps
<1>4. CASE UNCHANGED billingVars
  BY <1>0, <1>4 DEF billingVars, BillingInv, LedgerIsPaired
<1> QED BY <1>1, <1>2, <1>3, <1>4, meterUsageKeeps, issueInvoiceKeeps, recordPaymentKeeps DEF BillingNext

\* The billing invariant says that the books agree.
LEMMA BillingInvTells == BillingInv => BooksAgree
<1> SUFFICES ASSUME BillingInv PROVE BooksAgree OBVIOUS
<1>1. usage \in Seq(UsageEvents) /\ invoices \in Seq(Invoices) BY DEF BillingInv
<1>2. BilledAtMostMetered
  <2> SUFFICES ASSUME NEW m \in DOMAIN invoices, NEW n \in DOMAIN invoices, invoices[m].to < invoices[n].from
               PROVE  invoices[m].quantity + invoices[n].quantity <= used
    BY DEF BilledAtMostMetered
  <2>1. invoices[m] \in Invoices /\ invoices[n] \in Invoices BY <1>1
  <2>2. PICK M : M = InPeriod(invoices[m].from, invoices[m].to) OBVIOUS
  <2>3. PICK N : N = InPeriod(invoices[n].from, invoices[n].to) OBVIOUS
  <2>4. M \in SUBSET DOMAIN usage /\ N \in SUBSET DOMAIN usage /\ M \cup N \in SUBSET DOMAIN usage
    BY <2>2, <2>3 DEF InPeriod
  <2>5. M \cap N = {}
    <3>1. \A i \in DOMAIN usage : usage[i].at \in Int
      <4>1. \A i \in DOMAIN usage : usage[i] \in UsageEvents BY <1>1
      <4> QED BY <4>1, BillingAssumption DEF UsageEvents
    <3>2. PICK a, b \in Int : a = invoices[m].to /\ b = invoices[n].from BY <2>1 DEF Invoices
    <3>3. \A i \in M : usage[i].at <= a BY <2>2, <3>2 DEF InPeriod
    <3>4. \A i \in N : usage[i].at >= b BY <2>3, <3>2 DEF InPeriod
    <3> QED BY <2>4, <3>1, <3>2, <3>3, <3>4
  <2>6. Quantity(M \cup N) = Quantity(M) + Quantity(N)
    <3>1. PICK f : f = [i \in DOMAIN usage |-> usage[i].quantity] OBVIOUS
    <3>2. \A i \in M \cup N : f[i] \in Int
      <4>1. \A i \in DOMAIN usage : usage[i] \in UsageEvents BY <1>1
      <4>0. \A i \in DOMAIN usage : usage[i].quantity \in Int
        <5>1. \A e \in UsageEvents : e.quantity \in Quantities BY DEF UsageEvents
        <5>2. Quantities \subseteq Int BY BillingAssumption
        <5> QED BY <4>1, <5>1, <5>2
      <4>2. \A i \in DOMAIN usage : f[i] \in Int BY <4>0, <3>1
      <4> QED BY <4>2, <2>4
    <3>3. IsFiniteSet(M) /\ IsFiniteSet(N) BY <1>1, <2>4, FS_Interval, FS_Subset
    <3>4. SumFunctionOnSet(f, M \cup N) = SumFunctionOnSet(f, M) + SumFunctionOnSet(f, N)
      BY <3>2, <3>3, <2>5, SumOfBoth
    <3> QED BY <3>1, <3>4 DEF Quantity
  <2>7. Quantity(M) \in Nat /\ Quantity(N) \in Nat BY <1>1, <2>4, PartOfUsage
  <2>8. Quantity(M \cup N) \in Nat /\ Quantity(DOMAIN usage) \in Nat
        /\ Quantity(M \cup N) <= Quantity(DOMAIN usage)
    BY <1>1, <2>4, PartOfUsage
  <2>9. used = Quantity(DOMAIN usage) BY DEF BillingInv, UsageWithinQuota
  <2>10. invoices[m].quantity <= Quantity(M) /\ invoices[n].quantity <= Quantity(N)
    <3>1. PICK a, b \in Int : a = invoices[m].from /\ b = invoices[m].to BY <2>1 DEF Invoices
    <3>2. PICK c, d \in Int : c = invoices[n].from /\ d = invoices[n].to BY <2>1 DEF Invoices
    <3>3. invoices[m].quantity <= Quantity(InPeriod(a, b)) BY <3>1 DEF BillingInv, ChargedWasUsed
    <3>4. invoices[n].quantity <= Quantity(InPeriod(c, d)) BY <3>2 DEF BillingInv, ChargedWasUsed
    <3>5. Quantity(InPeriod(a, b)) = Quantity(M) BY <2>2, <3>1, Zenon
    <3>6. Quantity(InPeriod(c, d)) = Quantity(N) BY <2>3, <3>2, Zenon
    <3> QED BY <3>3, <3>4, <3>5, <3>6
  <2>11. invoices[m].quantity \in Nat /\ invoices[n].quantity \in Nat BY <2>1 DEF Invoices
  <2> QED BY <2>6, <2>7, <2>8, <2>9, <2>10, <2>11
<1>3. InvoicesBalance
  <2> SUFFICES ASSUME NEW n \in DOMAIN invoices
               PROVE  LET i == invoices[n] IN
                      /\ i.paid = SumOf(i.payments)
                      /\ i.over > 0 => i.paid = i.total + i.over
                      /\ i.status \in {"draft", "issued"} <=> i.payments = <<>>
                      /\ i.status = "partially_paid" => i.paid < i.total
                      /\ i.status = "paid" => i.paid >= i.total /\ i.paid - i.over = i.total
    BY DEF InvoicesBalance
  <2>1. PICK i \in Invoices : i = invoices[n] BY <1>1
  <2>2. Balanced(i) BY <2>1 DEF BillingInv
  <2>3. i.paid \in Nat /\ i.total \in Int /\ i.over \in Nat BY DEF Invoices
  <2>4. i.status = "paid" => i.payments # <<>> BY <2>2 DEF Balanced
  <2> QED BY <2>1, <2>2, <2>3, <2>4 DEF Balanced, Excess
<1>4. reconcileLedger
  <2>1. \A i \in DOMAIN ledger : ledger[i].sequence = i /\ ledger[i].debit = ledger[i].credit
    BY DEF BillingInv, LedgerIsPaired
  <2>2. [i \in DOMAIN ledger |-> ledger[i].debit] = [i \in DOMAIN ledger |-> ledger[i].credit] BY <2>1
  <2>3. SumOf([i \in DOMAIN ledger |-> ledger[i].debit]) = SumOf([i \in DOMAIN ledger |-> ledger[i].credit])
    BY <2>2, Zenon
  <2> QED BY <2>1, <2>3 DEF reconcileLedger
<1> QED BY <1>2, <1>3, <1>4 DEF BillingInv, BooksAgree

\* Whatever plans come and go and whatever is metered late or paid twice: usage
\* is within a quota the tenant had, invoices of periods without a common instant
\* charge no more than was metered, payments are accounted for, and the ledger
\* reconciles.
THEOREM BooksStayInAgreement == BillingSpec => []BooksAgree
<1>1. BillingSpec => []BillingInv
  BY BillingStarts, BillingStepInv, PTL DEF BillingSpec
<1> QED BY <1>1, BillingInvTells, PTL

-----------------------------------------------------------------------------
(* The event store of the analytics.                                       *)

\* A count is a sum of ones.
LEMMA CountIsSum ==
    ASSUME NEW S, IsFiniteSet(S), NEW f, \A x \in S : f[x] = 1
    PROVE  Cardinality(S) = SumFunctionOnSet(f, S)
<1> DEFINE Bad == {T \in SUBSET S : Cardinality(T) # SumFunctionOnSet(f, T)}
<1> SUFFICES ASSUME Bad # {} PROVE FALSE OBVIOUS
<1>1. PICK T \in Bad : \A U \in Bad : ~(U \subseteq T /\ U # T)
  <2>1. Bad \subseteq SUBSET S OBVIOUS
  <2> HIDE DEF Bad
  <2> QED BY <2>1, LeastSubset
<1>0. IsFiniteSet(T) BY FS_Subset
<1>2. T # {}
  <2>1. Cardinality(T) # SumFunctionOnSet(f, T) BY <1>1
  <2> QED BY <2>1, SumOfNone, FS_EmptySet
<1>3. T \ {Picked(T)} \notin Bad /\ Picked(T) \in T BY <1>1, <1>2, PickedIsIn
<1>4. SumFunctionOnSet(f, T) = f[Picked(T)] + SumFunctionOnSet(f, T \ {Picked(T)})
  BY <1>0, <1>2, SumUnfolds
<1>5. Cardinality(T \ {Picked(T)}) = Cardinality(T) - 1 /\ Cardinality(T) \in Nat
  BY <1>0, <1>3, FS_RemoveElement, FS_CardinalityType
<1>6. Cardinality(T \ {Picked(T)}) = SumFunctionOnSet(f, T \ {Picked(T)})
  BY <1>3
<1> QED BY <1>3, <1>4, <1>5, <1>6

\* A sum over a set is the sum of the sums over its parts.
PartOf(S, side, p) == {x \in S : side[x] = p}

\* A sum over a set is the sum, over the parts it falls in, of the sums over each.
LEMMA SumByParts ==
    ASSUME NEW S, IsFiniteSet(S), NEW f, \A x \in S : f[x] \in Int,
           NEW P, IsFiniteSet(P), NEW side, \A x \in S : side[x] \in P,
           NEW g, \A p \in P : g[p] = SumFunctionOnSet(f, PartOf(S, side, p))
    PROVE  SumFunctionOnSet(f, S) = SumFunctionOnSet(g, P)
<1> DEFINE In(Q) == {x \in S : side[x] \in Q}
           Bad == {Q \in SUBSET P : SumFunctionOnSet(f, In(Q)) # SumFunctionOnSet(g, Q)}
<1>0. In(P) = S OBVIOUS
<1>a. SumFunctionOnSet(f, In(P)) = SumFunctionOnSet(f, S) BY <1>0, Zenon
<1> SUFFICES ASSUME Bad # {} PROVE FALSE
  <2>1. SumFunctionOnSet(f, In(P)) = SumFunctionOnSet(g, P) OBVIOUS
  <2> HIDE DEF In
  <2> QED BY <2>1, <1>a
<1>1. PICK Q \in Bad : \A U \in Bad : ~(U \subseteq Q /\ U # Q)
  <2>1. Bad \subseteq SUBSET P OBVIOUS
  <2> HIDE DEF Bad
  <2> QED BY <2>1, LeastSubset
<1>2. Q # {}
  <2> SUFFICES ASSUME Q = {} PROVE FALSE OBVIOUS
  <2>1. In(Q) = {} OBVIOUS
  <2>2. SumFunctionOnSet(f, In(Q)) = SumFunctionOnSet(f, {}) BY <2>1, Zenon
  <2>3. SumFunctionOnSet(g, Q) = SumFunctionOnSet(g, {}) BY Zenon
  <2>4. SumFunctionOnSet(f, In(Q)) # SumFunctionOnSet(g, Q) BY <1>1
  <2> HIDE DEF In
  <2> QED BY <2>2, <2>3, <2>4, SumOfNone
<1> DEFINE p == Picked(Q)
           R == Q \ {p}
<1>3. p \in Q /\ p \in P /\ R \in SUBSET P /\ R \notin Bad BY <1>1, <1>2, PickedIsIn
<1>4. SumFunctionOnSet(f, In(R)) = SumFunctionOnSet(g, R)
  <2> HIDE DEF In, R, p
  <2> QED BY <1>3
<1>5. SumFunctionOnSet(g, Q) = g[p] + SumFunctionOnSet(g, R)
  BY <1>2, SumUnfolds, FS_Subset
<1>6. In(Q) = PartOf(S, side, p) \cup In(R) /\ PartOf(S, side, p) \cap In(R) = {}
  BY <1>3 DEF PartOf
<1>7. IsFiniteSet(PartOf(S, side, p)) /\ IsFiniteSet(In(R))
  BY FS_Subset DEF PartOf
<1>b. PartOf(S, side, p) \subseteq S BY DEF PartOf
<1>8. SumFunctionOnSet(f, PartOf(S, side, p) \cup In(R))
        = SumFunctionOnSet(f, PartOf(S, side, p)) + SumFunctionOnSet(f, In(R))
  <2>1. \A x \in PartOf(S, side, p) \cup In(R) : f[x] \in Int BY <1>b
  <2> HIDE DEF In, p
  <2> QED BY <1>6, <1>7, <2>1, SumOfBoth
<1>9. SumFunctionOnSet(f, In(Q)) = SumFunctionOnSet(f, PartOf(S, side, p) \cup In(R))
  BY <1>6, Zenon
<1>10. SumFunctionOnSet(f, In(Q)) # SumFunctionOnSet(g, Q) BY <1>1
<1>11. g[p] = SumFunctionOnSet(f, PartOf(S, side, p)) BY <1>3
<1> HIDE DEF In, p, R
<1> QED BY <1>4, <1>5, <1>8, <1>9, <1>10, <1>11

\* What is counted is the sum of what is counted in its parts.
LEMMA CountByParts ==
    ASSUME NEW S, IsFiniteSet(S), NEW P, IsFiniteSet(P), NEW side, \A x \in S : side[x] \in P,
           NEW g, \A p \in P : g[p] = Cardinality(PartOf(S, side, p))
    PROVE  Cardinality(S) = SumFunctionOnSet(g, P)
<1>1. PICK f : f = [x \in S |-> 1] OBVIOUS
<1>2. \A x \in S : f[x] = 1 /\ f[x] \in Int BY <1>1
<1>3. \A p \in P : PartOf(S, side, p) \subseteq S BY DEF PartOf
<1>4. \A p \in P : g[p] = SumFunctionOnSet(f, PartOf(S, side, p))
  <2> SUFFICES ASSUME NEW p \in P PROVE g[p] = SumFunctionOnSet(f, PartOf(S, side, p)) OBVIOUS
  <2>1. IsFiniteSet(PartOf(S, side, p)) BY <1>3, FS_Subset
  <2> QED BY <1>2, <1>3, <2>1, CountIsSum
<1>5. SumFunctionOnSet(f, S) = SumFunctionOnSet(g, P) BY <1>2, <1>4, SumByParts
<1> QED BY <1>2, <1>5, CountIsSum

\* Floored differences add up to at least the floored difference of the sums.
LEMMA FloorsAddUp ==
    ASSUME NEW P, IsFiniteSet(P), NEW a, NEW b, NEW g,
           \A p \in P : a[p] \in Int /\ b[p] \in Int /\ g[p] = Floor0(a[p] - b[p])
    PROVE  SumFunctionOnSet(g, P) >= Floor0(SumFunctionOnSet(a, P) - SumFunctionOnSet(b, P))
<1> DEFINE Sum(f, Q) == SumFunctionOnSet(f, Q)
           Bad == {Q \in SUBSET P : ~(Sum(g, Q) >= 0 /\ Sum(g, Q) >= Sum(a, Q) - Sum(b, Q))}
<1>0. \A p \in P : g[p] \in Int BY DEF Floor0
<1>a. \A Q \in SUBSET P : IsFiniteSet(Q) /\ Sum(a, Q) \in Int /\ Sum(b, Q) \in Int /\ Sum(g, Q) \in Int
  BY <1>0, FS_Subset, SumIsInt
<1> SUFFICES ASSUME Bad # {} PROVE FALSE
  <2>1. Sum(g, P) >= 0 /\ Sum(g, P) >= Sum(a, P) - Sum(b, P) OBVIOUS
  <2>2. Sum(a, P) \in Int /\ Sum(b, P) \in Int BY <1>a
  <2> QED BY <2>1, <2>2 DEF Floor0
<1>1. PICK Q \in Bad : \A U \in Bad : ~(U \subseteq Q /\ U # Q)
  <2>1. Bad \subseteq SUBSET P OBVIOUS
  <2> HIDE DEF Bad
  <2> QED BY <2>1, LeastSubset
<1>2. Q # {}
  <2>1. SumFunctionOnSet(a, {}) = 0 /\ SumFunctionOnSet(b, {}) = 0 /\ SumFunctionOnSet(g, {}) = 0
    BY SumOfNone
  <2>2. ~(Sum(g, Q) >= 0 /\ Sum(g, Q) >= Sum(a, Q) - Sum(b, Q)) BY <1>1
  <2>3. SUFFICES ASSUME Q = {} PROVE FALSE OBVIOUS
  <2>4. Sum(a, Q) = 0 /\ Sum(b, Q) = 0 /\ Sum(g, Q) = 0 BY <2>1, <2>3, Zenon
  <2> HIDE DEF Sum
  <2> QED BY <2>2, <2>4
<1> DEFINE p == Picked(Q)
           R == Q \ {p}
<1>3. p \in P /\ R \in SUBSET P /\ R \notin Bad BY <1>1, <1>2, PickedIsIn
<1>4. Sum(g, R) >= 0 /\ Sum(g, R) >= Sum(a, R) - Sum(b, R)
  <2> HIDE DEF Sum, R, p
  <2> QED BY <1>3
<1>5. /\ Sum(g, Q) = g[p] + Sum(g, R)
      /\ Sum(a, Q) = a[p] + Sum(a, R)
      /\ Sum(b, Q) = b[p] + Sum(b, R)
  BY <1>a, <1>2, SumUnfolds
<1>6. a[p] \in Int /\ b[p] \in Int /\ g[p] >= 0 /\ g[p] >= a[p] - b[p] /\ g[p] \in Int
  BY <1>0, <1>3 DEF Floor0
<1>7. Sum(a, R) \in Int /\ Sum(b, R) \in Int /\ Sum(g, R) \in Int BY <1>a, <1>3
<1>8. ~(Sum(g, Q) >= 0 /\ Sum(g, Q) >= Sum(a, Q) - Sum(b, Q)) BY <1>1
<1> HIDE DEF Sum, p, R
<1> QED BY <1>4, <1>5, <1>6, <1>7, <1>8

\* No two stored envelopes have a key in common, and every key that was heard is
\* stored.
StoreInv ==
    /\ StoreTypeOK
    /\ envelopes \in Seq(Envelopes)
    /\ \A i, j \in DOMAIN envelopes : DedupeKey(envelopes[i]) = DedupeKey(envelopes[j]) => i = j
    /\ \A e \in heard : Known(e)
    /\ \A r, s \in eventRows : r # s => DedupeKey(r) # DedupeKey(s)

\* The store of measurements starts within its invariant.
LEMMA StoreStarts == StoreInit => StoreInv
BY DEF StoreInit, StoreInv, StoreTypeOK

\* An ingested event keeps the store's invariant, a repeated one too.
LEMMA IngestKeeps ==
    ASSUME StoreInv, NEW e \in Envelopes, ingest(e)
    PROVE  StoreInv'
<1>1. CASE Known(e)
  <2>1. envelopes' = envelopes /\ eventRows' = eventRows /\ heard' = heard \cup {e}
    BY <1>1 DEF ingest
  <2>2. \A f \in heard' : Known(f)' BY <1>1, <2>1 DEF StoreInv, Known
  <2> QED BY <2>1, <2>2 DEF StoreInv, StoreTypeOK
<1>2. CASE ~Known(e)
  <2>1. envelopes' = Append(envelopes, e) /\ eventRows' = eventRows /\ heard' = heard \cup {e}
    BY <1>2 DEF ingest
  <2> DEFINE n == Len(envelopes)
  <2>2. /\ envelopes \in Seq(Envelopes) /\ n \in Nat /\ DOMAIN envelopes = 1..n
        /\ envelopes' \in Seq(Envelopes) /\ DOMAIN envelopes' = 1..(n + 1)
        /\ envelopes'[n + 1] = e /\ \A k \in 1..n : envelopes'[k] = envelopes[k]
    BY <2>1 DEF StoreInv
  <2>3. \A k \in 1..n : DedupeKey(envelopes[k]) # DedupeKey(e)
    BY <1>2, <2>2 DEF Known
  <2>4. \A i, j \in DOMAIN envelopes' : DedupeKey(envelopes'[i]) = DedupeKey(envelopes'[j]) => i = j
    <3> SUFFICES ASSUME NEW i \in 1..(n + 1), NEW j \in 1..(n + 1),
                        DedupeKey(envelopes'[i]) = DedupeKey(envelopes'[j])
                 PROVE  i = j
      BY <2>2
    <3>1. \A k \in 1..(n + 1) : k = n + 1 \/ k \in 1..n BY <2>2
    <3>2. CASE i \in 1..n /\ j \in 1..n BY <3>2, <2>2 DEF StoreInv
    <3>3. CASE i = n + 1 /\ j \in 1..n BY <3>3, <2>2, <2>3
    <3>4. CASE j = n + 1 /\ i \in 1..n BY <3>4, <2>2, <2>3
    <3> QED BY <3>1, <3>2, <3>3, <3>4
  <2>5. \A f \in heard' : Known(f)'
    <3>1. Known(e)' BY <2>2 DEF Known
    <3>2. ASSUME NEW f \in heard PROVE Known(f)'
      <4>1. PICK k \in 1..n : DedupeKey(envelopes[k]) = DedupeKey(f) BY <2>2 DEF StoreInv, Known
      <4>2. k \in 1..(n + 1) /\ envelopes'[k] = envelopes[k] BY <2>2
      <4> QED BY <4>1, <4>2, <2>2 DEF Known
    <3> QED BY <3>1, <3>2, <2>1
  <2>6. StoreTypeOK' BY <2>1 DEF StoreInv, StoreTypeOK
  <2>7. \A r, s \in eventRows' : r # s => DedupeKey(r) # DedupeKey(s) BY <2>1 DEF StoreInv
  <2> QED BY <2>2, <2>4, <2>5, <2>6, <2>7 DEF StoreInv
<1> QED BY <1>1, <1>2

\* A saved batch of events keeps the store's invariant, repeats in it too.
LEMMA SaveKeeps ==
    ASSUME StoreInv, NEW e \in heard, NEW f \in heard, saveAnalyticsEvents(<<e, f>>)
    PROVE  StoreInv'
<1>1. envelopes' = envelopes /\ heard' = heard BY DEF saveAnalyticsEvents
<1> DEFINE batch == <<e, f>>
           Fresh(k) == /\ \A r \in eventRows : DedupeKey(r) # DedupeKey(batch[k])
                       /\ \A i \in 1..(k - 1) : DedupeKey(batch[i]) # DedupeKey(batch[k])
<1>2. eventRows' = eventRows \cup {batch[k] : k \in {i \in DOMAIN batch : Fresh(i)}}
  BY DEF saveAnalyticsEvents
<1>3. DOMAIN batch = {1, 2} /\ batch[1] = e /\ batch[2] = f OBVIOUS
<1>4. Fresh(2) => DedupeKey(e) # DedupeKey(f)
  <2>1. 1 \in 1..(2 - 1) OBVIOUS
  <2> QED BY <2>1, <1>3
<1>5. \A r \in eventRows' : \/ r \in eventRows
                            \/ (Fresh(1) /\ r = e)
                            \/ (Fresh(2) /\ r = f)
  <2>1. ASSUME NEW k \in {i \in DOMAIN batch : Fresh(i)}
        PROVE  (Fresh(1) /\ batch[k] = e) \/ (Fresh(2) /\ batch[k] = f)
    <3>1. k = 1 \/ k = 2 BY <1>3
    <3>2. Fresh(k) OBVIOUS
    <3> HIDE DEF Fresh, batch
    <3> QED BY <1>3, <3>1, <3>2
  <2> HIDE DEF Fresh, batch
  <2> QED BY <1>2, <2>1
<1>6. Fresh(1) => \A r \in eventRows : DedupeKey(r) # DedupeKey(e) BY <1>3
<1>7. Fresh(2) => \A r \in eventRows : DedupeKey(r) # DedupeKey(f) BY <1>3
<1> HIDE DEF Fresh, batch
<1>8. \A r, s \in eventRows' : r # s => DedupeKey(r) # DedupeKey(s)
  BY <1>4, <1>5, <1>6, <1>7 DEF StoreInv
<1>9. StoreTypeOK' BY <1>1, <1>5 DEF StoreInv, StoreTypeOK
<1> QED BY <1>1, <1>8, <1>9 DEF StoreInv, Known

\* Every step of the store keeps its invariant.
LEMMA StoreStepInv == StoreInv /\ [StoreNext]_storeVars => StoreInv'
<1> SUFFICES ASSUME StoreInv, [StoreNext]_storeVars PROVE StoreInv' OBVIOUS
<1>1. CASE UNCHANGED storeVars
  BY <1>1 DEF storeVars, StoreInv, StoreTypeOK, Known
<1>2. ASSUME NEW e \in Envelopes, ingest(e) PROVE StoreInv' BY <1>2, IngestKeeps
<1>3. ASSUME NEW e \in heard, NEW f \in heard, saveAnalyticsEvents(<<e, f>>) PROVE StoreInv'
  BY <1>3, SaveKeeps
<1> QED BY <1>1, <1>2, <1>3 DEF StoreNext

\* A set of places that is of each product is the sum of its products.
Bucketed == DOMAIN envelopes \ Events({"commission_reversed"})
ProductOf == [k \in DOMAIN envelopes |-> envelopes[k].product]
Amounts0 == [k \in DOMAIN envelopes |-> envelopes[k].amount]

\* What has a product and is summed falls in the parts of the products.
LEMMA ByProduct ==
    ASSUME StoreInv, NEW S \in SUBSET DOMAIN envelopes
    PROVE  /\ IsFiniteSet(S) /\ IsFiniteSet(Products)
           /\ \A k \in S : Amounts0[k] \in Int
           /\ \A k \in S : k \in Bucketed => ProductOf[k] \in Products
           /\ \A p \in Products : PartOf(S, ProductOf, p) = S \cap OfProduct(p)
           /\ AmountOf(S) = SumFunctionOnSet(Amounts0, S) /\ AmountOf(S) \in Int
<1>1. envelopes \in Seq(Envelopes) /\ DOMAIN envelopes = 1..Len(envelopes) /\ Len(envelopes) \in Nat
  BY DEF StoreInv
<1>2. IsFiniteSet(DOMAIN envelopes) BY <1>1, FS_Interval
<1>3. IsFiniteSet(S) BY <1>2, FS_Subset
<1>4. IsFiniteSet(Products)
  <2>0. IsFiniteSet(Bucketed) BY <1>2, FS_Subset DEF Bucketed
  <2> DEFINE f == [k \in Bucketed |-> envelopes[k].product]
  <2>1. f \in [Bucketed -> Products] BY DEF Products, Bucketed
  <2>2. \A p \in Products : \E k \in Bucketed : f[k] = p BY DEF Products, Bucketed
  <2>3. f \in Surjection(Bucketed, Products) BY <2>1, <2>2 DEF Surjection
  <2> QED BY <2>0, <2>3, FS_Surjection
<1>5. \A k \in DOMAIN envelopes : envelopes[k] \in Envelopes BY <1>1
<1>6. \A k \in S : Amounts0[k] \in Int /\ (k \in Bucketed => ProductOf[k] \in Products)
  <2> SUFFICES ASSUME NEW k \in S
               PROVE  Amounts0[k] \in Int /\ (k \in Bucketed => ProductOf[k] \in Products)
    OBVIOUS
  <2>1. k \in DOMAIN envelopes /\ envelopes[k] \in Envelopes BY <1>5
  <2>2. envelopes[k].amount \in Int BY <2>1, EnvelopesAssumption DEF EnvelopesAssumption
  <2>3. ProductOf[k] = envelopes[k].product /\ Amounts0[k] = envelopes[k].amount
    BY <2>1 DEF ProductOf, Amounts0
  <2>4. k \in Bucketed => envelopes[k].product \in Products BY DEF Products, Bucketed
  <2> QED BY <2>2, <2>3, <2>4
<1>7. \A p \in Products : PartOf(S, ProductOf, p) = S \cap OfProduct(p)
  BY DEF PartOf, ProductOf, OfProduct
<1>8. AmountOf(S) = SumFunctionOnSet(Amounts0, S) BY DEF AmountOf, Amounts0
<1>9. AmountOf(S) \in Int BY <1>3, <1>6, <1>8, SumIsInt
<1> QED BY <1>3, <1>4, <1>6, <1>7, <1>8, <1>9

\* The counts of the products add up to the count of what has one.
LEMMA CountsByProduct ==
    ASSUME StoreInv, NEW S \in SUBSET DOMAIN envelopes, S \subseteq Bucketed,
           NEW g, \A p \in Products : g[p] = Cardinality(S \cap OfProduct(p))
    PROVE  SumFunctionOnSet(g, Products) = Cardinality(S)
<1>1. \A p \in Products : g[p] = Cardinality(PartOf(S, ProductOf, p))
  <2> SUFFICES ASSUME NEW p \in Products PROVE g[p] = Cardinality(PartOf(S, ProductOf, p)) OBVIOUS
  <2>1. PartOf(S, ProductOf, p) = S \cap OfProduct(p) BY ByProduct
  <2>2. Cardinality(PartOf(S, ProductOf, p)) = Cardinality(S \cap OfProduct(p)) BY <2>1, Zenon
  <2> QED BY <2>2
<1>2. IsFiniteSet(S) /\ IsFiniteSet(Products) /\ \A k \in S : ProductOf[k] \in Products BY ByProduct
<1>3. Cardinality(S) = SumFunctionOnSet(g, Products) BY <1>1, <1>2, CountByParts
<1> QED BY <1>3

\* The amounts of the products add up to the amount of what has one.
LEMMA AmountsByProduct ==
    ASSUME StoreInv, NEW S \in SUBSET DOMAIN envelopes, S \subseteq Bucketed,
           NEW g, \A p \in Products : g[p] = AmountOf(S \cap OfProduct(p))
    PROVE  SumFunctionOnSet(g, Products) = AmountOf(S)
<1>1. \A p \in Products : g[p] = SumFunctionOnSet(Amounts0, PartOf(S, ProductOf, p))
  <2> SUFFICES ASSUME NEW p \in Products
               PROVE  g[p] = SumFunctionOnSet(Amounts0, PartOf(S, ProductOf, p)) OBVIOUS
  <2>1. PartOf(S, ProductOf, p) = S \cap OfProduct(p) BY ByProduct
  <2>2. AmountOf(S \cap OfProduct(p)) = SumFunctionOnSet(Amounts0, S \cap OfProduct(p))
    BY DEF AmountOf, Amounts0
  <2>3. SumFunctionOnSet(Amounts0, PartOf(S, ProductOf, p)) = SumFunctionOnSet(Amounts0, S \cap OfProduct(p))
    BY <2>1, Zenon
  <2> QED BY <2>2, <2>3
<1>2. /\ IsFiniteSet(S) /\ IsFiniteSet(Products)
      /\ \A k \in S : ProductOf[k] \in Products
      /\ \A k \in S : Amounts0[k] \in Int
      /\ AmountOf(S) = SumFunctionOnSet(Amounts0, S)
  BY ByProduct
<1>3. SumFunctionOnSet(Amounts0, S) = SumFunctionOnSet(g, Products) BY <1>1, <1>2, SumByParts
<1> QED BY <1>2, <1>3

\* The store's invariant says that the measurements add up.
LEMMA StoreInvTells == StoreInv => MeasurementHolds
<1> SUFFICES ASSUME StoreInv PROVE MeasurementHolds OBVIOUS
<1>1. \A e \in heard : Cardinality({k \in DOMAIN envelopes : DedupeKey(envelopes[k]) = DedupeKey(e)}) = 1
  <2> SUFFICES ASSUME NEW e \in heard
               PROVE  Cardinality({k \in DOMAIN envelopes : DedupeKey(envelopes[k]) = DedupeKey(e)}) = 1
    OBVIOUS
  <2>1. PICK k \in DOMAIN envelopes : DedupeKey(envelopes[k]) = DedupeKey(e) BY DEF StoreInv, Known
  <2>2. {i \in DOMAIN envelopes : DedupeKey(envelopes[i]) = DedupeKey(e)} = {k}
    BY <2>1 DEF StoreInv
  <2>3. Cardinality({k}) = 1 BY FS_Singleton
  <2> QED BY <2>2, <2>3, Zenon
<1>2. ExternalIdsCountOnce
  <2> SUFFICES ASSUME NEW j \in DOMAIN envelopes, NEW k \in DOMAIN envelopes,
                      envelopes[j].external # NoExternal, envelopes[j].external = envelopes[k].external
               PROVE  j = k
    BY DEF ExternalIdsCountOnce
  <2>1. DedupeKey(envelopes[j]) = DedupeKey(envelopes[k]) BY DEF DedupeKey
  <2> QED BY <2>1 DEF StoreInv
<1> DEFINE by == summarizeByProduct
           Refunds == Events({"refund_reported"})
           Reversals == Events({"commission_reversed"})
           Back == Events({"refund_reported", "commission_reversed"})
<1>3. /\ Clicks \in SUBSET DOMAIN envelopes /\ Gross \in SUBSET DOMAIN envelopes
      /\ Refunds \in SUBSET DOMAIN envelopes /\ Reversals \in SUBSET DOMAIN envelopes
      /\ Back = Refunds \cup Reversals /\ Refunds \cap Reversals = {}
      /\ Clicks \subseteq Bucketed /\ Gross \subseteq Bucketed /\ Refunds \subseteq Bucketed
  BY DEF Clicks, Gross, Events, Bucketed
<1>4. /\ summarize.clicks = Cardinality(Clicks) /\ summarize.conversions = Cardinality(Gross)
      /\ summarize.gross = AmountOf(Gross)
      /\ summarize.net = Floor0(AmountOf(Gross) - AmountOf(Back))
  BY DEF summarize, Bucket
<1>5. \A p \in Products : by[p] = Bucket(Clicks \cap OfProduct(p), Gross \cap OfProduct(p), Refunds \cap OfProduct(p))
  BY DEF summarizeByProduct
<1>6. \A p \in Products :
         /\ by[p].clicks = Cardinality(Clicks \cap OfProduct(p))
         /\ by[p].conversions = Cardinality(Gross \cap OfProduct(p))
         /\ by[p].gross = AmountOf(Gross \cap OfProduct(p))
         /\ by[p].net = Floor0(AmountOf(Gross \cap OfProduct(p)) - AmountOf(Refunds \cap OfProduct(p)))
  <2>1. \A c, g, b : /\ Bucket(c, g, b).clicks = Cardinality(c)
                      /\ Bucket(c, g, b).conversions = Cardinality(g)
                      /\ Bucket(c, g, b).gross = AmountOf(g)
                      /\ Bucket(c, g, b).net = Floor0(AmountOf(g) - AmountOf(b))
    BY DEF Bucket
  <2> HIDE DEF by, Refunds
  <2> SUFFICES ASSUME NEW p \in Products
               PROVE  /\ by[p].clicks = Cardinality(Clicks \cap OfProduct(p))
                      /\ by[p].conversions = Cardinality(Gross \cap OfProduct(p))
                      /\ by[p].gross = AmountOf(Gross \cap OfProduct(p))
                      /\ by[p].net = Floor0(AmountOf(Gross \cap OfProduct(p)) - AmountOf(Refunds \cap OfProduct(p)))
    OBVIOUS
  <2>2. PICK c, g, b : c = Clicks \cap OfProduct(p) /\ g = Gross \cap OfProduct(p) /\ b = Refunds \cap OfProduct(p)
    OBVIOUS
  <2>3. by[p] = Bucket(c, g, b) BY <1>5, <2>2, Zenon
  <2>4. /\ by[p].clicks = Cardinality(c) /\ by[p].conversions = Cardinality(g)
        /\ by[p].gross = AmountOf(g) /\ by[p].net = Floor0(AmountOf(g) - AmountOf(b))
    <3>1. PICK x : x = by[p] OBVIOUS
    <3>2. x = Bucket(c, g, b) BY <2>3, <3>1, Zenon
    <3>3. /\ x.clicks = Cardinality(c) /\ x.conversions = Cardinality(g)
          /\ x.gross = AmountOf(g) /\ x.net = Floor0(AmountOf(g) - AmountOf(b))
      BY <3>2, <2>1
    <3> QED BY <3>1, <3>3
  <2> QED BY <2>2, <2>4, Zenon
<1> HIDE DEF by, Refunds, Reversals, Back
<1> DEFINE gc == [p \in Products |-> by[p].clicks]
           gn == [p \in Products |-> by[p].conversions]
           gg == [p \in Products |-> by[p].gross]
           gt == [p \in Products |-> by[p].net]
           gr == [p \in Products |-> AmountOf(Refunds \cap OfProduct(p))]
<1>g. \A p \in Products : /\ gc[p] = by[p].clicks /\ gn[p] = by[p].conversions
                          /\ gg[p] = by[p].gross /\ gt[p] = by[p].net
                          /\ gr[p] = AmountOf(Refunds \cap OfProduct(p))
  OBVIOUS
<1>h. /\ gc = [p \in Products |-> by[p].clicks]
      /\ gn = [p \in Products |-> by[p].conversions]
      /\ gg = [p \in Products |-> by[p].gross]
      /\ gt = [p \in Products |-> by[p].net]
  OBVIOUS
<1> HIDE DEF gc, gn, gg, gt, gr
<1>7. SumFunctionOnSet(gc, Products) = Cardinality(Clicks)
  <2>1. \A p \in Products : gc[p] = Cardinality(Clicks \cap OfProduct(p)) BY <1>6, <1>g
  <2> QED BY <2>1, <1>3, CountsByProduct
<1>8. SumFunctionOnSet(gn, Products) = Cardinality(Gross)
  <2>1. \A p \in Products : gn[p] = Cardinality(Gross \cap OfProduct(p)) BY <1>6, <1>g
  <2> QED BY <2>1, <1>3, CountsByProduct
<1>9. SumFunctionOnSet(gg, Products) = AmountOf(Gross)
  <2>1. \A p \in Products : gg[p] = AmountOf(Gross \cap OfProduct(p)) BY <1>6, <1>g
  <2> QED BY <2>1, <1>3, AmountsByProduct
<1>10. SumFunctionOnSet(gr, Products) = AmountOf(Refunds)
  <2>1. \A p \in Products : gr[p] = AmountOf(Refunds \cap OfProduct(p)) BY <1>g
  <2> QED BY <2>1, <1>3, AmountsByProduct
<1>11. /\ IsFiniteSet(Products)
       /\ \A p \in Products : gg[p] \in Int /\ gr[p] \in Int /\ gt[p] = Floor0(gg[p] - gr[p])
  <2>1. \A p \in Products : Gross \cap OfProduct(p) \in SUBSET DOMAIN envelopes
                            /\ Refunds \cap OfProduct(p) \in SUBSET DOMAIN envelopes
    BY <1>3
  <2>2. \A S \in SUBSET DOMAIN envelopes : AmountOf(S) \in Int BY ByProduct
  <2>3. IsFiniteSet(Products) BY <1>3, ByProduct
  <2> QED BY <2>1, <2>2, <2>3, <1>6, <1>g
<1>12. SumFunctionOnSet(gt, Products) >= Floor0(AmountOf(Gross) - AmountOf(Refunds))
  <2>1. SumFunctionOnSet(gt, Products)
          >= Floor0(SumFunctionOnSet(gg, Products) - SumFunctionOnSet(gr, Products))
    BY <1>11, FloorsAddUp
  <2> QED BY <2>1, <1>9, <1>10
<1>13. AmountOf(Back) = AmountOf(Refunds) + AmountOf(Reversals)
  <2>1. IsFiniteSet(Refunds) /\ IsFiniteSet(Reversals) BY <1>3, ByProduct
  <2>2. \A k \in Refunds \cup Reversals : Amounts0[k] \in Int BY <1>3, ByProduct
  <2>3. SumFunctionOnSet(Amounts0, Refunds \cup Reversals)
          = SumFunctionOnSet(Amounts0, Refunds) + SumFunctionOnSet(Amounts0, Reversals)
    BY <2>1, <2>2, <1>3, SumOfBoth
  <2>4. Refunds \cup Reversals \in SUBSET DOMAIN envelopes BY <1>3
  <2>5. AmountOf(Back) = AmountOf(Refunds \cup Reversals) BY <1>3, Zenon
  <2> QED BY <2>3, <2>4, <2>5, <1>3, ByProduct
<1>14. AmountOf(Reversals) >= 0 => SumFunctionOnSet(gt, Products) >= summarize.net
  <2>1. \A S \in SUBSET DOMAIN envelopes : AmountOf(S) \in Int BY ByProduct
  <2>2. AmountOf(Gross) \in Int /\ AmountOf(Refunds) \in Int /\ AmountOf(Reversals) \in Int
    BY <1>3, <2>1
  <2>3. SumFunctionOnSet(gt, Products) \in Int
    <3>1. \A p \in Products : gt[p] \in Int BY <1>11 DEF Floor0
    <3> QED BY <3>1, <1>11, SumIsInt
  <2> QED BY <2>2, <2>3, <1>4, <1>12, <1>13 DEF Floor0
<1>15. TotalsCountKeysOnce
  <2>1. \A r, s \in eventRows : r # s => DedupeKey(r) # DedupeKey(s) BY DEF StoreInv
  <2>2. /\ SumFunctionOnSet([p \in Products |-> by[p].clicks], Products) = summarize.clicks
        /\ SumFunctionOnSet([p \in Products |-> by[p].conversions], Products) = summarize.conversions
        /\ SumFunctionOnSet([p \in Products |-> by[p].gross], Products) = summarize.gross
        /\ AmountOf(Reversals) >= 0 =>
              SumFunctionOnSet([p \in Products |-> by[p].net], Products) >= summarize.net
    BY <1>4, <1>7, <1>8, <1>9, <1>14, <1>h
  <2> QED BY <1>1, <2>1, <2>2 DEF TotalsCountKeysOnce, by, Reversals
<1> QED BY <1>2, <1>15 DEF MeasurementHolds

\* The event store alone: whatever repeats or arrives in whatever order, every
\* key counts once, and the products add up to the whole.
THEOREM MeasurementsAddUp == StoreSpec => []MeasurementHolds
<1>1. StoreInv => MeasurementHolds BY StoreInvTells
<1>2. StoreInv /\ [StoreNext]_storeVars => StoreInv' BY StoreStepInv
<1> QED BY <1>1, <1>2, StoreStarts, PTL DEF StoreSpec

-----------------------------------------------------------------------------
(* Attribution, reconciliation and reports.                                *)

\* A total order of a finite set numbers it: every place is taken once.
Orders(R, S) ==
    /\ \A x \in S : <<x, x>> \in R
    /\ \A x, y \in S : <<x, y>> \in R \/ <<y, x>> \in R
    /\ \A x, y \in S : <<x, y>> \in R /\ <<y, x>> \in R => x = y
    /\ \A x, y, z \in S : <<x, y>> \in R /\ <<y, z>> \in R => <<x, z>> \in R

UpTo(R, S, x) == {y \in S : <<y, x>> \in R}

\* In an order of a finite set, exactly r elements have a place up to r.
LEMMA PlacesAreTakenOnce ==
    ASSUME NEW S, IsFiniteSet(S), NEW R, Orders(R, S),
           NEW place, \A x \in S : place[x] = Cardinality(UpTo(R, S, x))
    PROVE  \A r \in 0..Cardinality(S) : Cardinality({x \in S : place[x] <= r}) = r
<1> DEFINE n == Cardinality(S)
           f == [x \in S |-> place[x]]
<1>1. \A x \in S : UpTo(R, S, x) \subseteq S /\ x \in UpTo(R, S, x) BY DEF UpTo, Orders
<1>2. n \in Nat BY FS_CardinalityType
<1>3. \A x \in S : IsFiniteSet(UpTo(R, S, x)) /\ place[x] \in 1..n
  <2> SUFFICES ASSUME NEW x \in S PROVE IsFiniteSet(UpTo(R, S, x)) /\ place[x] \in 1..n OBVIOUS
  <2>1. IsFiniteSet(UpTo(R, S, x)) BY <1>1, FS_Subset
  <2>2. Cardinality(UpTo(R, S, x)) <= n BY <1>1, FS_Subset
  <2>3. Cardinality(UpTo(R, S, x)) \in Nat BY <2>1, FS_CardinalityType
  <2>4. Cardinality(UpTo(R, S, x)) # 0 BY <2>1, <1>1, FS_EmptySet
  <2> QED BY <2>1, <2>2, <2>3, <2>4, <1>2
<1>4. ASSUME NEW x \in S, NEW y \in S, x # y, <<x, y>> \in R PROVE place[x] < place[y]
  <2>1. UpTo(R, S, x) \subseteq UpTo(R, S, y)
    <3> SUFFICES ASSUME NEW z \in UpTo(R, S, x) PROVE z \in UpTo(R, S, y) OBVIOUS
    <3>1. z \in S /\ <<z, x>> \in R BY DEF UpTo
    <3>2. <<z, y>> \in R BY <3>1, <1>4 DEF Orders
    <3> QED BY <3>1, <3>2 DEF UpTo
  <2>2. y \notin UpTo(R, S, x) BY <1>4 DEF UpTo, Orders
  <2>3. UpTo(R, S, x) # UpTo(R, S, y) BY <2>2, <1>1
  <2>4. Cardinality(UpTo(R, S, x)) < Cardinality(UpTo(R, S, y))
    <3>1. /\ Cardinality(UpTo(R, S, x)) <= Cardinality(UpTo(R, S, y))
          /\ Cardinality(UpTo(R, S, x)) = Cardinality(UpTo(R, S, y)) => UpTo(R, S, x) = UpTo(R, S, y)
      BY <2>1, <1>3, FS_Subset
    <3>2. Cardinality(UpTo(R, S, x)) \in Nat /\ Cardinality(UpTo(R, S, y)) \in Nat BY <1>3
    <3> QED BY <2>3, <3>1, <3>2
  <2> QED BY <2>4
<1>5. \A x, y \in S : place[x] = place[y] => x = y
  <2> SUFFICES ASSUME NEW x \in S, NEW y \in S, x # y PROVE place[x] # place[y] OBVIOUS
  <2>1. place[x] \in Nat /\ place[y] \in Nat BY <1>3
  <2>2. CASE <<x, y>> \in R BY <2>1, <2>2, <1>4
  <2>3. CASE <<y, x>> \in R BY <2>1, <2>3, <1>4
  <2> QED BY <2>2, <2>3 DEF Orders
<1>6. f \in Injection(S, 1..n)
  <2>1. f \in [S -> 1..n] BY <1>3
  <2>2. \A x, y \in S : f[x] = f[y] => x = y BY <1>5
  <2> HIDE DEF f
  <2> QED BY <2>1, <2>2 DEF Injection, IsInjective
<1>7. IsFiniteSet(1..n) /\ Cardinality(1..n) = n BY <1>2, FS_Interval
<1>8. f \in Surjection(S, 1..n)
  <2> HIDE DEF f, n
  <2> QED BY <1>6, <1>7, FS_Injection DEF n
<1>9. \A k \in 1..n : \E x \in S : place[x] = k
  <2> SUFFICES ASSUME NEW k \in 1..n PROVE \E x \in S : place[x] = k OBVIOUS
  <2>1. \E x \in S : f[x] = k
    <3> HIDE DEF f
    <3> QED BY <1>8 DEF Surjection
  <2> QED BY <2>1
<1> SUFFICES ASSUME NEW r \in 0..n PROVE Cardinality({x \in S : place[x] <= r}) = r OBVIOUS
<1> DEFINE T == {x \in S : place[x] <= r}
           g == [x \in T |-> place[x]]
<1>10. g \in Injection(T, 1..r)
  <2>1. g \in [T -> 1..r] BY <1>3, <1>2
  <2>2. \A x, y \in T : g[x] = g[y] => x = y BY <1>5
  <2> HIDE DEF g, T
  <2> QED BY <2>1, <2>2 DEF Injection, IsInjective
<1>11. g \in Surjection(T, 1..r)
  <2>1. g \in [T -> 1..r] BY <1>3, <1>2
  <2>2. ASSUME NEW k \in 1..r PROVE \E x \in T : g[x] = k
    <3>1. k \in 1..n /\ k <= r BY <1>2
    <3>2. PICK x \in S : place[x] = k BY <3>1, <1>9
    <3>3. x \in T BY <3>1, <3>2
    <3> QED BY <3>2, <3>3
  <2> HIDE DEF g, T
  <2> QED BY <2>1, <2>2 DEF Surjection
<1>13. r \in Nat /\ IsFiniteSet(1..r) /\ Cardinality(1..r) = r BY <1>2, FS_Interval
<1>14. IsFiniteSet(T) BY FS_Subset
<1>15. Cardinality(T) = Cardinality(1..r)
  <2> HIDE DEF g, T
  <2> QED BY <1>10, <1>11, <1>14, FS_Surjection
<1> QED BY <1>13, <1>15

\* One place is the first.
LEMMA OneIsFirst ==
    ASSUME NEW S, IsFiniteSet(S), S # {}, NEW R, Orders(R, S),
           NEW place, \A x \in S : place[x] = Cardinality(UpTo(R, S, x))
    PROVE  \E x \in S : \A y \in S : place[y] = 1 <=> y = x
<1>1. Cardinality(S) \in Nat /\ Cardinality(S) # 0 BY FS_CardinalityType, FS_EmptySet
<1>2. 1 \in 0..Cardinality(S) BY <1>1
<1> DEFINE T == {x \in S : place[x] <= 1}
<1>3. Cardinality(T) = 1 BY <1>2, PlacesAreTakenOnce
<1>4. PICK x : T = {x}
  <2>1. IsFiniteSet(T) BY FS_Subset
  <2> HIDE DEF T
  <2> QED BY <1>3, <2>1, FS_Singleton
<1>5. \A y \in S : place[y] \in Nat /\ place[y] # 0
  <2> SUFFICES ASSUME NEW y \in S PROVE place[y] \in Nat /\ place[y] # 0 OBVIOUS
  <2>1. UpTo(R, S, y) \subseteq S /\ y \in UpTo(R, S, y) BY DEF UpTo, Orders
  <2>2. IsFiniteSet(UpTo(R, S, y)) BY <2>1, FS_Subset
  <2> QED BY <2>1, <2>2, FS_CardinalityType, FS_EmptySet
<1>6. \A y \in S : place[y] = 1 <=> y \in T BY <1>5
<1> QED BY <1>4, <1>6

\* A sum of zeros is zero.
LEMMA SumOfZeros ==
    ASSUME NEW S, IsFiniteSet(S), NEW f, \A x \in S : f[x] = 0
    PROVE  SumFunctionOnSet(f, S) = 0
<1> DEFINE Bad == {T \in SUBSET S : SumFunctionOnSet(f, T) # 0}
<1> SUFFICES ASSUME Bad # {} PROVE FALSE OBVIOUS
<1>2. PICK T \in Bad : \A U \in Bad : ~(U \subseteq T /\ U # T)
  <2>1. Bad \subseteq SUBSET S OBVIOUS
  <2> HIDE DEF Bad
  <2> QED BY <2>1, LeastSubset
<1>3. T # {} BY SumOfNone
<1>4. T \ {Picked(T)} \notin Bad /\ Picked(T) \in T BY <1>2, <1>3, PickedIsIn
<1>5. SumFunctionOnSet(f, T) = f[Picked(T)] + SumFunctionOnSet(f, T \ {Picked(T)})
  BY <1>3, SumUnfolds, FS_Subset
<1> QED BY <1>4, <1>5

\* A sum with one term.
LEMMA SumOfOne ==
    ASSUME NEW S, IsFiniteSet(S), NEW f, NEW x \in S, NEW v \in Int, f[x] = v,
           \A y \in S : y # x => f[y] = 0
    PROVE  SumFunctionOnSet(f, S) = v
<1>1. \A y \in S : f[y] \in Int OBVIOUS
<1>2. SumFunctionOnSet(f, S) = f[x] + SumFunctionOnSet(f, S \ {x}) BY <1>1, SumWithout
<1>3. SumFunctionOnSet(f, S \ {x}) = 0
  <2>1. PICK T : T = S \ {x} OBVIOUS
  <2>2. IsFiniteSet(T) /\ \A y \in T : f[y] = 0 BY <2>1, FS_Subset
  <2>3. SumFunctionOnSet(f, T) = 0 BY <2>2, SumOfZeros
  <2> QED BY <2>1, <2>3
<1> QED BY <1>2, <1>3

\* A sum of shares, some of them one more.
LEMMA SumOfShares ==
    ASSUME NEW S, IsFiniteSet(S), NEW f, NEW q \in Int, NEW Q \in SUBSET S,
           \A x \in S : f[x] = q + (IF x \in Q THEN 1 ELSE 0)
    PROVE  SumFunctionOnSet(f, S) = Cardinality(S) * q + Cardinality(Q)
<1> DEFINE More(T) == T \cap Q
           Bad == {T \in SUBSET S : SumFunctionOnSet(f, T) # Cardinality(T) * q + Cardinality(More(T))}
<1>a. Cardinality(More(S)) = Cardinality(Q)
  <2>1. More(S) = Q OBVIOUS
  <2> QED BY <2>1, Zenon
<1> SUFFICES ASSUME Bad # {} PROVE FALSE
  <2>1. SumFunctionOnSet(f, S) = Cardinality(S) * q + Cardinality(More(S)) OBVIOUS
  <2> HIDE DEF More
  <2> QED BY <2>1, <1>a
<1>1. PICK T \in Bad : \A U \in Bad : ~(U \subseteq T /\ U # T)
  <2>1. Bad \subseteq SUBSET S OBVIOUS
  <2> HIDE DEF Bad
  <2> QED BY <2>1, LeastSubset
<1>0. IsFiniteSet(T) /\ IsFiniteSet(More(T)) BY FS_Subset
<1>2. T # {}
  <2> SUFFICES ASSUME T = {} PROVE FALSE OBVIOUS
  <2>1. More(T) = {} OBVIOUS
  <2>2. Cardinality(T) = 0 /\ Cardinality(More(T)) = 0 BY <2>1, FS_EmptySet
  <2>3. SumFunctionOnSet(f, T) = 0 BY SumOfNone
  <2>4. SumFunctionOnSet(f, T) # Cardinality(T) * q + Cardinality(More(T)) BY <1>1
  <2> HIDE DEF More
  <2> QED BY <2>2, <2>3, <2>4
<1> DEFINE p == Picked(T)
           U == T \ {p}
<1>3. p \in T /\ p \in S /\ U \in SUBSET S /\ U \notin Bad BY <1>1, <1>2, PickedIsIn
<1>4. SumFunctionOnSet(f, U) = Cardinality(U) * q + Cardinality(More(U))
  <2> HIDE DEF U, More, p
  <2> QED BY <1>3
<1>5. SumFunctionOnSet(f, T) = f[p] + SumFunctionOnSet(f, U) BY <1>0, <1>2, SumUnfolds
<1>6. Cardinality(U) = Cardinality(T) - 1 /\ Cardinality(T) \in Nat
  BY <1>0, <1>3, FS_RemoveElement, FS_CardinalityType
<1>7. Cardinality(More(T)) = Cardinality(More(U)) + (IF p \in Q THEN 1 ELSE 0)
  <2>1. CASE p \in Q
    <3>1. More(T) = More(U) \cup {p} /\ p \notin More(U) BY <1>3, <2>1
    <3>2. IsFiniteSet(More(U)) BY FS_Subset
    <3>3. Cardinality(More(U) \cup {p}) = Cardinality(More(U)) + 1
      <4> HIDE DEF More, U, p
      <4> QED BY <3>1, <3>2, FS_AddElement
    <3>4. Cardinality(More(T)) = Cardinality(More(U) \cup {p}) BY <3>1, Zenon
    <3> QED BY <2>1, <3>3, <3>4
  <2>2. CASE p \notin Q
    <3>1. More(T) = More(U) BY <1>3, <2>2
    <3>2. Cardinality(More(T)) = Cardinality(More(U)) BY <3>1, Zenon
    <3>3. Cardinality(More(U)) \in Nat
      <4>1. IsFiniteSet(More(U)) BY FS_Subset
      <4> QED BY <4>1, FS_CardinalityType
    <3> QED BY <2>2, <3>2, <3>3
  <2> QED BY <2>1, <2>2
<1>8. Cardinality(More(U)) \in Nat
  <2>1. IsFiniteSet(More(U)) BY FS_Subset
  <2> QED BY <2>1, FS_CardinalityType
<1>9. f[p] = q + (IF p \in Q THEN 1 ELSE 0) BY <1>3
<1>10. SumFunctionOnSet(f, T) # Cardinality(T) * q + Cardinality(More(T)) BY <1>1
<1> PICK m \in Nat, k \in Nat, b \in Int, su \in Int :
       /\ m = Cardinality(T) /\ k = Cardinality(More(U)) /\ b = (IF p \in Q THEN 1 ELSE 0)
       /\ su = (m - 1) * q + k
  BY <1>6, <1>8
<1> HIDE DEF U, More, p
<1>11. SumFunctionOnSet(f, U) = (m - 1) * q + k BY <1>4, <1>6
<1>12. SumFunctionOnSet(f, T) = q + b + ((m - 1) * q + k) BY <1>5, <1>9, <1>11
<1>13. q + b + ((m - 1) * q + k) = m * q + (k + b) OBVIOUS
<1> QED BY <1>7, <1>10, <1>12, <1>13

\* What the runtime keeps: an event it took has a type, and a time that was in
\* bounds when it came.
AnalyticsInv ==
    /\ \A e \in EventIds :
          /\ ingested[e].at \in Nat /\ ingested[e].ref \in Nat /\ ingested[e].value \in Nat
          /\ ingested[e].received \in Nat
          /\ ingested[e] = NoEvent \/ ingested[e].type \in EventTypes
    /\ DOMAIN ingested = EventIds
    /\ arrivals \in Seq(EventIds)
    /\ analyticsClock \in Nat
    /\ IsFiniteSet(Stored)
    /\ \A e \in Stored : ingested[e].received - ingested[e].at \in -FutureTolerance..LateWindow

\* Analytics starts within its invariant.
LEMMA AnalyticsStarts == AnalyticsInit => AnalyticsInv
<1> SUFFICES ASSUME AnalyticsInit PROVE AnalyticsInv OBVIOUS
<1>1. Stored = {} BY DEF AnalyticsInit, Stored
<1>2. IsFiniteSet(Stored) BY <1>1, FS_EmptySet
<1> QED BY <1>1, <1>2 DEF AnalyticsInit, AnalyticsInv, NoEvent

\* An ingested event keeps the invariant of analytics.
LEMMA IngestEventKeeps ==
    ASSUME AnalyticsInv, NEW d \in Deliveries, NEW at \in 0..(AnalyticsEnd + 1), ingestEvent(d, at)
    PROVE  AnalyticsInv'
<1>0. /\ d.id \in EventIds /\ d.type \in EventTypes /\ d.ref \in Nat /\ d.value \in Nat /\ at \in Nat
      /\ LateWindow \in Nat /\ FutureTolerance \in Nat /\ analyticsClock \in Nat
  BY DeliveriesAssumption DEF EventIds, AnalyticsInv, DeliveriesAssumption
<1> DEFINE r == [type |-> d.type, at |-> at, ref |-> d.ref, value |-> d.value, received |-> analyticsClock]
<1>1. /\ ingested' = [ingested EXCEPT ![d.id] = r]
      /\ arrivals' = IF d.type = "conversion" THEN Append(arrivals, d.id) ELSE arrivals
      /\ analyticsClock' = analyticsClock
  BY DEF ingestEvent
<1>2. /\ r.type = d.type /\ r.at = at /\ r.ref = d.ref /\ r.value = d.value
      /\ r.received = analyticsClock
  OBVIOUS
<1>3. r # NoEvent
  <2>1. NoEvent.type = "none" BY DEF NoEvent
  <2>2. d.type # "none" BY <1>0 DEF EventTypes
  <2> QED BY <1>2, <2>1, <2>2
<1>4. DOMAIN ingested' = EventIds /\ ingested'[d.id] = r /\ \A e \in EventIds : e # d.id => ingested'[e] = ingested[e]
  <2> HIDE DEF r
  <2> QED BY <1>0, <1>1 DEF AnalyticsInv
<1> HIDE DEF r
<1>5. Stored' = Stored \cup {d.id} BY <1>0, <1>3, <1>4 DEF Stored
<1>6. IsFiniteSet(Stored')
  <2>1. IsFiniteSet(Stored \cup {d.id}) BY FS_AddElement DEF AnalyticsInv
  <2> QED BY <1>5, <2>1, Zenon
<1>7. r.received - r.at \in -FutureTolerance..LateWindow BY <1>0, <1>2 DEF ingestEvent, InTime
<1>8. \A e \in Stored' : ingested'[e].received - ingested'[e].at \in -FutureTolerance..LateWindow
  <2> SUFFICES ASSUME NEW e \in Stored' PROVE ingested'[e].received - ingested'[e].at \in -FutureTolerance..LateWindow
    OBVIOUS
  <2>1. CASE e = d.id BY <2>1, <1>4, <1>7
  <2>2. CASE e # d.id
    <3>1. e \in Stored /\ e \in EventIds BY <2>2, <1>5 DEF Stored
    <3> QED BY <3>1, <2>2, <1>4 DEF AnalyticsInv
  <2> QED BY <2>1, <2>2
<1>9. \A e \in EventIds :
          /\ ingested'[e].at \in Nat /\ ingested'[e].ref \in Nat /\ ingested'[e].value \in Nat
          /\ ingested'[e].received \in Nat
          /\ ingested'[e] = NoEvent \/ ingested'[e].type \in EventTypes
  <2> SUFFICES ASSUME NEW e \in EventIds
               PROVE  /\ ingested'[e].at \in Nat /\ ingested'[e].ref \in Nat /\ ingested'[e].value \in Nat
                      /\ ingested'[e].received \in Nat
                      /\ ingested'[e] = NoEvent \/ ingested'[e].type \in EventTypes
    OBVIOUS
  <2>1. CASE e = d.id BY <2>1, <1>0, <1>2, <1>4
  <2>2. CASE e # d.id BY <2>2, <1>4 DEF AnalyticsInv
  <2> QED BY <2>1, <2>2
<1>10. arrivals' \in Seq(EventIds) BY <1>0, <1>1 DEF AnalyticsInv
<1> QED BY <1>0, <1>1, <1>4, <1>6, <1>8, <1>9, <1>10 DEF AnalyticsInv

\* Every step of analytics keeps its invariant.
LEMMA AnalyticsStepInv == AnalyticsInv /\ [AnalyticsNext]_analyticsVars => AnalyticsInv'
<1> SUFFICES ASSUME AnalyticsInv, [AnalyticsNext]_analyticsVars PROVE AnalyticsInv' OBVIOUS
<1>1. CASE UNCHANGED analyticsVars
  <2>1. Stored' = Stored BY <1>1 DEF analyticsVars, Stored
  <2>2. IsFiniteSet(Stored') BY <2>1, Zenon DEF AnalyticsInv
  <2> QED BY <1>1, <2>1, <2>2 DEF analyticsVars, AnalyticsInv
<1>2. ASSUME NEW d \in Deliveries, NEW at \in 0..(AnalyticsEnd + 1), ingestEvent(d, at)
      PROVE  AnalyticsInv'
  BY <1>2, IngestEventKeeps
<1>3. CASE analyticsTime
  <2>1. ingested' = ingested /\ arrivals' = arrivals /\ analyticsClock' = analyticsClock + 1
    BY <1>3 DEF analyticsTime
  <2>2. Stored' = Stored BY <2>1 DEF Stored
  <2>3. IsFiniteSet(Stored') BY <2>2, Zenon DEF AnalyticsInv
  <2> QED BY <2>1, <2>2, <2>3 DEF AnalyticsInv
<1> QED BY <1>1, <1>2, <1>3 DEF AnalyticsNext

\* There are three of the indices 1..3.
LEMMA ThreePlaces == IsFiniteSet(1..3) /\ Cardinality(1..3) = 3
<1>1. PICK one, three \in Int : one = 1 /\ three = 3 OBVIOUS
<1>2. IsFiniteSet(one..three) /\ Cardinality(one..three) = IF one > three THEN 0 ELSE three - one + 1
  BY FS_Interval
<1>3. Cardinality(one..three) = 3 BY <1>1, <1>2
<1> QED BY <1>1, <1>2, <1>3, Zenon

\* The order of the touchpoints of a whole chain is a total one.
WayOrder(c) == {p \in (1..3) \X (1..3) : Earlier(c, p[1], p[2])}

\* The touches of a whole chain are ordered, and each one's place is its rank.
LEMMA TouchesAreOrdered ==
    ASSUME AnalyticsInv, NEW c \in EventIds, ChainWhole(c), NEW some \in SUBSET Touches(c)
    PROVE  /\ IsFiniteSet(some)
           /\ Orders(WayOrder(c), some)
           /\ \A k \in some : Place(c, k, some) = Cardinality(UpTo(WayOrder(c), some, k))
<1>1. \A k \in Touches(c) : k \in 1..3 /\ Way(c)[k] \in EventIds
  <2> SUFFICES ASSUME NEW k \in Touches(c) PROVE k \in 1..3 /\ Way(c)[k] \in EventIds OBVIOUS
  <2>1. k \in 1..3 /\ Way(c)[k] # 0 BY DEF Touches
  <2>2. k = 1 \/ k = 2 \/ k = 3 BY <2>1
  <2>3. Way(c)[1] = ImpressionOf(c) /\ Way(c)[2] = ClickOf(c) /\ Way(c)[3] = CartOf(c) BY DEF Way
  <2>4. Way(c)[k] \in Stored BY <2>1, <2>2, <2>3 DEF ChainWhole
  <2> QED BY <2>1, <2>4 DEF Stored
<1>2. EventIds \subseteq Nat BY DeliveriesAssumption DEF EventIds, DeliveriesAssumption
<1> DEFINE time(k) == ingested[Way(c)[k]].at
           id(k) == Way(c)[k]
<1>3. \A k \in some : k \in 1..3 /\ id(k) \in Nat /\ time(k) \in Nat
  <2> SUFFICES ASSUME NEW k \in some PROVE k \in 1..3 /\ id(k) \in Nat /\ time(k) \in Nat OBVIOUS
  <2>1. k \in Touches(c) OBVIOUS
  <2>2. k \in 1..3 /\ Way(c)[k] \in EventIds BY <2>1, <1>1
  <2>3. ingested[Way(c)[k]].at \in Nat BY <2>2 DEF AnalyticsInv
  <2> QED BY <2>2, <2>3, <1>2
<1>4. \A j, k : Earlier(c, j, k) <=> \/ time(j) < time(k)
                                    \/ (time(j) = time(k) /\ (id(j) < id(k) \/ (id(j) = id(k) /\ j <= k)))
  BY DEF Earlier
<1> HIDE DEF time, id
<1>5. \A j, k \in some : <<j, k>> \in WayOrder(c) <=> Earlier(c, j, k)
  <2> SUFFICES ASSUME NEW j \in some, NEW k \in some PROVE <<j, k>> \in WayOrder(c) <=> Earlier(c, j, k) OBVIOUS
  <2>1. j \in 1..3 /\ k \in 1..3 BY <1>3
  <2>2. <<j, k>> \in (1..3) \X (1..3) /\ <<j, k>>[1] = j /\ <<j, k>>[2] = k BY <2>1
  <2> QED BY <2>2 DEF WayOrder
<1>6. Orders(WayOrder(c), some)
  <2>1. \A k \in some : Earlier(c, k, k) BY <1>3, <1>4
  <2>2. \A j, k \in some : Earlier(c, j, k) \/ Earlier(c, k, j) BY <1>3, <1>4
  <2>3. \A j, k \in some : Earlier(c, j, k) /\ Earlier(c, k, j) => j = k BY <1>3, <1>4
  <2>4. \A i, j, k \in some : Earlier(c, i, j) /\ Earlier(c, j, k) => Earlier(c, i, k) BY <1>3, <1>4
  <2> QED BY <1>5, <2>1, <2>2, <2>3, <2>4 DEF Orders
<1>7. ASSUME NEW k \in some PROVE Place(c, k, some) = Cardinality(UpTo(WayOrder(c), some, k))
  <2>1. {j \in some : Earlier(c, j, k)} = UpTo(WayOrder(c), some, k) BY <1>5 DEF UpTo
  <2> QED BY <2>1, Zenon DEF Place
<1>8. IsFiniteSet(some)
  <2>1. IsFiniteSet(1..3) BY ThreePlaces
  <2>2. some \subseteq 1..3 BY <1>3
  <2> QED BY <2>1, <2>2, FS_Subset
<1> QED BY <1>6, <1>7, <1>8

\* All to the first of some, one of which there is.
LEMMA FirstTakesAll ==
    ASSUME AnalyticsInv, NEW c \in EventIds, ChainWhole(c), NEW some \in SUBSET Touches(c), some # {},
           NEW total \in Int
    PROVE  SumFunctionOnSet(ToFirst(c, some, total), Touches(c)) = total
<1>1. PICK place : place = [k \in some |-> Place(c, k, some)] OBVIOUS
<1>2. /\ IsFiniteSet(some) /\ IsFiniteSet(Touches(c)) /\ Orders(WayOrder(c), some)
      /\ \A k \in some : place[k] = Cardinality(UpTo(WayOrder(c), some, k))
  BY <1>1, TouchesAreOrdered
<1>3. PICK k \in some : \A j \in some : place[j] = 1 <=> j = k BY <1>2, OneIsFirst
<1>4. PICK f : f = ToFirst(c, some, total) OBVIOUS
<1>5. \A j \in Touches(c) : f[j] = IF j \in some /\ Place(c, j, some) = 1 THEN total ELSE 0
  BY <1>4 DEF ToFirst
<1>6. \A j \in some : Place(c, j, some) = 1 <=> j = k BY <1>1, <1>3
<1>7. k \in Touches(c) /\ f[k] = total /\ \A j \in Touches(c) : j # k => f[j] = 0 BY <1>5, <1>6
<1>8. SumFunctionOnSet(f, Touches(c)) = total BY <1>2, <1>7, SumOfOne
<1> QED BY <1>4, <1>8

\* Shares and the remainder make up the whole.
LEMMA SharesAreWhole ==
    ASSUME AnalyticsInv, NEW c \in EventIds, ChainWhole(c), Touches(c) # {}, NEW total \in Nat
    PROVE  SumFunctionOnSet(Linear(c, Touches(c), total), Touches(c)) = total
<1> DEFINE S == Touches(c)
           n == Cardinality(S)
           q == total \div n
           r == total % n
           Q == {k \in S : Place(c, k, S) <= r}
<1>1. PICK place : place = [k \in S |-> Place(c, k, S)] OBVIOUS
<1>2. /\ IsFiniteSet(S) /\ Orders(WayOrder(c), S)
      /\ \A k \in S : place[k] = Cardinality(UpTo(WayOrder(c), S, k))
  BY <1>1, TouchesAreOrdered
<1>3. n \in 1..3
  <2>1. IsFiniteSet(1..3) /\ Cardinality(1..3) = 3 BY ThreePlaces
  <2>2. S \subseteq 1..3 BY DEF Touches
  <2>3. n <= 3 BY <2>1, <2>2, FS_Subset
  <2>4. n \in Nat /\ n # 0 BY <1>2, FS_CardinalityType, FS_EmptySet
  <2> HIDE DEF n
  <2> QED BY <2>3, <2>4
<1>4. q \in Nat /\ r \in 0..n /\ n * q + r = total
  <2> SUFFICES ASSUME NEW m \in 1..3
               PROVE  total \div m \in Nat /\ total % m \in 0..m /\ (m * (total \div m)) + (total % m) = total
    BY <1>3
  <2>1. CASE m = 1 BY <2>1
  <2>2. CASE m = 2 BY <2>2
  <2>3. CASE m = 3 BY <2>3
  <2> QED BY <2>1, <2>2, <2>3
<1>5. Cardinality(Q) = r
  <2>1. Cardinality({k \in S : place[k] <= r}) = r
    <3> HIDE DEF S, r, q, Q
    <3> QED BY <1>2, <1>4, PlacesAreTakenOnce DEF n
  <2>2. {k \in S : place[k] <= r} = Q
    <3>1. \A k \in S : place[k] = Place(c, k, S) BY <1>1
    <3> HIDE DEF S, r, q, n
    <3> QED BY <3>1 DEF Q
  <2> QED BY <2>1, <2>2, Zenon
<1>6. PICK f : f = Linear(c, S, total) OBVIOUS
<1>7. \A k \in S : f[k] = q + (IF k \in Q THEN 1 ELSE 0)
  <2>1. \A k \in S : f[k] = q + (IF Place(c, k, S) <= r THEN 1 ELSE 0) BY <1>6 DEF Linear
  <2>2. \A k \in S : k \in Q <=> Place(c, k, S) <= r OBVIOUS
  <2> HIDE DEF S, Q, q, r, n
  <2> QED BY <2>1, <2>2
<1>8. SumFunctionOnSet(f, S) = n * q + Cardinality(Q)
  <2>1. Q \in SUBSET S /\ q \in Int BY <1>4
  <2> HIDE DEF S, Q, q, r
  <2> QED BY <1>2, <1>7, <2>1, SumOfShares DEF n
<1> HIDE DEF S, Q, q, r, n
<1>9. SumFunctionOnSet(f, S) = total BY <1>4, <1>5, <1>8
<1> QED BY <1>6, <1>9 DEF S

\* The credits of a conversion add up to its value under every model.
LEMMA CreditsAddUp ==
    ASSUME AnalyticsInv, NEW c \in EventIds, ChainWhole(c), ~Misattributed(c),
           NEW model \in {"last_touch", "first_touch", "linear"}
    PROVE  SumFunctionOnSet(Credits(c, model), Touches(c)) = ingested[c].value
<1> DEFINE total == ingested[c].value
           clicks == {k \in Touches(c) : ingested[Way(c)[k]].type = "click"}
<1>1. total \in Nat /\ total \in Int BY DEF AnalyticsInv
<1>2. 2 \in clicks /\ 2 \in Touches(c)
  <2>1. Way(c)[2] = ClickOf(c) BY DEF Way
  <2>2. ClickOf(c) # 0
    <3>1. ClickOf(c) \in EventIds BY DEF ChainWhole, Stored
    <3>2. 0 \notin EventIds BY DeliveriesAssumption DEF EventIds, DeliveriesAssumption
    <3> QED BY <3>1, <3>2
  <2>3. ingested[ClickOf(c)].type = "click" BY DEF Misattributed
  <2> QED BY <2>1, <2>2, <2>3 DEF Touches
<1>3. CASE model = "last_touch"
  <2>1. Credits(c, model) = ToFirst(c, clicks, total) BY <1>3 DEF Credits
  <2>2. clicks \in SUBSET Touches(c) /\ clicks # {} BY <1>2
  <2> HIDE DEF clicks
  <2>3. SumFunctionOnSet(ToFirst(c, clicks, total), Touches(c)) = total BY <1>1, <2>2, FirstTakesAll
  <2> QED BY <2>1, <2>3
<1>4. CASE model = "first_touch"
  <2>1. Credits(c, model) = ToFirst(c, Touches(c), total) BY <1>4 DEF Credits
  <2>2. Touches(c) \in SUBSET Touches(c) /\ Touches(c) # {} BY <1>2
  <2>3. SumFunctionOnSet(ToFirst(c, Touches(c), total), Touches(c)) = total BY <1>1, <2>2, FirstTakesAll
  <2> QED BY <2>1, <2>3
<1>5. CASE model = "linear"
  <2>1. Credits(c, model) = Linear(c, Touches(c), total) BY <1>5 DEF Credits
  <2>2. SumFunctionOnSet(Linear(c, Touches(c), total), Touches(c)) = total BY <1>1, <1>2, SharesAreWhole
  <2> QED BY <2>1, <2>2
<1> QED BY <1>3, <1>4, <1>5

\* Naturals sum up to nothing only if each is nothing.
LEMMA SumIsNothing ==
    ASSUME NEW S, IsFiniteSet(S), NEW f, \A x \in S : f[x] \in Nat
    PROVE  SumFunctionOnSet(f, S) = 0 <=> \A x \in S : f[x] = 0
<1>1. ASSUME NEW x \in S, f[x] # 0 PROVE SumFunctionOnSet(f, S) # 0
  <2>1. SumFunctionOnSet(f, S) = f[x] + SumFunctionOnSet(f, S \ {x}) BY SumWithout
  <2>2. SumFunctionOnSet(f, S \ {x}) \in Nat
    <3>1. PICK T : T = S \ {x} OBVIOUS
    <3>2. IsFiniteSet(T) /\ \A y \in T : f[y] \in Nat BY <3>1, FS_Subset
    <3>3. SumFunctionOnSet(f, T) \in Nat BY <3>2, SumOfNats
    <3> QED BY <3>1, <3>3
  <2>3. f[x] \in Nat OBVIOUS
  <2> QED BY <1>1, <2>1, <2>2, <2>3
<1> QED BY <1>1, SumOfZeros

EventValues == [e \in EventIds |-> ingested[e].value]
EventTimes == [e \in EventIds |-> ingested[e].at]

\* Of a set of stored events the count and the value are naturals.
LEMMA SetsOfEvents ==
    ASSUME AnalyticsInv, NEW S \in SUBSET Stored
    PROVE  /\ IsFiniteSet(S) /\ Cardinality(S) \in Nat
           /\ \A e \in S : EventValues[e] = ingested[e].value /\ EventTimes[e] = ingested[e].at
           /\ \A e \in S : EventValues[e] \in Nat /\ EventTimes[e] \in Nat
           /\ ValueOf(S) = SumFunctionOnSet(EventValues, S) /\ ValueOf(S) \in Nat
<1>1. IsFiniteSet(S) BY FS_Subset DEF AnalyticsInv
<1>2. Cardinality(S) \in Nat BY <1>1, FS_CardinalityType
<1>3. \A e \in S : e \in EventIds BY DEF Stored
<1>4. \A e \in S : EventValues[e] = ingested[e].value /\ EventTimes[e] = ingested[e].at BY <1>3 DEF EventValues, EventTimes
<1>5. \A e \in S : EventValues[e] \in Nat /\ EventTimes[e] \in Nat BY <1>3, <1>4 DEF AnalyticsInv
<1>6. ValueOf(S) = SumFunctionOnSet(EventValues, S) BY DEF ValueOf, EventValues
<1>7. ValueOf(S) \in Nat BY <1>1, <1>5, <1>6, SumOfNats
<1> QED BY <1>1, <1>2, <1>4, <1>5, <1>6, <1>7

\* What is attributed is at most what is recorded, and all of it when every chain is whole.
LEMMA ReconciliationAddsUp ==
    ASSUME AnalyticsInv, NEW from, NEW to
    PROVE  LET r == reconcileCommissions(from, to) IN
           /\ r.attributed <= r.recorded
           /\ r.attributed = r.recorded <=>
                 \A c \in OfType(InWindow(from, to), "conversion") : ChainWhole(c) \/ ingested[c].value = 0
<1> DEFINE C == OfType(InWindow(from, to), "conversion")
           W == {c \in C : ChainWhole(c)}
           G == C \ W
           r == reconcileCommissions(from, to)
<1>1. r.recorded = ValueOf(C) /\ r.attributed = ValueOf(W) BY DEF reconcileCommissions
<1>2. C \in SUBSET Stored /\ W \in SUBSET Stored /\ G \in SUBSET Stored BY DEF OfType, InWindow
<1>3. W \cup G = C /\ W \cap G = {} OBVIOUS
<1>4. \A c \in C : c \in G <=> ~ChainWhole(c) OBVIOUS
<1>5. G \subseteq C OBVIOUS
<1> HIDE DEF C, W, G, r
<1>a. ValueOf(C) = SumFunctionOnSet(EventValues, C) BY <1>2, SetsOfEvents
<1>b. /\ IsFiniteSet(W) /\ \A e \in W : EventValues[e] \in Nat
      /\ ValueOf(W) = SumFunctionOnSet(EventValues, W) /\ ValueOf(W) \in Nat
  BY <1>2, SetsOfEvents
<1>c. /\ IsFiniteSet(G) /\ \A e \in G : EventValues[e] \in Nat /\ EventValues[e] = ingested[e].value
      /\ ValueOf(G) = SumFunctionOnSet(EventValues, G) /\ ValueOf(G) \in Nat
  BY <1>2, SetsOfEvents
<1>6. \A e \in W \cup G : EventValues[e] \in Int BY <1>b, <1>c
<1>7. SumFunctionOnSet(EventValues, W \cup G) = SumFunctionOnSet(EventValues, W) + SumFunctionOnSet(EventValues, G)
  BY <1>3, <1>6, <1>b, <1>c, SumOfBoth
<1>8. SumFunctionOnSet(EventValues, W \cup G) = SumFunctionOnSet(EventValues, C) BY <1>3, Zenon
<1>9. ValueOf(C) = ValueOf(W) + ValueOf(G) BY <1>a, <1>b, <1>c, <1>7, <1>8
<1>10. ValueOf(G) = 0 <=> \A c \in G : ingested[c].value = 0 BY <1>c, SumIsNothing
<1>11. (\A c \in G : ingested[c].value = 0) <=> \A c \in C : ChainWhole(c) \/ ingested[c].value = 0
  BY <1>4, <1>5
<1>12. r.attributed <= r.recorded BY <1>1, <1>b, <1>c, <1>9
<1>13. r.attributed = r.recorded <=> ValueOf(G) = 0 BY <1>1, <1>b, <1>c, <1>9
<1>14. r.attributed = r.recorded <=> \A c \in C : ChainWhole(c) \/ ingested[c].value = 0
  BY <1>10, <1>11, <1>13
<1> QED BY <1>12, <1>14 DEF r, C

\* The days of a cohort funnel add up to the funnel of the whole window.
LEMMA CohortsAddUp ==
    ASSUME AnalyticsInv, NEW from \in Nat, NEW to \in Nat, NEW type \in EventTypes
    PROVE  LET cohorts == cohortFunnel(from, to) IN
           SumFunctionOnSet([day \in DOMAIN cohorts |-> cohorts[day][type]], DOMAIN cohorts)
             = funnel(from, to)[type]
<1> DEFINE cohorts == cohortFunnel(from, to)
           P == {ingested[e].at : e \in InWindow(from, to)}
           S == OfType(InWindow(from, to), type)
<1>1. DOMAIN cohorts = P /\ \A day \in P : cohorts[day][type] = Cardinality(OfType(InWindow(day, day), type))
  BY DEF cohortFunnel, funnel
<1>2. funnel(from, to)[type] = Cardinality(S) BY DEF funnel
<1>3. S \in SUBSET Stored /\ InWindow(from, to) \in SUBSET Stored /\ S \subseteq InWindow(from, to)
  BY DEF OfType, InWindow
<1>4. IsFiniteSet(S) /\ IsFiniteSet(InWindow(from, to)) BY <1>3, SetsOfEvents
<1>5. \A e \in InWindow(from, to) : EventTimes[e] = ingested[e].at /\ EventTimes[e] \in Nat
  BY <1>3, SetsOfEvents
<1>6. IsFiniteSet(P)
  <2> DEFINE V == InWindow(from, to)
             f == [e \in V |-> ingested[e].at]
  <2>1. f \in [V -> P] OBVIOUS
  <2>2. \A p \in P : \E e \in V : f[e] = p OBVIOUS
  <2> HIDE DEF V, f, P
  <2>3. f \in Surjection(V, P) BY <2>1, <2>2 DEF Surjection
  <2> QED BY <2>3, <1>4, FS_Surjection DEF V
<1>7. \A e \in S : EventTimes[e] \in P BY <1>3, <1>5
<1>8. ASSUME NEW p \in P PROVE cohorts[p][type] = Cardinality(PartOf(S, EventTimes, p))
  <2>1. PICK d \in InWindow(from, to) : p = ingested[d].at OBVIOUS
  <2>2. p \in Nat /\ p >= from /\ p <= to BY <2>1, <1>5 DEF InWindow
  <2>3. ASSUME NEW e \in Stored
        PROVE  e \in OfType(InWindow(p, p), type) <=> e \in PartOf(S, EventTimes, p)
    <3>1. EventTimes[e] = ingested[e].at /\ EventTimes[e] \in Nat
      <4>1. {e} \in SUBSET Stored OBVIOUS
      <4> QED BY <4>1, SetsOfEvents
    <3>2. e \in InWindow(p, p) <=> ingested[e].at = p BY <3>1, <2>2 DEF InWindow
    <3>3. e \in InWindow(from, to) <=> ingested[e].at >= from /\ ingested[e].at <= to BY DEF InWindow
    <3> QED BY <3>1, <3>2, <3>3, <2>2 DEF OfType, PartOf
  <2>4. \A e : e \in OfType(InWindow(p, p), type) => e \in Stored BY DEF OfType, InWindow
  <2>5. \A e : e \in PartOf(S, EventTimes, p) => e \in Stored BY <1>3 DEF PartOf
  <2>6. \A e : e \in OfType(InWindow(p, p), type) <=> e \in PartOf(S, EventTimes, p)
    <3> HIDE DEF S, P
    <3> QED BY <2>3, <2>4, <2>5
  <2>7. Cardinality(OfType(InWindow(p, p), type)) = Cardinality(PartOf(S, EventTimes, p))
    BY <2>6, CountsAgree
  <2> QED BY <1>1, <2>7
<1>9. PICK g : g = [day \in P |-> cohorts[day][type]] OBVIOUS
<1>10. \A p \in P : g[p] = Cardinality(PartOf(S, EventTimes, p)) BY <1>8, <1>9
<1>11. Cardinality(S) = SumFunctionOnSet(g, P)
  <2> HIDE DEF S, P
  <2> QED BY <1>4, <1>6, <1>7, <1>10, CountByParts
<1>12. SumFunctionOnSet([day \in DOMAIN cohorts |-> cohorts[day][type]], DOMAIN cohorts)
         = SumFunctionOnSet(g, P)
  <2> HIDE DEF cohorts, P
  <2> QED BY <1>1, <1>9
<1> QED BY <1>2, <1>11, <1>12

\* What the campaign's row counts is at most what the window's figures count.
LEMMA CampaignIsPart ==
    ASSUME AnalyticsInv, NEW from, NEW to
    PROVE  /\ performanceByDimension(from, to).clicks <= funnel(from, to)["click"]
           /\ performanceByDimension(from, to).orders <= funnel(from, to)["order"]
           /\ performanceByDimension(from, to).commission <= reconcileCommissions(from, to).recorded
<1> DEFINE V == InWindow(from, to)
           B == V \cap Campaigned
<1>1. \A type : /\ OfType(B, type) \in SUBSET OfType(V, type)
                /\ OfType(V, type) \in SUBSET Stored
  BY DEF OfType, InWindow
<1>2. /\ performanceByDimension(from, to).clicks = Cardinality(OfType(B, "click"))
      /\ performanceByDimension(from, to).orders = Cardinality(OfType(B, "order"))
      /\ performanceByDimension(from, to).commission = ValueOf(OfType(B, "conversion"))
  BY DEF performanceByDimension
<1>3. /\ funnel(from, to)["click"] = Cardinality(OfType(V, "click"))
      /\ funnel(from, to)["order"] = Cardinality(OfType(V, "order"))
      /\ reconcileCommissions(from, to).recorded = ValueOf(OfType(V, "conversion"))
  BY DEF funnel, reconcileCommissions, EventTypes
<1> HIDE DEF B, V
<1>4. ASSUME NEW type
      PROVE  /\ Cardinality(OfType(B, type)) <= Cardinality(OfType(V, type))
             /\ ValueOf(OfType(B, type)) <= ValueOf(OfType(V, type))
  <2>1. PICK S, T : S = OfType(V, type) /\ T = OfType(B, type) OBVIOUS
  <2>2. T \in SUBSET S /\ S \in SUBSET Stored /\ T \in SUBSET Stored BY <1>1, <2>1
  <2>3. /\ IsFiniteSet(S) /\ \A e \in S : EventValues[e] \in Nat
        /\ ValueOf(S) = SumFunctionOnSet(EventValues, S)
    BY <2>2, SetsOfEvents
  <2>4. ValueOf(T) = SumFunctionOnSet(EventValues, T) BY <2>2, SetsOfEvents
  <2>5. SumFunctionOnSet(EventValues, T) <= SumFunctionOnSet(EventValues, S) BY <2>2, <2>3, SumOfPart
  <2>6. Cardinality(T) <= Cardinality(S) BY <2>2, <2>3, FS_Subset
  <2> QED BY <2>1, <2>3, <2>4, <2>5, <2>6
<1> QED BY <1>2, <1>3, <1>4

\* The alarm on clicks rings exactly when there are more clicks than its bound.
LEMMA AlarmsCount ==
    ASSUME NEW from, NEW to
    PROVE  "click_count" \in evaluateAnomalies(from, to, 0) <=> funnel(from, to)["click"] > 0
BY DEF evaluateAnomalies

\* What a conversion resolves to is an event.
LEMMA ResolvedIsEvent ==
    ASSUME AnalyticsInv, NEW e \in Stored, NEW c \in ResolveConversion(e)
    PROVE  c \in EventIds
<1>1. e \in EventIds BY DEF Stored
<1>2. \A k \in DOMAIN arrivals : arrivals[k] \in EventIds BY DEF AnalyticsInv
<1> QED BY <1>1, <1>2 DEF ResolveConversion

\* The invariant of analytics says that its figures add up.
LEMMA AnalyticsInvTells == AnalyticsInv => AnalyticsAddsUp
<1> SUFFICES ASSUME AnalyticsInv PROVE AnalyticsAddsUp OBVIOUS
<1>1. CommissionIsAttributed
  <2>1. ASSUME NEW e \in Stored, NEW c \in ResolveConversion(e), ChainWhole(c), ~Misattributed(c),
               NEW model \in {"last_touch", "first_touch", "linear"}
        PROVE  SumFunctionOnSet(Credits(c, model), Touches(c)) = ingested[c].value
    BY <2>1, ResolvedIsEvent, CreditsAddUp
  <2>2. \A from, to \in 0..(AnalyticsEnd + 1) :
           LET r == reconcileCommissions(from, to) IN
           /\ r.attributed <= r.recorded
           /\ r.attributed = r.recorded <=>
                 \A c \in OfType(InWindow(from, to), "conversion") : ChainWhole(c) \/ ingested[c].value = 0
    BY ReconciliationAddsUp
  <2> QED BY <2>1, <2>2 DEF CommissionIsAttributed
<1>2. ASSUME NEW from \in 0..(AnalyticsEnd + 1), NEW to \in 0..(AnalyticsEnd + 1)
      PROVE  LET f == funnel(from, to)
                 cohorts == cohortFunnel(from, to)
                 campaign == performanceByDimension(from, to)
             IN /\ \A type \in EventTypes :
                      SumFunctionOnSet([day \in DOMAIN cohorts |-> cohorts[day][type]], DOMAIN cohorts) = f[type]
                /\ campaign.clicks <= f["click"] /\ campaign.orders <= f["order"]
                /\ campaign.commission <= reconcileCommissions(from, to).recorded
                /\ "click_count" \in evaluateAnomalies(from, to, 0) <=> f["click"] > 0
                /\ \A e \in InWindow(from, to) :
                      ingested[e].received - ingested[e].at \in -FutureTolerance..LateWindow
  <2>1. from \in Nat /\ to \in Nat OBVIOUS
  <2>2. \A type \in EventTypes : LET cohorts == cohortFunnel(from, to) IN
           SumFunctionOnSet([day \in DOMAIN cohorts |-> cohorts[day][type]], DOMAIN cohorts)
             = funnel(from, to)[type]
    BY <2>1, CohortsAddUp
  <2>3. \A e \in InWindow(from, to) :
           ingested[e].received - ingested[e].at \in -FutureTolerance..LateWindow
    BY DEF AnalyticsInv, InWindow
  <2> QED BY <2>2, <2>3, CampaignIsPart, AlarmsCount
<1>3. ReportsAgree BY <1>2 DEF ReportsAgree
<1> QED BY <1>1, <1>3 DEF AnalyticsAddsUp

\* The analytics runtime in any execution of its own: every commission with a
\* whole chain is given out to the minor unit, whatever the order of arrival,
\* and the reports of a window agree.
THEOREM AttributionStaysWhole == AnalyticsSpec => []AnalyticsAddsUp
<1>1. AnalyticsSpec => []AnalyticsInv
  BY AnalyticsStarts, AnalyticsStepInv, PTL DEF AnalyticsSpec
<1> QED BY <1>1, AnalyticsInvTells, PTL

-----------------------------------------------------------------------------
(* Spans and metrics.                                                      *)

\* The greatest of a set, when one is known to be.
LEMMA GreatestIsMax ==
    ASSUME NEW S, \A x \in S : x \in Int, NEW m \in S, \A x \in S : x <= m
    PROVE  Max(S) = m
<1>1. \E x \in S : \A y \in S : x >= y OBVIOUS
<1>2. Max(S) \in S /\ \A y \in S : Max(S) >= y BY <1>1 DEF Max
<1>3. Max(S) >= m /\ Max(S) <= m /\ Max(S) \in Int /\ m \in Int BY <1>2
<1> QED BY <1>3

Rows == [type : {"none", "counter", "gauge", "histogram"}, count : Int, value : Int]
SpanRows == [trace : GivenTraces \cup Nat, parent : Nat, ended : BOOLEAN]
SpanCalls == [series : Series, kind : {"counter", "gauge"}, sample : Int, accepted : BOOLEAN]

TelemetryTyped ==
    /\ spans \in Seq(SpanRows)
    /\ currentSpan \in 0..Len(spans)
    /\ checkedRows \in [Series -> Rows]
    /\ legacyRows \in [Series -> Rows]
    /\ metricCalls \in Seq(SpanCalls)
    /\ strayed \in BOOLEAN

\* Spans that end innermost first are a stack: the parent of one that is open is
\* the next below it.
SpansStack ==
    /\ \A n \in 1..Len(spans) : spans[n].parent < n
    /\ ~strayed =>
         /\ currentSpan \in Open \cup {0}
         /\ \A n \in Open : /\ n <= currentSpan
                            /\ spans[n].parent \in Open \cup {0}
                            /\ \A m \in Open : m < n => m <= spans[n].parent

\* Every span that ended is counted, until their series is taken for another type.
SpansCounted ==
    /\ checkedRows[SpanSeries].type = "histogram" =>
          checkedRows[SpanSeries].count = Cardinality(DOMAIN spans \ Open)
    /\ checkedRows[SpanSeries].type = "none" =>
          checkedRows[SpanSeries].count = 0 /\ DOMAIN spans \ Open = {}

Unset(s) == \E k \in Callings(s, "gauge") : metricCalls[k].sample = NotFinite

\* The two rows of a series: what made the one made the other, but for a value
\* that is not finite.
RowsTell(s) ==
    /\ checkedRows[s].type # "histogram"
    /\ checkedRows[s].type = "none" =>
          /\ checkedRows[s].count = 0 /\ Callings(s, "counter") = {}
          /\ legacyRows[s].type \in {"none", "gauge"}
          /\ legacyRows[s].type = "gauge" => Unset(s)
    /\ checkedRows[s].type = "counter" =>
          /\ checkedRows[s].count = Cardinality(Callings(s, "counter"))
          /\ legacyRows[s].type = "counter" \/ Unset(s)
    /\ checkedRows[s].type = "gauge" =>
          /\ legacyRows[s].type = "gauge"
          /\ Callings(s, "gauge") # {}
          /\ legacyRows[s].value = checkedRows[s].value
               \/ ~metricCalls[Max(Callings(s, "gauge"))].accepted
    /\ legacyRows[s].count = Added(s)

\* Spans are a stack and are counted, and the rows of a series tell of its calls.
TelemetryInv ==
    /\ TelemetryTyped
    /\ SpansStack
    /\ SpansCounted
    /\ \A s \in Series \ {SpanSeries} : RowsTell(s)

\* Before any call nothing has been added or counted.
LEMMA NoSum == ASSUME NEW s, metricCalls = <<>> PROVE Added(s) = 0 /\ Callings(s, "counter") = {}
<1>1. Callings(s, "counter") = {} BY DEF Callings
<1>2. PICK f : f = [k \in DOMAIN metricCalls |-> metricCalls[k].sample] OBVIOUS
<1>3. Added(s) = SumFunctionOnSet(f, Callings(s, "counter")) BY <1>2 DEF Added
<1>4. SumFunctionOnSet(f, Callings(s, "counter")) = SumFunctionOnSet(f, {}) BY <1>1, Zenon
<1> QED BY <1>1, <1>3, <1>4, SumOfNone

\* What a call makes of a row.
LEMMA RowsMove ==
    ASSUME NEW type \in {"none", "counter", "gauge", "histogram"}, NEW c \in Int, NEW v \in Int
    PROVE  /\ MetricRow(type, c, v) \in Rows
           /\ MetricRow(type, c, v).type = type /\ MetricRow(type, c, v).count = c /\ MetricRow(type, c, v).value = v
BY DEF Rows, MetricRow

\* A row of metrics has a type and two figures.
LEMMA RowFields == \A r \in Rows : /\ r.type \in {"none", "counter", "gauge", "histogram"}
                                   /\ r.count \in Int /\ r.value \in Int
BY DEF Rows

\* Counting a call moves the type and the count of a row, and not its value.
LEMMA CountedMoves ==
    ASSUME NEW r \in Rows, NEW type \in {"none", "counter", "gauge", "histogram"}
    PROVE  /\ Counted(r, type) \in Rows /\ Counted(r, type).type = type
           /\ Counted(r, type).count = r.count + 1 /\ Counted(r, type).value = r.value
<1>1. r.count \in Int /\ r.value \in Int /\ r.count + 1 \in Int BY RowFields
<1> QED BY <1>1, RowsMove DEF Counted

\* Telemetry starts within its invariant.
LEMMA TelemetryStarts == TelemetryInit => TelemetryInv
<1> SUFFICES ASSUME TelemetryInit PROVE TelemetryInv OBVIOUS
<1> USE DEF TelemetryInit
<1>1. NoRow \in Rows BY RowsMove DEF NoRow
<1>0. NoRow.type = "none" /\ NoRow.count = 0 /\ NoRow.value = 0 BY RowsMove DEF NoRow
<1>2. TelemetryTyped
  <2>1. spans \in Seq(SpanRows) /\ metricCalls \in Seq(SpanCalls) /\ currentSpan \in 0..Len(spans)
    OBVIOUS
  <2>2. checkedRows \in [Series -> Rows] /\ legacyRows \in [Series -> Rows] BY <1>1
  <2>3. strayed \in BOOLEAN OBVIOUS
  <2> QED BY <2>1, <2>2, <2>3 DEF TelemetryTyped
<1>3. SpansStack BY DEF SpansStack, Open
<1>4. SpansCounted 
  <2>1. checkedRows[SpanSeries] = NoRow BY TelemetryAssumption DEF TelemetryAssumption
  <2>2. DOMAIN spans \ Open = {} OBVIOUS
  <2> QED BY <2>1, <2>2, <1>0 DEF SpansCounted
<1>5. ASSUME NEW s \in Series PROVE RowsTell(s)
  <2>1. checkedRows[s] = NoRow /\ legacyRows[s] = NoRow OBVIOUS
  <2>2. Added(s) = 0 /\ Callings(s, "counter") = {} BY NoSum
  <2> QED BY <2>1, <2>2, <1>0 DEF RowsTell
<1> QED BY <1>2, <1>3, <1>4, <1>5 DEF TelemetryInv

-----------------------------------------------------------------------------

\* A step that leaves the spans alone keeps what is said of them alone.
LEMMA SpansStay ==
    ASSUME SpansStack, UNCHANGED <<spans, currentSpan, strayed>>
    PROVE  SpansStack' /\ Open' = Open
BY DEF SpansStack, Open

\* What touches no metric leaves what the rows tell.
LEMMA RowsStay ==
    ASSUME NEW s, RowsTell(s), UNCHANGED <<checkedRows, legacyRows, metricCalls>>
    PROVE  RowsTell(s)'
<1>1. \A t, k : Callings(t, k)' = Callings(t, k) BY DEF Callings
<1>2. Added(s)' = Added(s)
  <2>1. [k \in DOMAIN metricCalls' |-> metricCalls'[k].sample] = [k \in DOMAIN metricCalls |-> metricCalls[k].sample]
    OBVIOUS
  <2> QED BY <1>1, <2>1, Zenon DEF Added
<1>3. Unset(s)' <=> Unset(s) BY <1>1 DEF Unset
<1>4. Max(Callings(s, "gauge"))' = Max(Callings(s, "gauge")) BY <1>1, Zenon
<1>5. Cardinality(Callings(s, "counter"))' = Cardinality(Callings(s, "counter")) BY <1>1, Zenon
<1> QED BY <1>1, <1>2, <1>3, <1>4, <1>5 DEF RowsTell

\* Starting a span keeps the invariant of telemetry.
LEMMA StartSpanKeeps ==
    ASSUME TelemetryInv, NEW trace \in {{}} \cup {{t} : t \in GivenTraces}, startSpan(trace)
    PROVE  TelemetryInv'
<1> DEFINE n == Len(spans)
           t0 == IF trace # {} THEN CHOOSE t \in trace : TRUE
                 ELSE IF currentSpan # 0 THEN spans[currentSpan].trace ELSE n + 1
           row == [trace |-> t0, parent |-> currentSpan, ended |-> FALSE]
<1>1. /\ spans \in Seq(SpanRows) /\ n \in Nat /\ currentSpan \in 0..n /\ DOMAIN spans = 1..n
      /\ strayed \in BOOLEAN
  BY DEF TelemetryInv, TelemetryTyped
<1>2. t0 \in GivenTraces \cup Nat
  <2>1. CASE trace # {} BY <2>1
  <2>2. CASE trace = {}
    <3>1. CASE currentSpan # 0
      <4>1. spans[currentSpan] \in SpanRows BY <1>1, <3>1
      <4>2. spans[currentSpan].trace \in GivenTraces \cup Nat BY <4>1 DEF SpanRows
      <4> QED BY <2>2, <3>1, <4>2
    <3>2. CASE currentSpan = 0 BY <2>2, <3>2, <1>1
    <3> QED BY <3>1, <3>2
  <2> QED BY <2>1, <2>2
<1>3. row \in SpanRows BY <1>1, <1>2 DEF SpanRows
<1>4. /\ spans' = Append(spans, row) /\ currentSpan' = n + 1
      /\ UNCHANGED <<checkedRows, legacyRows, metricCalls, strayed>>
  BY DEF startSpan
<1>5. row.parent = currentSpan /\ row.ended = FALSE OBVIOUS
<1> HIDE DEF row
<1>6. /\ spans' \in Seq(SpanRows) /\ Len(spans') = n + 1 /\ DOMAIN spans' = 1..(n + 1)
      /\ spans'[n + 1] = row /\ \A k \in 1..n : spans'[k] = spans[k]
  BY <1>1, <1>3, <1>4
<1> HIDE DEF n
<1>7. Open' = Open \cup {n + 1} /\ Open \subseteq 1..n /\ n + 1 \notin Open
  <2>1. \A k \in 1..(n + 1) : k \in 1..n \/ k = n + 1 BY <1>1
  <2>2. \A k \in 1..n : k \in 1..(n + 1) /\ k # n + 1 BY <1>1
  <2>3. n + 1 \in 1..(n + 1) BY <1>1
  <2> QED BY <1>1, <1>5, <1>6, <2>1, <2>2, <2>3 DEF Open
<1>8. TelemetryTyped'
  <2>1. Len(spans') = n + 1 /\ currentSpan' \in 0..(n + 1) BY <1>1, <1>4, <1>6
  <2> QED BY <2>1, <1>4, <1>6 DEF TelemetryInv, TelemetryTyped
<1>9. SpansStack'
  <2>1. \A k \in 1..Len(spans') : spans'[k].parent < k
    <3> SUFFICES ASSUME NEW k \in 1..(n + 1) PROVE spans'[k].parent < k BY <1>6
    <3>1. CASE k = n + 1 BY <3>1, <1>1, <1>5, <1>6
    <3>2. CASE k \in 1..n BY <3>2, <1>6 DEF TelemetryInv, SpansStack, n
    <3> QED BY <3>1, <3>2, <1>1
  <2> SUFFICES ASSUME ~strayed'
               PROVE  /\ currentSpan' \in Open' \cup {0}
                      /\ \A k \in Open' : /\ k <= currentSpan'
                                          /\ spans'[k].parent \in Open' \cup {0}
                                          /\ \A m \in Open' : m < k => m <= spans'[k].parent
    BY <2>1 DEF SpansStack
  <2>2. ~strayed BY <1>4
  <2>3. /\ currentSpan \in Open \cup {0}
        /\ \A k \in Open : /\ k <= currentSpan
                           /\ spans[k].parent \in Open \cup {0}
                           /\ \A m \in Open : m < k => m <= spans[k].parent
    BY <2>2 DEF TelemetryInv, SpansStack
  <2> SUFFICES ASSUME NEW k \in Open'
               PROVE  /\ k <= currentSpan'
                      /\ spans'[k].parent \in Open' \cup {0}
                      /\ \A m \in Open' : m < k => m <= spans'[k].parent
    BY <1>4, <1>7
  <2>4. CASE k = n + 1 BY <2>4, <2>3, <1>1, <1>4, <1>5, <1>6, <1>7
  <2>5. CASE k \in Open
    <3>1. k \in 1..n /\ spans'[k] = spans[k] BY <2>5, <1>6, <1>7
    <3> QED BY <3>1, <2>5, <2>3, <1>1, <1>4, <1>7
  <2> QED BY <2>4, <2>5, <1>7
<1>10. SpansCounted'
  <2>1. DOMAIN spans' \ Open' = DOMAIN spans \ Open
    <3>1. \A k \in 1..(n + 1) : k \in 1..n \/ k = n + 1 BY <1>1
    <3>2. \A k \in 1..n : k \in 1..(n + 1) /\ k # n + 1 BY <1>1
    <3> QED BY <3>1, <3>2, <1>1, <1>6, <1>7
  <2>2. Cardinality(DOMAIN spans' \ Open') = Cardinality(DOMAIN spans \ Open) BY <2>1, Zenon
  <2> QED BY <2>1, <2>2, <1>4 DEF TelemetryInv, SpansCounted
<1>11. \A s \in Series \ {SpanSeries} : RowsTell(s)'
  BY <1>4, RowsStay DEF TelemetryInv
<1> QED BY <1>8, <1>9, <1>10, <1>11 DEF TelemetryInv

\* The end of the span that is current brings back the one below it.
LEMMA EndSpanStacks ==
    ASSUME TelemetryInv, NEW n \in DOMAIN spans, endSpan(n)
    PROVE  SpansStack' /\ Open' = Open \ {n} /\ n \in Open /\ TelemetryTyped'
<1>1. /\ spans \in Seq(SpanRows) /\ Len(spans) \in Nat /\ currentSpan \in 0..Len(spans)
      /\ DOMAIN spans = 1..Len(spans) /\ strayed \in BOOLEAN
  BY DEF TelemetryInv, TelemetryTyped
<1>a. \A r \in SpanRows : r.parent \in Nat /\ r.ended \in BOOLEAN BY DEF SpanRows
<1>2. PICK row : row = [spans[n] EXCEPT !.ended = TRUE] OBVIOUS
<1>3. spans[n] \in SpanRows BY <1>1
<1>4. row \in SpanRows /\ row.parent = spans[n].parent /\ row.ended = TRUE
  BY <1>2, <1>3 DEF SpanRows
<1>5. spans' = [spans EXCEPT ![n] = row] /\ ~spans[n].ended BY <1>2 DEF endSpan
<1>6. /\ spans' \in Seq(SpanRows) /\ DOMAIN spans' = DOMAIN spans /\ Len(spans') = Len(spans)
      /\ spans'[n] = row /\ \A k \in DOMAIN spans \ {n} : spans'[k] = spans[k]
  BY <1>1, <1>4, <1>5
<1>7. Open' = Open \ {n} /\ n \in Open BY <1>4, <1>5, <1>6 DEF Open
<1>8. \A k \in DOMAIN spans : spans'[k].parent = spans[k].parent BY <1>4, <1>6
<1>9. currentSpan' \in {currentSpan, spans[n].parent}
  BY DEF endSpan, AfterEnd
<1>10. spans[n].parent \in Nat /\ spans[n].parent < n
  BY <1>1, <1>3, <1>a DEF TelemetryInv, SpansStack
<1>11. \A k \in 1..Len(spans') : spans'[k].parent < k
  BY <1>1, <1>6, <1>8 DEF TelemetryInv, SpansStack
<1>12. SpansStack'
  <2> SUFFICES ASSUME ~strayed'
               PROVE  /\ currentSpan' \in Open' \cup {0}
                      /\ \A k \in Open' : /\ k <= currentSpan'
                                          /\ spans'[k].parent \in Open' \cup {0}
                                          /\ \A m \in Open' : m < k => m <= spans'[k].parent
    BY <1>11 DEF SpansStack
  <2>1. ~strayed /\ currentSpan = n /\ currentSpan' = spans[n].parent
    BY DEF endSpan, AfterEnd
  <2>2. \A k \in Open : /\ k <= currentSpan
                        /\ spans[k].parent \in Open \cup {0}
                        /\ \A m \in Open : m < k => m <= spans[k].parent
    BY <2>1 DEF TelemetryInv, SpansStack
  <2>3. Open \subseteq 1..Len(spans) BY <1>1 DEF Open
  <2>4. spans[n].parent \in Open' \cup {0} BY <2>2, <1>7, <1>10, <1>1
  <2> SUFFICES ASSUME NEW k \in Open'
               PROVE  /\ k <= currentSpan'
                      /\ spans'[k].parent \in Open' \cup {0}
                      /\ \A m \in Open' : m < k => m <= spans'[k].parent
    BY <2>1, <2>4
  <2>5. k \in Open /\ k # n /\ k <= n /\ k \in Nat /\ n \in Nat BY <2>1, <2>2, <2>3, <1>7, <1>1
  <2>6. k <= spans[n].parent BY <2>2, <2>5, <1>7
  <2>7. spans'[k].parent = spans[k].parent /\ spans[k].parent < k /\ spans[k].parent \in Nat
    <3>1. k \in 1..Len(spans) /\ spans[k] \in SpanRows BY <2>3, <2>5, <1>1
    <3> QED BY <3>1, <1>1, <1>8, <1>a DEF TelemetryInv, SpansStack
  <2>8. spans[k].parent # n BY <2>5, <2>7
  <2> QED BY <2>1, <2>2, <2>5, <2>6, <2>7, <2>8, <1>7
<1>13. checkedRows' \in [Series -> Rows]
  <2>1. checkedRows \in [Series -> Rows] /\ SpanSeries \in Series
    BY TelemetryAssumption DEF TelemetryInv, TelemetryTyped, TelemetryAssumption
  <2>2. Counted(checkedRows[SpanSeries], "histogram") \in Rows
    <3>1. checkedRows[SpanSeries] \in Rows BY <2>1
    <3> QED BY <3>1, CountedMoves
  <2> QED BY <2>1, <2>2 DEF endSpan
<1>14. TelemetryTyped'
  <2>1. currentSpan' \in 0..Len(spans') BY <1>1, <1>6, <1>9, <1>10
  <2>2. UNCHANGED <<legacyRows, metricCalls>> /\ strayed' \in BOOLEAN BY DEF endSpan
  <2> QED BY <2>1, <2>2, <1>6, <1>13 DEF TelemetryInv, TelemetryTyped
<1> QED BY <1>7, <1>12, <1>14

\* Ending a span keeps the invariant of telemetry, whichever span is ended.
LEMMA EndSpanKeeps ==
    ASSUME TelemetryInv, NEW n \in DOMAIN spans, endSpan(n)
    PROVE  TelemetryInv'
<1>1. SpansStack' /\ Open' = Open \ {n} /\ n \in Open /\ TelemetryTyped'
  BY EndSpanStacks
<1>2. /\ checkedRows \in [Series -> Rows] /\ SpanSeries \in Series
      /\ spans \in Seq(SpanRows) /\ DOMAIN spans = 1..Len(spans) /\ Len(spans) \in Nat
  BY TelemetryAssumption DEF TelemetryInv, TelemetryTyped, TelemetryAssumption
<1>3. checkedRows[SpanSeries] \in Rows BY <1>2
<1>4. DOMAIN spans' = DOMAIN spans BY <1>2 DEF endSpan
<1>5. UNCHANGED <<legacyRows, metricCalls>> BY DEF endSpan
<1> DEFINE old == DOMAIN spans \ Open
           row == Counted(checkedRows[SpanSeries], "histogram")
<1>6. DOMAIN spans' \ Open' = old \cup {n} /\ n \notin old BY <1>1, <1>4
<1>7. IsFiniteSet(old) /\ Cardinality(old) \in Nat
  <2>1. IsFiniteSet(DOMAIN spans) BY <1>2, FS_Interval
  <2>2. IsFiniteSet(old) BY <2>1, FS_Subset
  <2> QED BY <2>2, FS_CardinalityType
<1>8. Cardinality(DOMAIN spans' \ Open') = Cardinality(old) + 1
  <2>1. Cardinality(old \cup {n}) = Cardinality(old) + 1 BY <1>6, <1>7, FS_AddElement
  <2>2. Cardinality(DOMAIN spans' \ Open') = Cardinality(old \cup {n}) BY <1>6, Zenon
  <2> QED BY <2>1, <2>2
<1>9. SpansCounted'
  <2>1. CASE TypeFits(SpanSeries, "histogram")
    <3>1. checkedRows' = [checkedRows EXCEPT ![SpanSeries] = row] BY <2>1 DEF endSpan
    <3>2. checkedRows'[SpanSeries] = row BY <3>1, <1>2
    <3>3. row.type = "histogram" /\ row.count = checkedRows[SpanSeries].count + 1
      BY <1>3, CountedMoves
    <3>4. checkedRows[SpanSeries].count = Cardinality(old)
      <4>1. CASE checkedRows[SpanSeries].type = "histogram" BY <4>1 DEF TelemetryInv, SpansCounted
      <4>2. CASE checkedRows[SpanSeries].type = "none"
        <5>1. old = {} /\ checkedRows[SpanSeries].count = 0 BY <4>2 DEF TelemetryInv, SpansCounted
        <5>2. Cardinality(old) = Cardinality({}) BY <5>1, Zenon
        <5> QED BY <5>1, <5>2, FS_EmptySet
      <4> QED BY <4>1, <4>2, <2>1 DEF TypeFits
    <3> HIDE DEF row, old
    <3> QED BY <3>2, <3>3, <3>4, <1>8 DEF SpansCounted
  <2>2. CASE ~TypeFits(SpanSeries, "histogram")
    BY <2>2 DEF endSpan, SpansCounted, TypeFits
  <2> QED BY <2>1, <2>2
<1>10. \A s \in Series \ {SpanSeries} : RowsTell(s)'
  <2> SUFFICES ASSUME NEW s \in Series \ {SpanSeries} PROVE RowsTell(s)' OBVIOUS
  <2>1. checkedRows'[s] = checkedRows[s] BY <1>2 DEF endSpan
  <2>2. RowsTell(s) BY DEF TelemetryInv
  <2> QED BY <2>1, <2>2, <1>5 DEF RowsTell, Callings, Added, Unset
<1> QED BY <1>1, <1>9, <1>10 DEF TelemetryInv

-----------------------------------------------------------------------------

\* What a call does to what was called.
LEMMA CallGrows ==
    ASSUME TelemetryInv, NEW s \in Series, NEW kind \in {"counter", "gauge"}, NEW v \in Int,
           NEW ok \in BOOLEAN, Called(s, kind, v, ok)
    PROVE  LET n == Len(metricCalls) IN
           /\ n \in Nat /\ metricCalls' \in Seq(SpanCalls)
           /\ \A t, k : Callings(t, k) \subseteq 1..n
           /\ \A t, k : Callings(t, k)' = IF t = s /\ k = kind THEN Callings(t, k) \cup {n + 1}
                                          ELSE Callings(t, k)
           /\ \A j \in 1..n : metricCalls'[j] = metricCalls[j]
           /\ metricCalls'[n + 1].sample = v /\ metricCalls'[n + 1].accepted = ok
<1> DEFINE n == Len(metricCalls)
<1>1. PICK c : c = [series |-> s, kind |-> kind, sample |-> v, accepted |-> ok] OBVIOUS
<1>2. c \in SpanCalls /\ c.series = s /\ c.kind = kind /\ c.sample = v /\ c.accepted = ok
  BY <1>1 DEF SpanCalls
<1>3. metricCalls \in Seq(SpanCalls) /\ n \in Nat /\ DOMAIN metricCalls = 1..n
  BY DEF TelemetryInv, TelemetryTyped
<1>4. metricCalls' = Append(metricCalls, c) BY <1>1 DEF Called
<1>5. /\ metricCalls' \in Seq(SpanCalls) /\ DOMAIN metricCalls' = 1..(n + 1)
      /\ metricCalls'[n + 1] = c /\ \A j \in 1..n : metricCalls'[j] = metricCalls[j]
  BY <1>2, <1>3, <1>4
<1>6. \A t, k : Callings(t, k) \subseteq 1..n BY <1>3 DEF Callings
<1>7. ASSUME NEW t, NEW k
      PROVE  Callings(t, k)' = IF t = s /\ k = kind THEN Callings(t, k) \cup {n + 1}
                               ELSE Callings(t, k)
  <2> HIDE DEF n
  <2>1. \A j \in 1..(n + 1) : j \in 1..n \/ j = n + 1 BY <1>3
  <2>2. \A j \in 1..n : j \in 1..(n + 1) BY <1>3
  <2>3. n + 1 \in 1..(n + 1) BY <1>3
  <2>4. \A j : j \in Callings(t, k)' <=> j \in Callings(t, k) \/ (j = n + 1 /\ t = s /\ k = kind)
    BY <1>2, <1>3, <1>5, <2>1, <2>2, <2>3 DEF Callings
  <2>5. CASE t = s /\ k = kind BY <2>4, <2>5
  <2>6. CASE ~(t = s /\ k = kind) BY <2>4, <2>6
  <2> QED BY <2>5, <2>6
<1> QED BY <1>2, <1>3, <1>5, <1>6, <1>7

\* What was added grows by what is added.
LEMMA AddedGrows ==
    ASSUME TelemetryInv, NEW s \in Series, NEW kind \in {"counter", "gauge"}, NEW v \in Int,
           NEW ok \in BOOLEAN, Called(s, kind, v, ok), NEW t \in Series
    PROVE  /\ Added(t)' = IF t = s /\ kind = "counter" THEN Added(t) + v ELSE Added(t)
           /\ Cardinality(Callings(t, "counter"))' =
                IF t = s /\ kind = "counter" THEN Cardinality(Callings(t, "counter")) + 1
                ELSE Cardinality(Callings(t, "counter"))
<1> DEFINE n == Len(metricCalls)
           S == Callings(t, "counter")
           f == [k \in DOMAIN metricCalls |-> metricCalls[k].sample]
           g == [k \in DOMAIN metricCalls' |-> metricCalls'[k].sample]
<1>1. /\ n \in Nat /\ S \subseteq 1..n
      /\ S' = IF t = s /\ kind = "counter" THEN S \cup {n + 1} ELSE S
      /\ \A j \in 1..n : metricCalls'[j] = metricCalls[j]
      /\ metricCalls'[n + 1].sample = v /\ metricCalls' \in Seq(SpanCalls)
  BY CallGrows
<1>2. Added(t) = SumFunctionOnSet(f, S) /\ Added(t)' = SumFunctionOnSet(g, S')
  BY DEF Added
<1>3. /\ metricCalls \in Seq(SpanCalls) /\ DOMAIN metricCalls = 1..n
      /\ DOMAIN metricCalls' = 1..(n + 1)
  BY DEF TelemetryInv, TelemetryTyped, Called
<1>4. \A j \in 1..n : f[j] = metricCalls[j].sample /\ f[j] \in Int
  <2>1. \A c \in SpanCalls : c.sample \in Int BY DEF SpanCalls
  <2>2. \A j \in 1..n : metricCalls[j] \in SpanCalls BY <1>3
  <2> QED BY <2>1, <2>2, <1>3
<1>5. (\A j \in 1..n : g[j] = f[j]) /\ g[n + 1] = v
  <2>1. \A j \in 1..n : j \in 1..(n + 1) BY <1>1
  <2>2. n + 1 \in 1..(n + 1) BY <1>1
  <2> QED BY <2>1, <2>2, <1>1, <1>3, <1>4
<1>6. IsFiniteSet(S) /\ n + 1 \notin S
  <2>1. IsFiniteSet(1..n) BY <1>1, FS_Interval
  <2>2. n + 1 \notin 1..n BY <1>1
  <2> QED BY <2>1, <2>2, <1>1, FS_Subset
<1> HIDE DEF S, f, g, n
<1>7. SumFunctionOnSet(g, S) = SumFunctionOnSet(f, S)
  <2>1. \A x \in S : g[x] = f[x] BY <1>1, <1>5
  <2> QED BY <2>1, <1>6, SumsAgree
<1>8. CASE t = s /\ kind = "counter"
  <2>1. S' = S \cup {n + 1} BY <1>1, <1>8
  <2>2. SumFunctionOnSet(g, S \cup {n + 1}) = SumFunctionOnSet(g, S) + g[n + 1]
    <3>1. \A x \in S : g[x] \in Int BY <1>1, <1>4, <1>5
    <3>2. PICK m : m = n + 1 OBVIOUS
    <3>3. m \notin S /\ g[m] \in Int BY <3>2, <1>5, <1>6
    <3>4. SumFunctionOnSet(g, S \cup {m}) = SumFunctionOnSet(g, S) + g[m]
      BY <3>1, <3>3, <1>6, SumWith
    <3> QED BY <3>2, <3>4
  <2>3. Cardinality(S \cup {n + 1}) = Cardinality(S) + 1 BY <1>6, FS_AddElement
  <2>4. SumFunctionOnSet(g, S') = SumFunctionOnSet(g, S \cup {n + 1})
        /\ Cardinality(S') = Cardinality(S \cup {n + 1})
    BY <2>1, Zenon
  <2>5. Added(t)' = Added(t) + v BY <2>2, <2>4, <1>2, <1>5, <1>7
  <2>6. Cardinality(S') = Cardinality(S) + 1 BY <2>3, <2>4
  <2> QED BY <2>5, <2>6, <1>8 DEF S
<1>9. CASE ~(t = s /\ kind = "counter")
  <2>1. S' = S BY <1>1, <1>9
  <2>2. SumFunctionOnSet(g, S') = SumFunctionOnSet(g, S) /\ Cardinality(S') = Cardinality(S)
    BY <2>1, Zenon
  <2>3. Added(t)' = Added(t) BY <2>2, <1>2, <1>7
  <2> QED BY <2>2, <2>3, <1>9 DEF S
<1> QED BY <1>8, <1>9

\* Of another series nothing changes.
LEMMA OthersTell ==
    ASSUME TelemetryInv, NEW s \in Series, NEW kind \in {"counter", "gauge"}, NEW v \in Int,
           NEW ok \in BOOLEAN, Called(s, kind, v, ok), NEW t \in Series \ {SpanSeries}, t # s,
           checkedRows'[t] = checkedRows[t], legacyRows'[t] = legacyRows[t]
    PROVE  RowsTell(t)'
<1> DEFINE n == Len(metricCalls)
<1>1. RowsTell(t) BY DEF TelemetryInv
<1>2. /\ Added(t)' = Added(t)
      /\ Cardinality(Callings(t, "counter"))' = Cardinality(Callings(t, "counter"))
  BY AddedGrows
<1>3. /\ Callings(t, "counter")' = Callings(t, "counter")
      /\ Callings(t, "gauge")' = Callings(t, "gauge") /\ Callings(t, "gauge") \subseteq 1..n
      /\ \A j \in 1..n : metricCalls'[j] = metricCalls[j]
  BY CallGrows
<1>4. Unset(t)' <=> Unset(t) BY <1>3 DEF Unset
<1>5. Max(Callings(t, "gauge"))' = Max(Callings(t, "gauge"))
  BY <1>3, Zenon
<1>6. Callings(t, "gauge") # {} => metricCalls'[Max(Callings(t, "gauge"))] = metricCalls[Max(Callings(t, "gauge"))]
  <2>1. n \in Nat BY CallGrows
  <2>2. IsFiniteSet(Callings(t, "gauge")) /\ \A x \in Callings(t, "gauge") : x \in Int
    <3>1. IsFiniteSet(1..n) BY <2>1, FS_Interval
    <3> QED BY <3>1, <1>3, FS_Subset
  <2>3. Callings(t, "gauge") # {} => Max(Callings(t, "gauge")) \in Callings(t, "gauge")
    BY <2>2, MaxIsGreatest
  <2> QED BY <2>3, <1>3
<1>7. checkedRows'[t].type = "gauge" =>
         legacyRows'[t].value = checkedRows'[t].value
           \/ ~metricCalls'[Max(Callings(t, "gauge"))'].accepted
  BY <1>1, <1>5, <1>6 DEF RowsTell
<1> QED BY <1>1, <1>2, <1>3, <1>4, <1>7 DEF RowsTell

\* Incrementing a counter keeps the invariant of telemetry.
LEMMA IncKeeps ==
    ASSUME TelemetryInv, NEW s \in Series, NEW v \in Int, inc(s, v)
    PROVE  TelemetryInv'
<1>0. TypeFits(s, "counter") \in BOOLEAN BY DEF TypeFits
<1> PICK ok \in BOOLEAN : ok = TypeFits(s, "counter") BY <1>0
<1>1. /\ checkedRows \in [Series -> Rows] /\ legacyRows \in [Series -> Rows]
      /\ SpanSeries \in Series
  BY TelemetryAssumption DEF TelemetryInv, TelemetryTyped, TelemetryAssumption
<1> PICK type : type = LegacyType(s, "counter") OBVIOUS
<1>2. /\ Called(s, "counter", v, ok) /\ UNCHANGED <<spans, currentSpan, strayed>>
      /\ legacyRows' = [legacyRows EXCEPT ![s] = MetricRow(type, @.count + v, @.value)]
      /\ checkedRows' = IF ok THEN [checkedRows EXCEPT ![s] = Counted(@, "counter")] ELSE checkedRows
  BY DEF inc
<1>3. checkedRows[s] \in Rows /\ legacyRows[s] \in Rows BY <1>1
<1>4. type \in {"counter", "gauge", "histogram"}
      /\ type = IF legacyRows[s].type = "none" THEN "counter" ELSE legacyRows[s].type
  BY <1>3 DEF LegacyType, Rows
<1>5. PICK old, row, oldl, rowl : /\ old = checkedRows[s] /\ oldl = legacyRows[s]
                            /\ row = Counted(old, "counter")
                            /\ rowl = MetricRow(type, oldl.count + v, oldl.value)
  OBVIOUS
<1>6. /\ row \in Rows /\ rowl \in Rows
      /\ row.type = "counter" /\ row.count = old.count + 1 /\ row.value = old.value
      /\ rowl.type = type /\ rowl.count = oldl.count + v /\ rowl.value = oldl.value
  <2>1. /\ old.count \in Int /\ old.value \in Int /\ oldl.count \in Int /\ oldl.value \in Int
        /\ oldl.count + v \in Int
    BY <1>3, <1>5, RowFields
  <2>2. /\ row \in Rows /\ row.type = "counter" /\ row.count = old.count + 1 /\ row.value = old.value
    BY <1>3, <1>5, CountedMoves
  <2>3. /\ rowl \in Rows /\ rowl.type = type /\ rowl.count = oldl.count + v /\ rowl.value = oldl.value
    <3>1. type \in {"none", "counter", "gauge", "histogram"} BY <1>4
    <3>2. PICK c, w : c = oldl.count + v /\ w = oldl.value OBVIOUS
    <3>3. rowl = MetricRow(type, c, w) /\ c \in Int /\ w \in Int BY <2>1, <3>2, <1>5
    <3> QED BY <3>1, <3>2, <3>3, RowsMove
  <2> QED BY <2>2, <2>3
<1>7. /\ legacyRows' = [legacyRows EXCEPT ![s] = rowl]
      /\ checkedRows' = IF ok THEN [checkedRows EXCEPT ![s] = row] ELSE checkedRows
  BY <1>2, <1>5
<1>8. /\ legacyRows' \in [Series -> Rows] /\ checkedRows' \in [Series -> Rows]
      /\ legacyRows'[s] = rowl /\ checkedRows'[s] = IF ok THEN row ELSE old
      /\ \A t \in Series \ {s} : checkedRows'[t] = checkedRows[t] /\ legacyRows'[t] = legacyRows[t]
  BY <1>1, <1>5, <1>6, <1>7
<1>9. metricCalls' \in Seq(SpanCalls) BY <1>2, CallGrows
<1>10. TelemetryTyped' BY <1>2, <1>8, <1>9 DEF TelemetryInv, TelemetryTyped
<1>11. SpansStack' /\ Open' = Open BY <1>2, SpansStay DEF TelemetryInv
<1>12. SpansCounted'
  <2>1. CASE s # SpanSeries BY <2>1, <1>1, <1>2, <1>8, <1>11 DEF TelemetryInv, SpansCounted
  <2>2. CASE s = SpanSeries
    <3>1. CASE ok BY <3>1, <2>2, <1>6, <1>8 DEF SpansCounted
    <3>2. CASE ~ok BY <3>2, <2>2, <1>2, <1>5, <1>8, <1>11 DEF TelemetryInv, SpansCounted
    <3> QED BY <3>1, <3>2
  <2> QED BY <2>1, <2>2
<1>13. ASSUME NEW t \in Series \ {SpanSeries} PROVE RowsTell(t)'
  <2>1. CASE t # s BY <2>1, <1>2, <1>8, OthersTell
  <2>2. CASE t = s
    <3> SUFFICES RowsTell(s)' BY <2>2
    <3>1. RowsTell(s) BY <2>2 DEF TelemetryInv
    <3>2. /\ Added(s)' = Added(s) + v
          /\ Cardinality(Callings(s, "counter"))' = Cardinality(Callings(s, "counter")) + 1
      BY <1>2, AddedGrows
    <3> DEFINE n == Len(metricCalls)
    <3>3. /\ Callings(s, "counter") # {} \/ Callings(s, "counter")' # {}
          /\ Callings(s, "gauge")' = Callings(s, "gauge") /\ Callings(s, "gauge") \subseteq 1..n
          /\ n \in Nat /\ \A j \in 1..n : metricCalls'[j] = metricCalls[j]
      BY <1>2, CallGrows
    <3>4. Unset(s)' <=> Unset(s) BY <3>3 DEF Unset
    <3>5. Max(Callings(s, "gauge"))' = Max(Callings(s, "gauge")) BY <3>3, Zenon
    <3>6. Callings(s, "gauge") # {} =>
             metricCalls'[Max(Callings(s, "gauge"))] = metricCalls[Max(Callings(s, "gauge"))]
      <4>1. IsFiniteSet(Callings(s, "gauge")) /\ \A x \in Callings(s, "gauge") : x \in Int
        <5>1. IsFiniteSet(1..n) BY <3>3, FS_Interval
        <5> QED BY <5>1, <3>3, FS_Subset
      <4>2. Callings(s, "gauge") # {} => Max(Callings(s, "gauge")) \in Callings(s, "gauge")
        BY <4>1, MaxIsGreatest
      <4> QED BY <4>2, <3>3
    <3>7. old.type \in {"none", "counter", "gauge"}
      BY <3>1, <1>3, <1>5 DEF RowsTell, Rows
    <3>8. ok <=> old.type \in {"none", "counter"} BY <1>5 DEF TypeFits
    <3>9. CASE old.type = "gauge"
      <4>1. checkedRows'[s] = old /\ ~ok BY <3>8, <3>9, <1>8
      <4>2. oldl.type = "gauge" /\ type = "gauge" BY <3>1, <3>9, <1>4, <1>5 DEF RowsTell
      <4>3. legacyRows'[s].value = checkedRows'[s].value
              \/ ~metricCalls'[Max(Callings(s, "gauge"))'].accepted
        BY <3>1, <3>5, <3>6, <3>9, <4>1, <1>5, <1>6, <1>8 DEF RowsTell
      <4> QED BY <3>1, <3>2, <3>3, <3>9, <4>1, <4>2, <4>3, <1>5, <1>6, <1>8 DEF RowsTell
    <3>10. CASE old.type = "none"
      <4>1. Callings(s, "counter") = {} /\ old.count = 0 BY <3>1, <3>10, <1>5 DEF RowsTell
      <4>2. Cardinality(Callings(s, "counter")) = 0
        <5>1. Cardinality(Callings(s, "counter")) = Cardinality({}) BY <4>1, Zenon
        <5> QED BY <5>1, FS_EmptySet
      <4>3. checkedRows'[s] = row BY <3>8, <3>10, <1>8
      <4>4. type = "counter" \/ Unset(s) BY <3>1, <3>10, <1>4, <1>5 DEF RowsTell
      <4> QED BY <3>1, <3>2, <3>4, <4>1, <4>2, <4>3, <4>4, <1>5, <1>6, <1>8 DEF RowsTell
    <3>11. CASE old.type = "counter"
      <4>1. checkedRows'[s] = row BY <3>8, <3>11, <1>8
      <4>2. old.count = Cardinality(Callings(s, "counter")) BY <3>1, <3>11, <1>5 DEF RowsTell
      <4>3. type = "counter" \/ Unset(s) BY <3>1, <3>11, <1>4, <1>5 DEF RowsTell
      <4> QED BY <3>1, <3>2, <3>4, <4>1, <4>2, <4>3, <1>5, <1>6, <1>8 DEF RowsTell
    <3> QED BY <3>7, <3>9, <3>10, <3>11
  <2> QED BY <2>1, <2>2
<1> QED BY <1>10, <1>11, <1>12, <1>13 DEF TelemetryInv

\* Setting a gauge keeps the invariant of telemetry.
LEMMA SetKeeps ==
    ASSUME TelemetryInv, NEW s \in Series, NEW v \in Int, set(s, v)
    PROVE  TelemetryInv'
<1> PICK ok \in BOOLEAN : ok = (v # NotFinite /\ TypeFits(s, "gauge")) BY DEF TypeFits
<1>1. /\ checkedRows \in [Series -> Rows] /\ legacyRows \in [Series -> Rows]
      /\ SpanSeries \in Series
  BY TelemetryAssumption DEF TelemetryInv, TelemetryTyped, TelemetryAssumption
<1> PICK type : type = LegacyType(s, "gauge") OBVIOUS
<1>2. /\ Called(s, "gauge", v, ok) /\ UNCHANGED <<spans, currentSpan, strayed>>
      /\ legacyRows' = [legacyRows EXCEPT ![s] = MetricRow(type, @.count, v)]
      /\ checkedRows' = IF ok THEN [checkedRows EXCEPT ![s] = MetricRow("gauge", @.count, v)]
                        ELSE checkedRows
  BY DEF set
<1>3. checkedRows[s] \in Rows /\ legacyRows[s] \in Rows BY <1>1
<1>4. type \in {"counter", "gauge", "histogram"}
      /\ type = IF legacyRows[s].type = "none" THEN "gauge" ELSE legacyRows[s].type
  BY <1>3 DEF LegacyType, Rows
<1>5. PICK old, row, oldl, rowl : /\ old = checkedRows[s] /\ oldl = legacyRows[s]
                            /\ row = MetricRow("gauge", old.count, v)
                            /\ rowl = MetricRow(type, oldl.count, v)
  OBVIOUS
<1>6. /\ row \in Rows /\ rowl \in Rows
      /\ row.type = "gauge" /\ row.count = old.count /\ row.value = v
      /\ rowl.type = type /\ rowl.count = oldl.count /\ rowl.value = v
  <2>1. /\ old.count \in Int /\ old.value \in Int /\ oldl.count \in Int /\ oldl.value \in Int
        /\ oldl.count + v \in Int
    BY <1>3, <1>5, RowFields
  <2>2. /\ row \in Rows /\ row.type = "gauge" /\ row.count = old.count /\ row.value = v
    BY <2>1, <1>5, RowsMove
  <2>3. /\ rowl \in Rows /\ rowl.type = type /\ rowl.count = oldl.count /\ rowl.value = v
    <3>1. type \in {"none", "counter", "gauge", "histogram"} BY <1>4
    <3> QED BY <2>1, <3>1, <1>5, RowsMove
  <2> QED BY <2>2, <2>3
<1>7. /\ legacyRows' = [legacyRows EXCEPT ![s] = rowl]
      /\ checkedRows' = IF ok THEN [checkedRows EXCEPT ![s] = row] ELSE checkedRows
  BY <1>2, <1>5
<1>8. /\ legacyRows' \in [Series -> Rows] /\ checkedRows' \in [Series -> Rows]
      /\ legacyRows'[s] = rowl /\ checkedRows'[s] = IF ok THEN row ELSE old
      /\ \A t \in Series \ {s} : checkedRows'[t] = checkedRows[t] /\ legacyRows'[t] = legacyRows[t]
  BY <1>1, <1>5, <1>6, <1>7
<1>9. metricCalls' \in Seq(SpanCalls) BY <1>2, CallGrows
<1>10. TelemetryTyped' BY <1>2, <1>8, <1>9 DEF TelemetryInv, TelemetryTyped
<1>11. SpansStack' /\ Open' = Open BY <1>2, SpansStay DEF TelemetryInv
<1>12. SpansCounted'
  <2>1. CASE s # SpanSeries BY <2>1, <1>1, <1>2, <1>8, <1>11 DEF TelemetryInv, SpansCounted
  <2>2. CASE s = SpanSeries
    <3>1. CASE ok BY <3>1, <2>2, <1>6, <1>8 DEF SpansCounted
    <3>2. CASE ~ok BY <3>2, <2>2, <1>2, <1>5, <1>8, <1>11 DEF TelemetryInv, SpansCounted
    <3> QED BY <3>1, <3>2
  <2> QED BY <2>1, <2>2
<1>13. ASSUME NEW t \in Series \ {SpanSeries} PROVE RowsTell(t)'
  <2>1. CASE t # s BY <2>1, <1>2, <1>8, OthersTell
  <2>2. CASE t = s
    <3> SUFFICES RowsTell(s)' BY <2>2
    <3>1. RowsTell(s) BY <2>2 DEF TelemetryInv
    <3>2. /\ Added(s)' = Added(s)
          /\ Cardinality(Callings(s, "counter"))' = Cardinality(Callings(s, "counter"))
      BY <1>2, AddedGrows
    <3> DEFINE n == Len(metricCalls)
    <3>3. /\ Callings(s, "counter")' = Callings(s, "counter")
          /\ Callings(s, "gauge")' = Callings(s, "gauge") \cup {n + 1}
          /\ Callings(s, "gauge") \subseteq 1..n
          /\ n \in Nat /\ \A j \in 1..n : metricCalls'[j] = metricCalls[j]
          /\ metricCalls'[n + 1].sample = v /\ metricCalls'[n + 1].accepted = ok
      BY <1>2, CallGrows
    <3>4. (Unset(s) => Unset(s)') /\ (v = NotFinite => Unset(s)') BY <3>3 DEF Unset
    <3>5. Max(Callings(s, "gauge"))' = n + 1
      <4>1. Max(Callings(s, "gauge") \cup {n + 1}) = n + 1
        <5>1. PICK m : m = n + 1 OBVIOUS
        <5>2. \A x \in Callings(s, "gauge") \cup {m} : x \in Int /\ x <= m BY <3>3, <5>1
        <5>3. Max(Callings(s, "gauge") \cup {m}) = m BY <5>2, GreatestIsMax
        <5> QED BY <5>1, <5>3
      <4> QED BY <4>1, <3>3, Zenon
    <3>6. ~metricCalls'[Max(Callings(s, "gauge"))'].accepted \/ ok BY <3>3, <3>5
    <3>7. old.type \in {"none", "counter", "gauge"}
      BY <3>1, <1>3, <1>5 DEF RowsTell, Rows
    <3>8. ok <=> v # NotFinite /\ old.type \in {"none", "gauge"} BY <1>5 DEF TypeFits
    <3>9. CASE ok
      <4>1. checkedRows'[s] = row /\ legacyRows'[s] = rowl BY <3>9, <1>8
      <4>2. type = "gauge" BY <3>1, <3>8, <3>9, <1>4, <1>5 DEF RowsTell
      <4>3. Callings(s, "gauge")' # {} BY <3>3
      <4> QED BY <3>1, <3>2, <4>1, <4>2, <4>3, <1>5, <1>6 DEF RowsTell
    <3>10. CASE ~ok
      <4>1. checkedRows'[s] = old /\ legacyRows'[s] = rowl BY <3>10, <1>8
      <4>2. CASE old.type = "none"
        <5>1. v = NotFinite BY <3>8, <3>10, <4>2
        <5>2. type = "gauge" BY <3>1, <4>2, <1>4, <1>5 DEF RowsTell
        <5> QED BY <3>1, <3>2, <3>3, <3>4, <4>1, <4>2, <5>1, <5>2, <1>5, <1>6 DEF RowsTell
      <4>3. CASE old.type = "counter"
        <5>1. type = "counter" \/ Unset(s) BY <3>1, <4>3, <1>4, <1>5 DEF RowsTell
        <5> QED BY <3>1, <3>2, <3>4, <4>1, <4>3, <5>1, <1>5, <1>6 DEF RowsTell
      <4>4. CASE old.type = "gauge"
        <5>1. type = "gauge" BY <3>1, <4>4, <1>4, <1>5 DEF RowsTell
        <5>2. Callings(s, "gauge")' # {} BY <3>3
        <5> QED BY <3>1, <3>2, <3>6, <3>10, <4>1, <4>4, <5>1, <5>2, <1>5, <1>6 DEF RowsTell
      <4> QED BY <3>7, <4>2, <4>3, <4>4
    <3> QED BY <3>9, <3>10
  <2> QED BY <2>1, <2>2
<1> QED BY <1>10, <1>11, <1>12, <1>13 DEF TelemetryInv

\* Every step of telemetry keeps its invariant.
LEMMA TelemetryStepInv == TelemetryInv /\ [TelemetryNext]_telemetryVars => TelemetryInv'
<1> SUFFICES ASSUME TelemetryInv, [TelemetryNext]_telemetryVars PROVE TelemetryInv' OBVIOUS
<1>1. CASE UNCHANGED telemetryVars
  <2>1. UNCHANGED <<spans, currentSpan, strayed, checkedRows, legacyRows, metricCalls>>
    BY <1>1 DEF telemetryVars
  <2>2. SpansStack' /\ Open' = Open BY <2>1, SpansStay DEF TelemetryInv
  <2>3. SpansCounted'
    <3>1. Cardinality(DOMAIN spans' \ Open') = Cardinality(DOMAIN spans \ Open) BY <2>1, <2>2, Zenon
    <3> QED BY <2>1, <2>2, <3>1 DEF TelemetryInv, SpansCounted
  <2>4. TelemetryTyped' BY <2>1 DEF TelemetryInv, TelemetryTyped
  <2> QED BY <2>1, <2>2, <2>3, <2>4, RowsStay DEF TelemetryInv
<1>2. ASSUME NEW trace \in {{}} \cup {{t} : t \in GivenTraces}, startSpan(trace) PROVE TelemetryInv'
  BY <1>2, StartSpanKeeps
<1>3. ASSUME NEW n \in DOMAIN spans, endSpan(n) PROVE TelemetryInv' BY <1>3, EndSpanKeeps
<1>4. ASSUME NEW s \in Series, NEW v \in Samples, inc(s, v) \/ set(s, v) \/ set(s, NotFinite)
      PROVE  TelemetryInv'
  <2>1. v \in Int /\ NotFinite \in Int BY TelemetryAssumption DEF TelemetryAssumption, NotFinite
  <2> QED BY <2>1, <1>4, IncKeeps, SetKeeps
<1> QED BY <1>1, <1>2, <1>3, <1>4 DEF TelemetryNext

\* The invariant of telemetry says that its spans and rows are true.
LEMMA TelemetryInvTells == TelemetryInv => TelemetryHolds
<1> SUFFICES ASSUME TelemetryInv PROVE TelemetryHolds OBVIOUS
<1>1. ~strayed => currentSpan = Max(Open \cup {0})
  <2> SUFFICES ASSUME ~strayed PROVE currentSpan = Max(Open \cup {0}) OBVIOUS
  <2>1. Open \subseteq Nat BY DEF Open, TelemetryInv, TelemetryTyped
  <2>2. currentSpan \in Open \cup {0} /\ \A n \in Open : n <= currentSpan
    BY DEF TelemetryInv, SpansStack
  <2>3. currentSpan \in Nat BY <2>1, <2>2
  <2> DEFINE S == Open \cup {0}
  <2>4. currentSpan \in S /\ \A x \in S : x \in Int /\ x <= currentSpan BY <2>1, <2>2, <2>3
  <2>5. currentSpan = Max(S)
    <3> HIDE DEF S
    <3> QED BY <2>4, GreatestIsMax
  <2> QED BY <2>5
<1>2. SpansNest BY <1>1 DEF TelemetryInv, SpansCounted, SpansNest
<1>3. StoresAgree
  <2> SUFFICES ASSUME NEW s \in Series \ {SpanSeries}
               PROVE  /\ checkedRows[s].type = "counter" /\ legacyRows[s].type = "counter" =>
                           /\ legacyRows[s].count = Added(s)
                           /\ checkedRows[s].count = Cardinality(Callings(s, "counter"))
                      /\ checkedRows[s].type = "gauge" /\ legacyRows[s].type = "gauge" =>
                           \/ legacyRows[s].value = checkedRows[s].value
                           \/ ~metricCalls[Max(Callings(s, "gauge"))].accepted
                      /\ checkedRows[s].type \notin {"none", legacyRows[s].type} =>
                           \E k \in Callings(s, "gauge") : metricCalls[k].sample = NotFinite
    BY DEF StoresAgree
  <2>1. RowsTell(s) BY DEF TelemetryInv
  <2>2. checkedRows[s] \in Rows BY DEF TelemetryInv, TelemetryTyped
  <2>3. checkedRows[s].type \in {"none", "counter", "gauge", "histogram"} BY <2>2 DEF Rows
  <2> QED BY <2>1, <2>3 DEF RowsTell, Unset
<1> QED BY <1>2, <1>3 DEF TelemetryHolds

\* The spans and the metrics alone: what is printed and what is read differ by no
\* more than they must, and the innermost open span is current.
THEOREM TelemetryStaysTrue == TelemetrySpec => []TelemetryHolds
<1>1. TelemetryInv => TelemetryHolds BY TelemetryInvTells
<1>2. TelemetryInv /\ [TelemetryNext]_telemetryVars => TelemetryInv' BY TelemetryStepInv
<1> QED BY <1>1, <1>2, TelemetryStarts, PTL DEF TelemetrySpec

-----------------------------------------------------------------------------
(* Generation.                                                             *)

Costs0 == [i \in DOMAIN metered |-> metered[i].cost]

\* What was metered is what is spent, under requests that were made once each;
\* what is kept or was handed out was metered, and allowed for its version.
Backed(version, request, at) ==
    /\ \E i \in DOMAIN metered : metered[i].request = request
    /\ \E i \in DOMAIN provenance : /\ provenance[i].request = request
                                    /\ provenance[i].version = version
                                    /\ provenance[i].at = at

\* The last answer was backed when it was kept, and is not older than the cache allows.
AnsweredIsBacked ==
    answered # NoAnswer =>
       /\ answered.at \in Nat
       /\ \E at \in Nat : /\ Backed(answered.version, answered.request, at)
                          /\ answered.at - at \in 0..CacheTtl

Bills == [request : Nat, cost : Nat]
Origins == [request : Nat, version : TemplateVersions, at : Nat]

\* Spending is what was metered, within the budget, and every answer is backed.
AiInv ==
    /\ registered \subseteq AiProviders
    /\ templates \in Seq(TemplateVersions)
    /\ requests \in Nat /\ aiClock \in Nat
    /\ metered \in Seq(Bills)
    /\ provenance \in Seq(Origins)
    /\ spend = SumFunctionOnSet(Costs0, DOMAIN metered)
    /\ spend \in Nat /\ spend <= SpendBudget
    /\ \A i \in DOMAIN metered : metered[i].request <= requests
    /\ \A i, j \in DOMAIN metered : i # j => metered[i].request # metered[j].request
    /\ \A v \in TemplateVersions : \A e \in outputs[v] :
          e.at \in Nat /\ e.at <= aiClock /\ Backed(v, e.request, e.at)
    /\ DOMAIN outputs = TemplateVersions
    /\ AnsweredIsBacked

\* Generation starts within its invariant.
LEMMA AiStarts == AiInit => AiInv
<1> SUFFICES ASSUME AiInit PROVE AiInv OBVIOUS
<1>1. metered = <<>> /\ DOMAIN metered = {} BY DEF AiInit
<1>2. SumFunctionOnSet(Costs0, DOMAIN metered) = 0
  <2>1. SumFunctionOnSet(Costs0, {}) = 0 BY SumOfNone
  <2> QED BY <1>1, <2>1, Zenon
<1>3. SpendBudget \in Nat BY AiAssumption DEF AiAssumption
<1>4. /\ registered = {} /\ templates = <<>> /\ requests = 0 /\ aiClock = 0 /\ provenance = <<>>
      /\ spend = 0 /\ outputs = [v \in TemplateVersions |-> {}] /\ answered = NoAnswer
  BY DEF AiInit
<1> QED BY <1>1, <1>2, <1>3, <1>4 DEF AiInv, AnsweredIsBacked

\* What is backed stays backed as the logs grow.
Grown(old, new) == /\ DOMAIN old \subseteq DOMAIN new
                   /\ \A i \in DOMAIN old : new[i] = old[i]

\* An answer that has its record keeps it as the logs grow.
LEMMA BackedStays ==
    ASSUME Grown(metered, metered'), Grown(provenance, provenance'),
           NEW v, NEW r, NEW at, Backed(v, r, at)
    PROVE  Backed(v, r, at)'
BY DEF Grown, Backed

\* An appended sequence is the old one and one more.
LEMMA AppendGrows ==
    ASSUME NEW S, NEW s \in Seq(S), NEW x \in S
    PROVE  /\ Append(s, x) \in Seq(S) /\ DOMAIN s = 1..Len(s) /\ Len(s) \in Nat
           /\ DOMAIN Append(s, x) = 1..(Len(s) + 1)
           /\ Append(s, x)[Len(s) + 1] = x
           /\ \A i \in DOMAIN s : Append(s, x)[i] = s[i]
           /\ Grown(s, Append(s, x))
<1>1. /\ Append(s, x) \in Seq(S) /\ DOMAIN s = 1..Len(s) /\ Len(s) \in Nat
      /\ DOMAIN Append(s, x) = 1..(Len(s) + 1)
      /\ Append(s, x)[Len(s) + 1] = x
      /\ \A i \in DOMAIN s : Append(s, x)[i] = s[i]
  OBVIOUS
<1>2. \A i \in DOMAIN s : i \in DOMAIN Append(s, x) BY <1>1
<1> QED BY <1>1, <1>2 DEF Grown

\* An answer from the cache keeps the invariant of generation.
LEMMA GenerateCachedKeeps ==
    ASSUME AiInv, NEW v \in TemplateVersions, generateCached(v)
    PROVE  AiInv'
<1>1. /\ outputs' = [outputs EXCEPT ![v] = Cached(v)]
      /\ registered' = registered /\ templates' = templates /\ provenance' = provenance
      /\ requests' = requests /\ spend' = spend /\ metered' = metered /\ aiClock' = aiClock
  BY DEF generateCached
<1>2. PICK e \in Cached(v) : answered' = [version |-> v, request |-> e.request, at |-> aiClock]
  BY DEF generateCached
<1>3. \A f \in Cached(v) : f \in outputs[v] /\ aiClock - f.at <= CacheTtl BY DEF Cached
<1>4. \A w, r, at : Backed(w, r, at) => Backed(w, r, at)' BY <1>1 DEF Backed
<1>5. DOMAIN outputs' = TemplateVersions /\ \A w \in TemplateVersions : outputs'[w] \subseteq outputs[w]
  BY <1>1, <1>3 DEF AiInv
<1>6. \A w \in TemplateVersions : \A f \in outputs'[w] :
         f.at \in Nat /\ f.at <= aiClock' /\ Backed(w, f.request, f.at)'
  BY <1>1, <1>4, <1>5 DEF AiInv
<1>7. AnsweredIsBacked'
  <2>1. e \in outputs[v] /\ aiClock - e.at <= CacheTtl BY <1>2, <1>3
  <2>2. e.at \in Nat /\ e.at <= aiClock /\ Backed(v, e.request, e.at)
    BY <2>1 DEF AiInv
  <2>3. answered'.version = v /\ answered'.request = e.request /\ answered'.at = aiClock BY <1>2
  <2>4. CacheTtl \in Nat /\ aiClock \in Nat BY AiAssumption DEF AiAssumption, AiInv
  <2>5. answered'.at - e.at \in 0..CacheTtl BY <2>1, <2>2, <2>3, <2>4
  <2>6. Backed(answered.version, answered.request, e.at)' BY <2>2, <2>3, <1>4
  <2>7. answered'.at \in Nat BY <2>3, <2>4
  <2> QED BY <2>2, <2>5, <2>6, <2>7 DEF AnsweredIsBacked
<1>8. spend' = SumFunctionOnSet(Costs0', DOMAIN metered') BY <1>1 DEF AiInv, Costs0
<1> QED BY <1>1, <1>5, <1>6, <1>7, <1>8 DEF AiInv

\* A call of the model, whatever its outcome, keeps the invariant of generation.
LEMMA GenerateFreshKeeps ==
    ASSUME AiInv, NEW v \in TemplateVersions, NEW outcome, generateFresh(v, outcome)
    PROVE  AiInv'
<1> DEFINE request == requests + 1
           paid == {p \in AnswersBy(outcome) : Affordable(outcome)}
           allowed == \E p \in paid : outcome[p] = "allowed"
           keeps == Remembered(paid # {}, allowed)
<1>1. /\ requests' = request
      /\ outputs' = [outputs EXCEPT ![v] = IF keeps THEN {[request |-> request, at |-> aiClock]} ELSE {}]
      /\ registered' = registered /\ templates' = templates /\ aiClock' = aiClock
  BY DEF generateFresh
<1>2. \/ paid = {} /\ spend' = spend /\ metered' = metered
      \/ \E p \in paid : /\ spend' = spend + CostOf[p]
                         /\ metered' = Append(metered, [request |-> request, cost |-> CostOf[p]])
  BY DEF generateFresh
<1>4. /\ provenance' = IF allowed
                       THEN Append(provenance, [request |-> request, version |-> v, at |-> aiClock])
                       ELSE provenance
      /\ answered' = IF allowed THEN [version |-> v, request |-> request, at |-> aiClock] ELSE answered
  BY DEF generateFresh
<1>5. (keeps => allowed) /\ (allowed => paid # {}) BY DEF Remembered
<1>6. \A p \in paid : CostOf[p] \in Nat /\ spend + CostOf[p] <= SpendBudget
  <2> SUFFICES ASSUME NEW p \in paid PROVE CostOf[p] \in Nat /\ spend + CostOf[p] <= SpendBudget
    OBVIOUS
  <2>1. p \in AnswersBy(outcome) /\ Affordable(outcome) OBVIOUS
  <2>2. p \in AiProviders /\ p \in registered BY <2>1 DEF AnswersBy, AiInv
  <2>3. \A q \in AiProviders : PriorityOf[q] \in Int /\ CostOf[q] \in Nat
    BY AiAssumption DEF AiAssumption
  <2>4. \A q \in AnswersBy(outcome) : PriorityOf[p] <= PriorityOf[q]
    <3> SUFFICES ASSUME NEW q \in AnswersBy(outcome), ~(PriorityOf[p] <= PriorityOf[q]) PROVE FALSE
      OBVIOUS
    <3>1. q \in registered /\ q \in AiProviders /\ outcome[q] # "throws" BY DEF AnswersBy, AiInv
    <3>2. PriorityOf[q] < PriorityOf[p] BY <3>1, <2>2, <2>3
    <3> QED BY <3>1, <3>2, <2>1 DEF AnswersBy
  <2>5. p \in InTurn(outcome) BY <2>2, <2>4 DEF InTurn
  <2> QED BY <2>1, <2>2, <2>3, <2>5 DEF Affordable
<1> HIDE DEF paid, keeps
<1> DEFINE PaidFor == /\ metered' \in Seq(Bills) /\ Grown(metered, metered')
                      /\ spend' = SumFunctionOnSet(Costs0', DOMAIN metered')
                      /\ spend' \in Nat /\ spend' <= SpendBudget
                      /\ \A i \in DOMAIN metered' : metered'[i].request <= requests'
                      /\ \A i, j \in DOMAIN metered' : i # j => metered'[i].request # metered'[j].request
                      /\ paid # {} => \E i \in DOMAIN metered' : metered'[i].request = request
<1>a. /\ requests \in Nat /\ request \in Nat /\ request > requests /\ requests' = request
      /\ \A i \in DOMAIN metered : metered[i].request \in Nat /\ metered[i].request <= requests
  <2>1. requests \in Nat /\ metered \in Seq(Bills) /\ \A i \in DOMAIN metered : metered[i].request <= requests
    BY DEF AiInv
  <2>2. \A i \in DOMAIN metered : metered[i] \in Bills BY <2>1
  <2> QED BY <1>1, <2>1, <2>2 DEF Bills
<1>7. PaidFor
  <2>1. CASE paid = {} /\ spend' = spend /\ metered' = metered
    <3>1. Costs0' = Costs0 BY <2>1 DEF Costs0
    <3>2. spend' = SumFunctionOnSet(Costs0', DOMAIN metered') BY <2>1, <3>1 DEF AiInv
    <3>4. \A i \in DOMAIN metered : metered[i].request <= requests' BY <1>a
    <3> QED BY <2>1, <3>2, <3>4 DEF AiInv, Grown
  <2>2. ASSUME NEW p \in paid, spend' = spend + CostOf[p],
               metered' = Append(metered, [request |-> request, cost |-> CostOf[p]])
        PROVE  PaidFor
    <3> DEFINE n == Len(metered)
               new == [request |-> request, cost |-> CostOf[p]]
    <3>1. new \in Bills /\ new.request = request /\ new.cost = CostOf[p]
      BY <1>6, <1>a DEF Bills
    <3>2. /\ metered \in Seq(Bills) BY DEF AiInv
    <3> HIDE DEF new
    <3>3. metered' = Append(metered, new) BY <2>2 DEF new
    <3>4. /\ metered' \in Seq(Bills) /\ DOMAIN metered = 1..n /\ n \in Nat
          /\ DOMAIN metered' = 1..(n + 1) /\ metered'[n + 1] = new
          /\ \A i \in 1..n : metered'[i] = metered[i]
          /\ Grown(metered, metered')
      BY <3>1, <3>2, <3>3, AppendGrows
    <3>5. \A i \in 1..(n + 1) : i = n + 1 \/ i \in 1..n BY <3>4
    <3>6. \A i \in DOMAIN metered' : metered'[i].request <= requests'
      BY <3>1, <3>4, <3>5, <1>a
    <3>7. \A i, j \in DOMAIN metered' : i # j => metered'[i].request # metered'[j].request
      <4> SUFFICES ASSUME NEW i \in 1..(n + 1), NEW j \in 1..(n + 1), i # j
                   PROVE  metered'[i].request # metered'[j].request
        BY <3>4
      <4>1. CASE i \in 1..n /\ j \in 1..n
        <5>1. metered[i].request # metered[j].request BY <4>1, <3>4 DEF AiInv
        <5> QED BY <4>1, <3>4, <5>1
      <4>2. CASE i = n + 1 /\ j \in 1..n BY <4>2, <3>1, <3>4, <1>a
      <4>3. CASE j = n + 1 /\ i \in 1..n BY <4>3, <3>1, <3>4, <1>a
      <4> QED BY <3>5, <4>1, <4>2, <4>3
    <3>8. spend' = SumFunctionOnSet(Costs0', DOMAIN metered')
      <4>1. PICK f, g : f = Costs0 /\ g = Costs0' OBVIOUS
      <4>2. \A i \in 1..(n + 1) : g[i] = metered'[i].cost BY <4>1, <3>4 DEF Costs0
      <4>3. \A i \in 1..n : f[i] = metered[i].cost BY <4>1, <3>4 DEF Costs0
      <4>4. \A i \in 1..n : f[i] \in Nat
        <5>1. \A i \in 1..n : metered[i] \in Bills BY <3>2, <3>4
        <5> QED BY <5>1, <4>3 DEF Bills
      <4>5. \A i \in 1..n : f[i] = g[i] BY <4>2, <4>3, <3>4
      <4>6. g[n + 1] = CostOf[p] /\ g[n + 1] \in Nat BY <4>2, <3>1, <3>4, <1>6
      <4>7. \A i \in 1..(n + 1) : g[i] \in Int BY <4>4, <4>5, <4>6, <3>5
      <4>8. SumFunctionOnSet(g, 1..(n + 1)) = SumFunctionOnSet(g, 1..n) + g[n + 1]
        <5>1. 1 \in Nat /\ 1 <= n + 1 BY <3>4
        <5> QED BY <5>1, <4>7, <3>4, SumToNext
      <4>9. SumFunctionOnSet(f, 1..n) = SumFunctionOnSet(g, 1..n) BY <4>4, <4>5, <4>7, <3>4, <3>5, SumsOfStretch
      <4>10. spend = SumFunctionOnSet(f, 1..n) BY <4>1, <3>4 DEF AiInv
      <4>11. spend' = SumFunctionOnSet(g, 1..(n + 1)) BY <4>6, <4>8, <4>9, <4>10, <2>2
      <4> QED BY <4>1, <4>11, <3>4
    <3>9. spend' \in Nat /\ spend' <= SpendBudget BY <2>2, <1>6 DEF AiInv
    <3>10. \E i \in DOMAIN metered' : metered'[i].request = request BY <3>1, <3>4
    <3> QED BY <3>4, <3>6, <3>7, <3>8, <3>9, <3>10
  <2> QED BY <1>2, <2>1, <2>2
<1> HIDE DEF PaidFor
<1>b. aiClock \in Nat /\ provenance \in Seq(Origins) BY DEF AiInv
<1>8. /\ provenance' \in Seq(Origins)
      /\ Grown(provenance, provenance')
      /\ \A r, now : r = request /\ now = aiClock /\ allowed => Backed(v, r, now)'
  <2>1. CASE ~allowed BY <2>1, <1>4, <1>b DEF Grown
  <2>2. CASE allowed
    <3> DEFINE new == [request |-> request, version |-> v, at |-> aiClock]
    <3>1. new \in Origins
          /\ new.request = request /\ new.version = v /\ new.at = aiClock BY <1>a, <1>b DEF Origins
    <3> HIDE DEF new
    <3>2. provenance' = Append(provenance, new) BY <2>2, <1>4 DEF new
    <3>3. /\ provenance' \in Seq(Origins)
          /\ Len(provenance) + 1 \in DOMAIN provenance' /\ provenance'[Len(provenance) + 1] = new
          /\ Grown(provenance, provenance')
      BY <3>1, <3>2, <1>b, AppendGrows
    <3>4. \E i \in DOMAIN metered' : metered'[i].request = request BY <1>5, <1>7, <2>2 DEF PaidFor
    <3> QED BY <3>1, <3>3, <3>4 DEF Backed
  <2> QED BY <2>1, <2>2
<1>9. \A w, r, at : Backed(w, r, at) => Backed(w, r, at)'
  <2>1. Grown(metered, metered') BY <1>7 DEF PaidFor
  <2> QED BY <2>1, <1>8, BackedStays
<1>10. DOMAIN outputs' = TemplateVersions /\ \A w \in TemplateVersions : \A e \in outputs'[w] :
          e.at \in Nat /\ e.at <= aiClock' /\ Backed(w, e.request, e.at)'
  <2>1. \A w \in TemplateVersions : w # v => outputs'[w] = outputs[w] BY <1>1 DEF AiInv
  <2>2. outputs'[v] = IF keeps THEN {[request |-> request, at |-> aiClock]} ELSE {} BY <1>1 DEF AiInv
  <2>3. \A e \in outputs'[v] : e.request = request /\ e.at = aiClock /\ allowed
    <3>1. \A e \in outputs'[v] : e = [request |-> request, at |-> aiClock] /\ keeps BY <2>2
    <3> QED BY <3>1, <1>5
  <2>4. \A e \in outputs'[v] : e.at \in Nat /\ e.at <= aiClock' /\ Backed(v, e.request, e.at)'
    <3>1. PICK now, r : now = aiClock /\ r = request OBVIOUS
    <3>2. allowed => Backed(v, r, now)' BY <3>1, <1>8
    <3> QED BY <2>3, <3>1, <3>2, <1>1, <1>b
  <2>5. ASSUME NEW w \in TemplateVersions, w # v, NEW e \in outputs'[w]
        PROVE  e.at \in Nat /\ e.at <= aiClock' /\ Backed(w, e.request, e.at)'
    <3>1. e \in outputs[w] BY <2>1, <2>5
    <3> QED BY <3>1, <1>1, <1>9 DEF AiInv
  <2>6. DOMAIN outputs' = TemplateVersions BY <1>1 DEF AiInv
  <2> QED BY <2>4, <2>5, <2>6
<1>11. AnsweredIsBacked'
  <2>1. CASE allowed
    <3>1. answered'.version = v /\ answered'.request = request /\ answered'.at = aiClock BY <2>1, <1>4
    <3>2. CacheTtl \in Nat BY AiAssumption DEF AiAssumption
    <3>3. answered'.at - aiClock \in 0..CacheTtl BY <3>1, <3>2, <1>b
    <3>4. PICK now \in Nat : now = aiClock BY <1>b
    <3>5. Backed(answered.version, answered.request, now)' BY <3>1, <3>4, <1>8, <2>1
    <3> QED BY <3>1, <3>3, <3>4, <3>5, <1>b DEF AnsweredIsBacked
  <2>2. CASE ~allowed
    <3>1. answered' = answered BY <2>2, <1>4
    <3>2. AnsweredIsBacked BY DEF AiInv
    <3> QED BY <3>1, <3>2, <1>9 DEF AnsweredIsBacked
  <2> QED BY <2>1, <2>2
<1>12. registered' \subseteq AiProviders /\ templates' \in Seq(TemplateVersions)
       /\ requests' \in Nat /\ aiClock' \in Nat
  BY <1>1, <1>a DEF AiInv
<1> QED BY <1>7, <1>8, <1>10, <1>11, <1>12 DEF AiInv, PaidFor

\* Every step of generation keeps its invariant.
LEMMA AiStepInv == AiInv /\ [AiNext]_aiVars => AiInv'
<1> SUFFICES ASSUME AiInv, [AiNext]_aiVars PROVE AiInv' OBVIOUS
<1> DEFINE Logs == /\ outputs' = outputs /\ provenance' = provenance /\ metered' = metered
                   /\ spend' = spend /\ requests' = requests /\ answered' = answered
<1>0. ASSUME Logs, registered' \subseteq AiProviders, templates' \in Seq(TemplateVersions),
             aiClock' \in Nat, aiClock' >= aiClock
      PROVE  AiInv'
  <2>1. \A w, r, at : Backed(w, r, at) => Backed(w, r, at)' BY <1>0 DEF Backed
  <2>2. AnsweredIsBacked' BY <1>0, <2>1 DEF AiInv, AnsweredIsBacked
  <2>3. \A v \in TemplateVersions : \A e \in outputs'[v] :
           e.at \in Nat /\ e.at <= aiClock' /\ Backed(v, e.request, e.at)'
    BY <1>0, <2>1 DEF AiInv
  <2>4. spend' = SumFunctionOnSet(Costs0', DOMAIN metered') BY <1>0 DEF AiInv, Costs0
  <2> QED BY <1>0, <2>2, <2>3, <2>4 DEF AiInv
<1>a. /\ registered \subseteq AiProviders /\ templates \in Seq(TemplateVersions)
      /\ aiClock \in Nat
  BY DEF AiInv
<1>1. CASE UNCHANGED aiVars BY <1>1, <1>0, <1>a DEF aiVars
<1>2. ASSUME NEW p \in AiProviders, registerProvider(p) PROVE AiInv'
  BY <1>2, <1>0, <1>a DEF registerProvider
<1>3. ASSUME NEW v \in TemplateVersions, registerPromptTemplate(v) PROVE AiInv'
  BY <1>3, <1>0, <1>a DEF registerPromptTemplate
<1>4. CASE registerAgent BY <1>4, <1>0, <1>a DEF registerAgent
<1>5. CASE aiTime BY <1>5, <1>0, <1>a DEF aiTime
<1>6. ASSUME NEW outcome, NEW v, generate(v, outcome) PROVE AiInv'
  <2>1. v \in TemplateVersions
    <3>1. Contains(templates, v) BY <1>6 DEF generate
    <3> QED BY <3>1, <1>a DEF Contains
  <2> QED BY <1>6, <2>1, GenerateCachedKeeps, GenerateFreshKeeps DEF generate
<1>7. ASSUME NEW outcome, runAgent(outcome) PROVE AiInv'
  BY <1>7, <1>6 DEF runAgent
<1> QED BY <1>1, <1>2, <1>3, <1>4, <1>5, <1>6, <1>7 DEF AiNext

\* The invariant of generation says that its accounts add up.
LEMMA AiInvTells == AiInv => GenerationAddsUp
<1> SUFFICES ASSUME AiInv PROVE GenerationAddsUp OBVIOUS
<1>1. DOMAIN metered = 1..Len(metered) /\ DOMAIN provenance = 1..Len(provenance) BY DEF AiInv
<1>2. SpendIsMetered BY <1>1 DEF AiInv, SpendIsMetered, Costs0
<1>3. AnswersAreAccounted
  <2> SUFFICES ASSUME answered # NoAnswer
               PROVE  /\ \E i \in 1..Len(metered) : metered[i].request = answered.request
                      /\ \E i \in 1..Len(provenance) :
                            /\ provenance[i].request = answered.request
                            /\ provenance[i].version = answered.version
                            /\ answered.at - provenance[i].at \in 0..CacheTtl
    BY DEF AnswersAreAccounted
  <2>1. PICK at \in Nat : /\ Backed(answered.version, answered.request, at)
                          /\ answered.at - at \in 0..CacheTtl
    BY DEF AiInv, AnsweredIsBacked
  <2> QED BY <1>1, <2>1 DEF Backed
<1> QED BY <1>2, <1>3 DEF GenerationAddsUp

\* Generation in any execution of its own: what is spent is what was metered and
\* stays within the budget, and what is handed out was paid for and allowed.
THEOREM GenerationStaysAccounted == AiSpec => []GenerationAddsUp
<1>1. AiSpec => []AiInv
  BY AiStarts, AiStepInv, PTL DEF AiSpec
<1> QED BY <1>1, AiInvTells, PTL

-----------------------------------------------------------------------------
(* Scripts.                                                                *)

Labels == {"hook", "problem", "insight", "solution", "demo", "proof", "cta", "disclosure"}

\* A script has seven or eight sections, and ends in its disclosure.
LEMMA SectionsAre ==
    ASSUME NEW g
    PROVE  \E n \in {7, 8} : /\ Len(Sections(g)) = n /\ DOMAIN Sections(g) = 1..n
                             /\ \A i \in 1..n : Sections(g)[i] \in Labels
                             /\ Sections(g)[n] = "disclosure"
<1>1. CASE g.proof
  <2>1. Sections(g) = <<"hook", "problem", "insight", "solution", "demo", "proof", "cta", "disclosure">>
    BY <1>1 DEF Sections
  <2>2. Len(Sections(g)) = 8 /\ DOMAIN Sections(g) = 1..8 /\ Sections(g)[8] = "disclosure" BY <2>1
  <2>3. Sections(g) \in Seq(Labels) BY <2>1 DEF Labels
  <2>4. PICK n \in {7, 8} : n = 8 OBVIOUS
  <2>5. Len(Sections(g)) = n /\ Sections(g)[n] = "disclosure" BY <2>2, <2>4
  <2>6. PICK s : s = Sections(g) OBVIOUS
  <2>7. DOMAIN s = 1..Len(s) /\ \A i \in 1..Len(s) : s[i] \in Labels BY <2>3, <2>6
  <2> QED BY <2>5, <2>6, <2>7
<1>2. CASE ~g.proof
  <2>1. Sections(g) = <<"hook", "problem", "insight", "solution", "demo", "cta", "disclosure">>
    BY <1>2 DEF Sections
  <2>2. Len(Sections(g)) = 7 /\ DOMAIN Sections(g) = 1..7 /\ Sections(g)[7] = "disclosure" BY <2>1
  <2>3. Sections(g) \in Seq(Labels) BY <2>1 DEF Labels
  <2>4. PICK n \in {7, 8} : n = 7 OBVIOUS
  <2>5. Len(Sections(g)) = n /\ Sections(g)[n] = "disclosure" BY <2>2, <2>4
  <2>6. PICK s : s = Sections(g) OBVIOUS
  <2>7. DOMAIN s = 1..Len(s) /\ \A i \in 1..Len(s) : s[i] \in Labels BY <2>3, <2>6
  <2> QED BY <2>5, <2>6, <2>7
<1> QED BY <1>1, <1>2

\* Every section has a weight above zero.
LEMMA WeightsAre == \A l \in Labels : Weight[l] \in Nat /\ Weight[l] > 0
BY DEF Labels, Weight

\* The share of a section in the budget is a whole number.
LEMMA SharesAre ==
    ASSUME NEW g, NEW budget \in Nat, NEW i \in 1..Len(Sections(g))
    PROVE  (Weight[Sections(g)[i]] * budget) \div WeightTotal(Sections(g)) \in Int
<1>1. PICK s : s = Sections(g) OBVIOUS
<1>2. PICK n \in {7, 8} : /\ Len(s) = n /\ DOMAIN s = 1..n /\ \A k \in 1..n : s[k] \in Labels
  BY <1>1, SectionsAre
<1>3. PICK f : f = [k \in DOMAIN s |-> Weight[s[k]]] OBVIOUS
<1>4. \A k \in 1..n : f[k] = Weight[s[k]] /\ f[k] \in Nat /\ f[k] > 0 BY <1>2, <1>3, WeightsAre
<1>5. n \in Int /\ 1 \in 1..n /\ n \in Nat BY <1>2
<1>6. IsFiniteSet(1..n) BY <1>5, FS_Interval
<1>7. SumFunctionOnSet(f, 1..n) = f[1] + SumFunctionOnSet(f, (1..n) \ {1})
  <2>1. \A k \in 1..n : f[k] \in Int BY <1>4
  <2> QED BY <2>1, <1>5, <1>6, SumWithout
<1>8. SumFunctionOnSet(f, (1..n) \ {1}) \in Nat
  <2> DEFINE R == (1..n) \ {1}
  <2>1. R \subseteq 1..n /\ \A k \in R : f[k] \in Nat BY <1>4
  <2>2. IsFiniteSet(R) BY <2>1, <1>6, FS_Subset
  <2> HIDE DEF R
  <2>3. SumFunctionOnSet(f, R) \in Nat BY <2>1, <2>2, SumOfNats
  <2> QED BY <2>3 DEF R
<1>9. f[1] \in Nat /\ f[1] > 0 BY <1>4, <1>5
<1>10. PICK total \in Nat : total = SumFunctionOnSet(f, 1..n) /\ total > 0 BY <1>7, <1>8, <1>9
<1>11. WeightTotal(s) = total BY <1>2, <1>3, <1>10, Zenon DEF WeightTotal
<1>12. PICK part \in Nat : part = Weight[s[i]] * budget
  <2>1. Weight[s[i]] \in Nat BY <1>1, <1>2, WeightsAre
  <2> QED BY <2>1
<1>13. part \div total \in Int BY <1>10
<1> QED BY <1>1, <1>11, <1>12, <1>13

\* A section that has room before the others takes at least a second of it and
\* leaves one to each that follows.
LEMMA SectionFits ==
    ASSUME NEW g, NEW budget \in Nat, NEW i \in 1..Len(Sections(g)), NEW cursor \in Nat,
           cursor <= budget - (Len(Sections(g)) - (i - 1))
    PROVE  LET n == Len(Sections(g))
               seconds == SectionSeconds(Sections(g), i, cursor, budget)
           IN  /\ seconds \in Nat /\ seconds >= 1 /\ cursor + seconds <= budget - (n - i)
               /\ i = n => cursor + seconds = budget
<1>1. PICK n \in {7, 8} : Len(Sections(g)) = n BY SectionsAre
<1>2. PICK s : s = Sections(g) OBVIOUS
<1>3. PICK share \in Int : share = (Weight[s[i]] * budget) \div WeightTotal(s) BY <1>2, SharesAre
<1>4. PICK room \in Int : room = budget - cursor - (n - i) BY <1>1
<1>5. room >= 1 /\ i \in 1..n BY <1>1, <1>4
<1>6. PICK seconds : seconds = SectionSeconds(s, i, cursor, budget) OBVIOUS
<1>7. CASE i = n
  <2>1. seconds = budget - cursor BY <1>1, <1>2, <1>6, <1>7 DEF SectionSeconds
  <2> QED BY <2>1, <1>1, <1>2, <1>4, <1>5, <1>6, <1>7
<1>8. CASE i # n
  <2>1. PICK one \in Int : one = 1 OBVIOUS
  <2>2. PICK longer : longer = Max({one, share}) OBVIOUS
  <2>3. longer \in {one, share} /\ longer >= one BY <2>2, MaxOfTwo
  <2>4. longer \in Int BY <2>3
  <2>5. PICK fits : fits = Min({longer, room}) OBVIOUS
  <2>6. fits \in {longer, room} /\ fits <= room BY <2>4, <2>5, MinOfTwo
  <2>7. fits \in Int /\ fits >= 1 /\ fits <= room BY <2>1, <2>3, <2>4, <2>6, <1>5
  <2>8. seconds = Min({Max({1, (Weight[s[i]] * budget) \div WeightTotal(s)}), budget - cursor - (Len(s) - i)})
    BY <1>1, <1>2, <1>6, <1>8 DEF SectionSeconds
  <2>9. seconds = fits
    <3>1. Len(s) = n BY <1>1, <1>2
    <3>2. seconds = Min({Max({one, share}), room}) BY <2>1, <2>8, <3>1, <1>3, <1>4
    <3> QED BY <3>2, <2>2, <2>5
  <2> QED BY <2>7, <2>9, <1>1, <1>2, <1>4, <1>5, <1>6, <1>8
<1> QED BY <1>7, <1>8

EndStep(s, budget, i, cursor) == cursor + SectionSeconds(s, i, cursor, budget)
AreEnds(f, s, budget) ==
    f = [i \in 0..Len(s) |-> IF i = 0 THEN 0 ELSE EndStep(s, budget, i, f[i - 1])]

\* The ends of the sections are the function their recursion chooses.
LEMMA EndsAreEnds == \A s, budget : Ends(s, budget) = (CHOOSE f : AreEnds(f, s, budget))
BY DEF Ends, AreEnds, EndStep

\* Every section lasts, and they fill the budget.
LEMMA EndsFill ==
    ASSUME NEW g, NEW budget \in Nat, budget >= 8
    PROVE  LET n == Len(Sections(g))
               end == Ends(Sections(g), budget)
           IN  /\ end[0] = 0 /\ end[n] = budget
               /\ \A i \in 1..n : end[i - 1] \in Nat /\ end[i] \in Nat /\ end[i] - end[i - 1] >= 1
<1>1. PICK s : s = Sections(g) OBVIOUS
<1>2. PICK m \in {7, 8} : Len(s) = m BY <1>1, SectionsAre
<1>a. m \in Nat /\ m > 0 BY <1>2
<1> DEFINE Stage(k) == {c \in Nat : c <= budget - (m - k)}
           T == [k \in 0..m |-> Stage(k)]
           step == [k \in 1..m |-> [c \in Stage(k - 1) |-> EndStep(s, budget, k, c)]]
<1>3. ASSUME NEW k \in 1..m, NEW c \in Stage(k - 1)
      PROVE  /\ EndStep(s, budget, k, c) \in Stage(k)
             /\ EndStep(s, budget, k, c) - c >= 1
             /\ k = m => EndStep(s, budget, k, c) = budget
  <2>1. c \in Nat /\ c <= budget - (m - (k - 1)) BY <1>3
  <2>2. k \in 1..Len(Sections(g)) /\ c <= budget - (Len(Sections(g)) - (k - 1)) BY <1>1, <1>2, <2>1
  <2>3. PICK seconds : seconds = SectionSeconds(s, k, c, budget) OBVIOUS
  <2>4. /\ seconds \in Nat /\ seconds >= 1 /\ c + seconds <= budget - (m - k)
        /\ k = m => c + seconds = budget
    BY <2>1, <2>2, <2>3, <1>1, <1>2, SectionFits
  <2>5. EndStep(s, budget, k, c) = c + seconds BY <2>3 DEF EndStep
  <2> QED BY <2>1, <2>4, <2>5
<1>4. 0 \in Stage(0) BY <1>2
<1>5. (\A k \in 0..m : T[k] = Stage(k)) /\ \A k \in 1..m : \A c \in Stage(k - 1) : step[k][c] = EndStep(s, budget, k, c)
  OBVIOUS
<1>b. \A k \in 0..m : \A c \in Stage(k) : c \in Nat OBVIOUS
<1> HIDE DEF Stage
<1>6. Passes(m, T, 0, step)
  <2>1. 0 \in 0..m BY <1>a
  <2>2. 0 \in T[0] BY <2>1, <1>4, <1>5
  <2>3. ASSUME NEW k \in 1..m, NEW x \in T[k - 1] PROVE step[k][x] \in T[k]
    <3>1. k - 1 \in 0..m /\ k \in 0..m BY <1>a
    <3>2. x \in Stage(k - 1) /\ T[k] = Stage(k) BY <3>1, <1>5
    <3>3. step[k][x] = EndStep(s, budget, k, x) BY <3>2, <1>5
    <3> QED BY <3>2, <3>3, <1>3
  <2> HIDE DEF T, step
  <2> QED BY <2>2, <2>3, <1>a DEF Passes
<1> HIDE DEF T, step
<1>7. PICK f : PassFrom(f, m, T, 0, step) BY <1>6, PassStarted
<1>8. /\ f[0] = 0
      /\ \A k \in 1..m : f[k] = step[k][f[k - 1]]
      /\ \A k \in 0..m : f[k] \in T[k]
  BY <1>7 DEF PassFrom
<1>9. \A k \in 0..m : f[k] \in Stage(k) BY <1>5, <1>8
<1>10. \A k \in 1..m : k - 1 \in 0..m /\ f[k] = EndStep(s, budget, k, f[k - 1])
  <2> SUFFICES ASSUME NEW k \in 1..m PROVE k - 1 \in 0..m /\ f[k] = EndStep(s, budget, k, f[k - 1]) OBVIOUS
  <2>1. k - 1 \in 0..m BY <1>a
  <2>2. f[k - 1] \in Stage(k - 1) BY <2>1, <1>9
  <2> QED BY <2>1, <2>2, <1>5, <1>8
<1>11. PICK h : h = [k \in 0..m |-> IF k = 0 THEN 0 ELSE EndStep(s, budget, k, f[k - 1])] OBVIOUS
<1>12. \A k \in 0..m : h[k] = f[k]
  <2> SUFFICES ASSUME NEW k \in 0..m PROVE h[k] = f[k] OBVIOUS
  <2>1. CASE k = 0 BY <2>1, <1>8, <1>11
  <2>2. CASE k # 0
    <3>1. k \in 1..m BY <2>2, <1>a
    <3> QED BY <2>2, <3>1, <1>10, <1>11
  <2> QED BY <2>1, <2>2
<1>13. AreEnds(h, s, budget)
  <2>1. \A k \in 0..m : k # 0 => h[k - 1] = f[k - 1]
    <3> SUFFICES ASSUME NEW k \in 0..m, k # 0 PROVE h[k - 1] = f[k - 1] OBVIOUS
    <3>1. k - 1 \in 0..m BY <1>a
    <3> QED BY <3>1, <1>12
  <2>2. h = [k \in 0..m |-> IF k = 0 THEN 0 ELSE EndStep(s, budget, k, h[k - 1])]
    BY <1>11, <2>1
  <2> QED BY <2>2, <1>2 DEF AreEnds
<1>14. PICK e : e = (CHOOSE x : AreEnds(x, s, budget)) OBVIOUS
<1>15. AreEnds(e, s, budget) BY <1>13, <1>14, Zenon
<1>16. e[0] = 0 /\ \A k \in 1..m : e[k] = EndStep(s, budget, k, e[k - 1])
  BY <1>2, <1>a, <1>15 DEF AreEnds
<1>17. \A k \in 1..m : e[k - 1] = f[k - 1] => e[k] = f[k] BY <1>10, <1>16
<1>18. e[0] = f[0] BY <1>8, <1>16
<1>19. \A k \in 0..m : e[k] = f[k] BY <1>17, <1>18, <1>a, PassesAgree
<1>20. ASSUME NEW k \in 1..m
       PROVE  /\ e[k - 1] \in Nat /\ e[k] \in Nat /\ e[k] - e[k - 1] >= 1
              /\ k = m => e[k] = budget
  <2>1. k - 1 \in 0..m /\ k \in 0..m BY <1>a
  <2>2. e[k - 1] \in Stage(k - 1) /\ e[k] \in Stage(k) BY <2>1, <1>9, <1>19
  <2>3. e[k] = EndStep(s, budget, k, e[k - 1]) BY <1>16
  <2>4. e[k - 1] \in Nat /\ e[k] \in Nat BY <2>1, <2>2, <1>b
  <2> QED BY <2>2, <2>3, <2>4, <1>3
<1>21. Ends(s, budget) = e BY <1>14, EndsAreEnds
<1>22. m \in 1..m BY <1>a
<1> QED BY <1>1, <1>2, <1>16, <1>20, <1>21, <1>22

\* What a script is, for the briefs there are.
ScriptHolds(s) ==
    /\ s.brief \in 1..Len(briefs)
    /\ Len(s.scenes) \in Nat /\ Len(s.scenes) > 0
    /\ s.scenes[Len(s.scenes)].label = "disclosure"
    /\ s.scenes[Len(s.scenes)].end = s.seconds
    /\ ValidTimestamps(s.scenes)
    /\ \A n \in 1..Len(s.scenes) : s.scenes[n].end - s.scenes[n].start >= 1
    /\ \A f \in briefs[s.brief].unsafe : f \notin HookTemplates[(s.hook % 13) + 1]

\* A draft the gate has nothing against.
DraftIsClean(d) ==
    /\ d.banned + d.pressure = 0 /\ ~d.superlative
    /\ d.social => d.disclosed

ShowcaseRecords == [package : Packages, posted : BOOLEAN]
KeyOf(i) == ShowcaseKey(showcases[i].package)

\* Scripts fill their seconds, approved drafts are clean, and no showcase is doubled.
ContentInv ==
    /\ briefs \in Seq(Goods)
    /\ \E S : scripts \in Seq(S)
    /\ \A i \in 1..Len(scripts) : ScriptHolds(scripts[i])
    /\ refusedBoards = {}
    /\ \A d \in approvedDrafts : DraftIsClean(d)
    /\ showcases \in Seq(ShowcaseRecords)
    /\ \A i, j \in 1..Len(showcases) : i # j => KeyOf(i) # KeyOf(j)

\* The content factory starts within its invariant.
LEMMA ContentStarts == ContentInit => ContentInv
<1> SUFFICES ASSUME ContentInit PROVE ContentInv OBVIOUS
<1>1. /\ briefs = <<>> /\ scripts = <<>> /\ refusedBoards = {} /\ approvedDrafts = {} /\ showcases = <<>>
  BY DEF ContentInit
<1>2. scripts \in Seq({}) /\ Len(scripts) = 0 /\ Len(showcases) = 0 BY <1>1
<1> QED BY <1>1, <1>2 DEF ContentInv

\* A step that adds no script leaves what the scripts hold.
LEMMA ScriptsStay ==
    ASSUME ContentInv, scripts' = scripts, Len(briefs') \in Nat, Len(briefs') >= Len(briefs),
           \A i \in 1..Len(briefs) : briefs'[i] = briefs[i]
    PROVE  (\E S : scripts' \in Seq(S)) /\ \A i \in 1..Len(scripts') : ScriptHolds(scripts[i])'
<1>1. Len(briefs) \in Nat BY DEF ContentInv
<1>2. ASSUME NEW i \in 1..Len(scripts) PROVE ScriptHolds(scripts[i])'
  <2>1. ScriptHolds(scripts[i]) BY DEF ContentInv
  <2>2. scripts[i].brief \in 1..Len(briefs') /\ briefs'[scripts[i].brief] = briefs[scripts[i].brief]
    BY <2>1, <1>1 DEF ScriptHolds
  <2> QED BY <2>1, <2>2 DEF ScriptHolds, ValidTimestamps
<1> QED BY <1>2 DEF ContentInv

\* A generated script keeps the factory's invariant: its sections fill its seconds.
LEMMA GenerateScriptKeeps ==
    ASSUME ContentInv, NEW b \in DOMAIN briefs, NEW format \in DOMAIN ScriptFormats, NEW hook,
           generateScript(b, format, hook)
    PROVE  ContentInv'
<1>1. PICK g, sections, budget, end, scenes :
         /\ g = briefs[b] /\ sections = Sections(g) /\ budget = ScriptFormats[format]
         /\ end = Ends(sections, budget)
         /\ scenes = [i \in 1..Len(sections) |->
                         [label |-> sections[i], start |-> end[i - 1], end |-> end[i]]]
  OBVIOUS
<1>2. PICK new : new = [brief |-> b, seconds |-> budget, hook |-> hook, scenes |-> scenes] OBVIOUS
<1>3. /\ hook \in generateHooks(g, 20) /\ scripts' = Append(scripts, new)
      /\ UNCHANGED <<briefs, boards, videoJobs, approvedDrafts, showcases, refusedBoards>>
  BY <1>1, <1>2 DEF generateScript
<1>4. budget \in Nat /\ budget >= 8 BY <1>1, ContentAssumption DEF ContentAssumption
<1>5. PICK n \in {7, 8} : /\ Len(sections) = n /\ sections[n] = "disclosure"
  BY <1>1, SectionsAre
<1>6. /\ end[0] = 0 /\ end[n] = budget
      /\ \A i \in 1..n : end[i - 1] \in Nat /\ end[i] \in Nat /\ end[i] - end[i - 1] >= 1
  BY <1>1, <1>4, <1>5, EndsFill
<1>7. /\ \A i \in 1..n : scenes[i].label = sections[i] /\ scenes[i].start = end[i - 1] /\ scenes[i].end = end[i]
      /\ Len(scenes) = n /\ n \in Nat /\ n > 0 /\ n \in 1..n
  BY <1>1, <1>5
<1>8. ValidTimestamps(scenes)
  <2> SUFFICES ASSUME NEW i \in 1..n
               PROVE  /\ scenes[i].start = IF i = 1 THEN 0 ELSE scenes[i - 1].end
                      /\ scenes[i].end > scenes[i].start
    BY <1>7 DEF ValidTimestamps
  <2>1. scenes[i].end > scenes[i].start BY <1>6, <1>7
  <2>2. CASE i = 1
    <3>1. i - 1 = 0 BY <2>2
    <3>2. scenes[i].start = end[i - 1] BY <1>7
    <3> QED BY <2>1, <2>2, <3>1, <3>2, <1>6
  <2>3. CASE i # 1
    <3>1. i - 1 \in 1..n BY <2>3, <1>7
    <3> QED BY <2>1, <2>3, <3>1, <1>7
  <2> QED BY <2>2, <2>3
<1>9. \A f \in g.unsafe : f \notin HookTemplates[(hook % 13) + 1]
  <2>1. TemplateAt(hook) \cap g.unsafe = {} BY <1>3 DEF generateHooks, SafeHooks, UnsafeHook
  <2>2. Len(HookTemplates) = 13 BY DEF HookTemplates
  <2>3. TemplateAt(hook) = HookTemplates[(hook % 13) + 1] BY <2>2 DEF TemplateAt
  <2> QED BY <2>1, <2>3
<1>10. b \in 1..Len(briefs) /\ Len(briefs) \in Nat BY DEF ContentInv
<1>11. ScriptHolds(new)'
  <2>1. new.brief = b /\ new.seconds = budget /\ new.hook = hook /\ new.scenes = scenes BY <1>2
  <2>2. briefs' = briefs BY <1>3
  <2>3. \A i \in 1..n : scenes[i].end - scenes[i].start >= 1 BY <1>6, <1>7
  <2>4. scenes[n].label = "disclosure" /\ scenes[n].end = budget BY <1>5, <1>6, <1>7
  <2>5. g = briefs[b] BY <1>1
  <2>6. ScriptHolds(new)
    <3>1. b \in 1..Len(briefs) /\ Len(scenes) = n /\ n \in Nat /\ n > 0 BY <1>7, <1>10
    <3>2. \A f \in briefs[b].unsafe : f \notin HookTemplates[(hook % 13) + 1] BY <2>5, <1>9
    <3> QED BY <2>1, <2>3, <2>4, <3>1, <3>2, <1>8 DEF ScriptHolds
  <2> QED BY <2>2, <2>6 DEF ScriptHolds, ValidTimestamps
<1>12. PICK S : scripts \in Seq(S) BY DEF ContentInv
<1>13. PICK U : U = S \cup {new} OBVIOUS
<1>14. scripts \in Seq(U) /\ new \in U
  <2>1. S \subseteq U BY <1>13
  <2>2. scripts \in Seq(U) BY <2>1, <1>12
  <2> QED BY <2>2, <1>13
<1>15. PICK l \in Nat : l = Len(scripts) BY <1>12
<1>16. /\ scripts' \in Seq(U) /\ Len(scripts') = l + 1 /\ scripts'[l + 1] = new
       /\ \A i \in 1..l : scripts'[i] = scripts[i]
  BY <1>3, <1>14, <1>15
<1>17. ASSUME NEW i \in 1..(l + 1) PROVE ScriptHolds(scripts[i])'
  <2>1. CASE i = l + 1
    <3>1. scripts'[i] = new BY <2>1, <1>16
    <3> QED BY <3>1, <1>11 DEF ScriptHolds
  <2>2. CASE i # l + 1
    <3>1. i \in 1..l BY <2>2, <1>15
    <3>2. ScriptHolds(scripts[i]) BY <3>1, <1>15 DEF ContentInv
    <3>3. scripts'[i] = scripts[i] /\ briefs' = briefs BY <3>1, <1>3, <1>16
    <3> QED BY <3>2, <3>3 DEF ScriptHolds, ValidTimestamps
  <2> QED BY <2>1, <2>2
<1>18. (\E V : scripts' \in Seq(V)) /\ \A i \in 1..Len(scripts') : ScriptHolds(scripts[i])' BY <1>16, <1>17
<1> QED BY <1>3, <1>18 DEF ContentInv, KeyOf, DraftIsClean

-----------------------------------------------------------------------------
(* Drafts and showcases.                                                   *)

\* A draft the quality gate approves has no issue.
LEMMA ApprovalIsClean ==
    ASSUME NEW d \in Drafts, QualityVerdict(d) = "approved"
    PROVE  DraftIsClean(d)
<1>1. DisclosureScore(d) = 100 /\ ClaimsSafety(d) = 100 BY DEF QualityVerdict
<1>2. d.banned \in Nat /\ d.pressure \in Nat BY ContentAssumption DEF ContentAssumption
<1>3. d.superlative \in BOOLEAN BY ContentAssumption DEF ContentAssumption
<1>4. PICK third \in Int : third = IF d.superlative THEN 25 ELSE 0
  <2>1. (IF d.superlative THEN 25 ELSE 0) \in Int OBVIOUS
  <2> QED BY <2>1
<1>5. third = 0 \/ third = 25 BY <1>4
<1>6. PICK raw \in Int : raw = 100 - 40 * d.banned - 25 * d.pressure - third BY <1>2
<1>7. Clamp(raw) = 100 BY <1>1, <1>4, <1>6, Zenon DEF ClaimsSafety
<1>8. PICK hundred, zero \in Int : hundred = 100 /\ zero = 0 OBVIOUS
<1>9. PICK low : low = Min({hundred, raw}) OBVIOUS
<1>10. low \in {hundred, raw} /\ low <= raw BY <1>8, <1>9, MinOfTwo
<1>11. low \in Int BY <1>8, <1>10
<1>12. Max({zero, low}) \in {zero, low} BY <1>8, <1>11, MaxOfTwo
<1>13. Max({zero, low}) = 100 BY <1>7, <1>8, <1>9 DEF Clamp
<1>14. raw >= 100 BY <1>8, <1>10, <1>11, <1>12, <1>13
<1>15. d.banned = 0 /\ d.pressure = 0 /\ third = 0 BY <1>2, <1>5, <1>6, <1>14
<1>16. ~d.superlative BY <1>4, <1>15
<1>17. d.social => d.disclosed BY <1>1 DEF DisclosureScore
<1> QED BY <1>15, <1>16, <1>17 DEF DraftIsClean

\* A showcase job keeps the keys of the jobs apart.
LEMMA ShowcaseKeeps ==
    ASSUME ContentInv, NEW p \in Packages, createShowcasePublicationJob(p)
    PROVE  /\ showcases' \in Seq(ShowcaseRecords)
           /\ \A i, j \in 1..Len(showcases') : i # j => KeyOf(i)' # KeyOf(j)'
<1>1. showcases \in Seq(ShowcaseRecords) /\ \A i, j \in 1..Len(showcases) : i # j => KeyOf(i) # KeyOf(j)
  BY DEF ContentInv
<1>2. CASE showcases' = showcases BY <1>1, <1>2 DEF KeyOf
<1>3. CASE showcases' # showcases
  <2>1. PICK new : new = [package |-> p, posted |-> FALSE] OBVIOUS
  <2>2. new \in ShowcaseRecords /\ new.package = p BY <2>1 DEF ShowcaseRecords
  <2>3. /\ showcases' = Append(showcases, new)
        /\ ~\E i \in DOMAIN showcases : ShowcaseKey(showcases[i].package) = ShowcaseKey(p)
    BY <1>3, <2>1 DEF createShowcasePublicationJob
  <2>4. PICK l \in Nat : l = Len(showcases) /\ DOMAIN showcases = 1..l BY <1>1
  <2>5. /\ showcases' \in Seq(ShowcaseRecords) /\ Len(showcases') = l + 1 /\ showcases'[l + 1] = new
        /\ \A i \in 1..l : showcases'[i] = showcases[i]
    BY <1>1, <2>2, <2>3, <2>4
  <2>6. KeyOf(l + 1)' = ShowcaseKey(p) BY <2>2, <2>5 DEF KeyOf, ShowcaseKey
  <2>7. \A i \in 1..l : KeyOf(i)' = KeyOf(i) /\ KeyOf(i) # ShowcaseKey(p) BY <2>3, <2>4, <2>5 DEF KeyOf, ShowcaseKey
  <2>8. \A i \in 1..(l + 1) : i = l + 1 \/ i \in 1..l BY <2>4
  <2>9. ASSUME NEW i \in 1..(l + 1), NEW j \in 1..(l + 1), i # j PROVE KeyOf(i)' # KeyOf(j)'
    <3>1. CASE i \in 1..l /\ j \in 1..l BY <3>1, <2>4, <2>7, <2>9, <1>1
    <3>2. CASE i = l + 1 /\ j \in 1..l BY <3>2, <2>6, <2>7
    <3>3. CASE j = l + 1 /\ i \in 1..l BY <3>3, <2>6, <2>7
    <3> QED BY <2>8, <2>9, <3>1, <3>2, <3>3
  <2> QED BY <2>5, <2>9
<1> QED BY <1>2, <1>3

\* A posted showcase keeps the keys of the jobs apart.
LEMMA PostedKeeps ==
    ASSUME ContentInv, NEW i \in DOMAIN showcases, showcasePosted(i)
    PROVE  /\ showcases' \in Seq(ShowcaseRecords)
           /\ \A j, k \in 1..Len(showcases') : j # k => KeyOf(j)' # KeyOf(k)'
<1>1. /\ showcases \in Seq(ShowcaseRecords) /\ DOMAIN showcases = 1..Len(showcases)
      /\ \A j, k \in 1..Len(showcases) : j # k => KeyOf(j) # KeyOf(k)
  BY DEF ContentInv
<1>2. PICK new : new = [showcases[i] EXCEPT !.posted = TRUE] OBVIOUS
<1>3. showcases[i] \in ShowcaseRecords BY <1>1
<1>4. new \in ShowcaseRecords /\ new.package = showcases[i].package BY <1>2, <1>3 DEF ShowcaseRecords
<1>5. showcases' = [showcases EXCEPT ![i] = new] BY <1>2 DEF showcasePosted
<1>6. /\ showcases' \in Seq(ShowcaseRecords) /\ Len(showcases') = Len(showcases)
      /\ \A j \in 1..Len(showcases) : showcases'[j] = IF j = i THEN new ELSE showcases[j]
  BY <1>1, <1>4, <1>5
<1>7. \A j \in 1..Len(showcases) : showcases'[j].package = showcases[j].package BY <1>4, <1>6
<1>8. \A j \in 1..Len(showcases) : KeyOf(j)' = KeyOf(j) BY <1>7 DEF KeyOf, ShowcaseKey
<1> QED BY <1>1, <1>6, <1>8

\* Every step of the content factory keeps its invariant.
LEMMA ContentStepInv == ContentInv /\ [ContentNext]_contentVars => ContentInv'
<1> SUFFICES ASSUME ContentInv, [ContentNext]_contentVars PROVE ContentInv' OBVIOUS
<1> DEFINE Briefed == UNCHANGED <<briefs, scripts>>
           Scripted == (\E S : scripts' \in Seq(S)) /\ \A i \in 1..Len(scripts') : ScriptHolds(scripts[i])'
           Shown == UNCHANGED showcases
<1>a. Briefed => Scripted /\ briefs' \in Seq(Goods)
  <2> SUFFICES ASSUME Briefed PROVE Scripted /\ briefs' \in Seq(Goods) OBVIOUS
  <2>1. briefs' = briefs /\ scripts' = scripts OBVIOUS
  <2>2. briefs' \in Seq(Goods) /\ Len(briefs') \in Nat /\ Len(briefs') >= Len(briefs)
    BY <2>1 DEF ContentInv
  <2> QED BY <2>1, <2>2, ScriptsStay
<1>b. Shown => /\ showcases' \in Seq(ShowcaseRecords)
               /\ \A i, j \in 1..Len(showcases') : i # j => KeyOf(i)' # KeyOf(j)'
  BY DEF ContentInv, KeyOf
<1>c. UNCHANGED approvedDrafts => \A d \in approvedDrafts' : DraftIsClean(d) BY DEF ContentInv
<1>d. UNCHANGED refusedBoards => refusedBoards' = {} BY DEF ContentInv
<1>e. ASSUME Scripted, briefs' \in Seq(Goods), refusedBoards' = {},
             \A d \in approvedDrafts' : DraftIsClean(d), showcases' \in Seq(ShowcaseRecords),
             \A i, j \in 1..Len(showcases') : i # j => KeyOf(i)' # KeyOf(j)'
      PROVE  ContentInv'
  BY <1>e DEF ContentInv, DraftIsClean
<1> HIDE DEF Scripted
<1>1. CASE UNCHANGED contentVars BY <1>1, <1>a, <1>b, <1>c, <1>d, <1>e DEF contentVars
<1>2. ASSUME NEW g \in Goods, createCreativeBrief(g) PROVE ContentInv'
  <2>1. briefs' = Append(briefs, g) /\ UNCHANGED <<scripts, approvedDrafts, showcases, refusedBoards>>
    BY <1>2 DEF createCreativeBrief
  <2>2. briefs \in Seq(Goods) BY DEF ContentInv
  <2>3. /\ briefs' \in Seq(Goods) /\ Len(briefs') \in Nat /\ Len(briefs') >= Len(briefs)
        /\ \A i \in 1..Len(briefs) : briefs'[i] = briefs[i]
    BY <2>1, <2>2
  <2>4. Scripted BY <2>1, <2>3, ScriptsStay DEF Scripted
  <2> QED BY <2>1, <2>3, <2>4, <1>b, <1>c, <1>d, <1>e
<1>3. ASSUME NEW b \in DOMAIN briefs, NEW f \in DOMAIN ScriptFormats, NEW hook, generateScript(b, f, hook)
      PROVE  ContentInv'
  BY <1>3, GenerateScriptKeeps
<1>4. ASSUME NEW s \in DOMAIN scripts, createStoryboard(s) PROVE ContentInv'
  <2>1. s \in 1..Len(scripts) BY DEF ContentInv
  <2>2. ValidTimestamps(scripts[s].scenes) BY <2>1 DEF ContentInv, ScriptHolds
  <2>3. UNCHANGED refusedBoards /\ UNCHANGED <<briefs, scripts, approvedDrafts, showcases>>
    BY <1>4, <2>2 DEF createStoryboard
  <2> QED BY <2>3, <1>a, <1>b, <1>c, <1>d, <1>e
<1>5. ASSUME NEW s, createJob(s) PROVE ContentInv'
  <2>1. UNCHANGED <<briefs, scripts, approvedDrafts, showcases, refusedBoards>> BY <1>5 DEF createJob
  <2> QED BY <2>1, <1>a, <1>b, <1>c, <1>d, <1>e
<1>6. ASSUME NEW d \in Drafts, scoreContentQuality(d) PROVE ContentInv'
  <2>1. /\ UNCHANGED <<briefs, scripts, showcases, refusedBoards>>
        /\ QualityVerdict(d) = "approved" /\ approvedDrafts' = approvedDrafts \cup {d}
    BY <1>6 DEF scoreContentQuality
  <2>2. DraftIsClean(d) BY <2>1, ApprovalIsClean
  <2>3. \A c \in approvedDrafts' : DraftIsClean(c) BY <2>1, <2>2 DEF ContentInv
  <2> QED BY <2>1, <2>3, <1>a, <1>b, <1>d, <1>e
<1>7. ASSUME NEW p \in Packages, createShowcasePublicationJob(p) PROVE ContentInv'
  <2>1. UNCHANGED <<briefs, scripts, approvedDrafts, refusedBoards>> BY <1>7 DEF createShowcasePublicationJob
  <2>2. /\ showcases' \in Seq(ShowcaseRecords)
        /\ \A i, j \in 1..Len(showcases') : i # j => KeyOf(i)' # KeyOf(j)'
    BY <1>7, ShowcaseKeeps
  <2> QED BY <2>1, <2>2, <1>a, <1>c, <1>d, <1>e
<1>8. ASSUME NEW i \in DOMAIN showcases, showcasePosted(i) PROVE ContentInv'
  <2>1. UNCHANGED <<briefs, scripts, approvedDrafts, refusedBoards>> BY <1>8 DEF showcasePosted
  <2>2. /\ showcases' \in Seq(ShowcaseRecords)
        /\ \A j, k \in 1..Len(showcases') : j # k => KeyOf(j)' # KeyOf(k)'
    BY <1>8, PostedKeeps
  <2> QED BY <2>1, <2>2, <1>a, <1>c, <1>d, <1>e
<1> QED BY <1>1, <1>2, <1>3, <1>4, <1>5, <1>6, <1>7, <1>8 DEF ContentNext

\* The factory's invariant says that its content is sound.
LEMMA ContentInvTells == ContentInv => ContentHolds
<1> SUFFICES ASSUME ContentInv PROVE ContentHolds OBVIOUS
<1>1. ScriptsFill
  <2>1. DOMAIN scripts = 1..Len(scripts) BY DEF ContentInv
  <2>2. \A i \in 1..Len(scripts) : ScriptHolds(scripts[i]) BY DEF ContentInv
  <2>3. refusedBoards = {} BY DEF ContentInv
  <2> QED BY <2>1, <2>2, <2>3 DEF ScriptsFill, ScriptHolds
<1>2. ApprovedIsClean BY DEF ContentInv, ApprovedIsClean, DraftIsClean
<1>3. ShowcasesPostOnce
  <2>1. DOMAIN showcases = 1..Len(showcases) BY DEF ContentInv
  <2>2. \A i, j \in 1..Len(showcases) : i # j => KeyOf(i) # KeyOf(j) BY DEF ContentInv
  <2> QED BY <2>1, <2>2 DEF ShowcasesPostOnce, KeyOf, ShowcaseKey
<1> QED BY <1>1, <1>2, <1>3 DEF ContentHolds

\* The factory in any execution of its own: scripts fill their seconds, what is
\* approved is clean, and a product is showcased once.
THEOREM FactoryStaysSound == ContentSpec => []ContentHolds
<1>1. ContentSpec => []ContentInv
  BY ContentStarts, ContentStepInv, PTL DEF ContentSpec
<1> QED BY <1>1, ContentInvTells, PTL

-----------------------------------------------------------------------------
(* Experiments.                                                            *)

OutcomeRows == [experiment : ExperimentIds, variant : UNION {IdsOf(vs) : vs \in VariantSets},
                reward : Rewards, tenant : ExperimentTenants]

\* What createExperiment let in, and arms that say what the events report.
Admitted(variants) ==
    /\ variants \in VariantSets
    /\ Len(variants) > 0 /\ Cardinality(IdsOf(variants)) = Len(variants)
    /\ WeightsSum(variants) = 100

\* An arm counts the outcomes recorded for it, and sums their rewards.
ArmTells(x, v) ==
    /\ Arm(x, v).count = Reported(x, v).count /\ Arm(x, v).count \in Nat
    /\ Arm(x, v).rewardSum = Reported(x, v).sum /\ Arm(x, v).rewardSum \in Int

\* Experiments are as they were admitted, and their arms tell of the outcomes.
ExperimentsInv ==
    /\ DOMAIN experiments = ExperimentIds /\ DOMAIN arms = ExperimentIds
    /\ \A x \in ExperimentIds : \A e \in experiments[x] : Admitted(e.variants) /\ e.owner \in ExperimentTenants
    /\ outcomes \in Seq(OutcomeRows)
    /\ \A x \in ExperimentIds : \A v : ArmTells(x, v)

\* Experiments start within their invariant.
LEMMA ExperimentsStart == ExperimentsInit => ExperimentsInv
<1> SUFFICES ASSUME ExperimentsInit PROVE ExperimentsInv OBVIOUS
<1>1. /\ experiments = [x \in ExperimentIds |-> {}] /\ arms = [x \in ExperimentIds |-> <<>>]
      /\ outcomes = <<>>
  BY DEF ExperimentsInit
<1>2. ASSUME NEW x \in ExperimentIds, NEW v PROVE ArmTells(x, v)
  <2> DEFINE told == {i \in DOMAIN outcomes : outcomes[i].experiment = x /\ outcomes[i].variant = v}
             rewards == [i \in DOMAIN outcomes |-> outcomes[i].reward]
  <2>1. told = {} BY <1>1
  <2>2. arms[x] = <<>> /\ v \notin DOMAIN arms[x] BY <1>1
  <2>3. Arm(x, v) = [count |-> 0, rewardSum |-> 0] BY <2>2 DEF Arm
  <2>4. Reported(x, v) = [count |-> Cardinality(told), sum |-> SumFunctionOnSet(rewards, told)]
    BY DEF Reported
  <2>5. Cardinality({}) = 0 /\ SumFunctionOnSet(rewards, {}) = 0 BY FS_EmptySet, SumOfNone
  <2> HIDE DEF told, rewards
  <2>6. Cardinality(told) = 0 /\ SumFunctionOnSet(rewards, told) = 0 BY <2>1, <2>5, Zenon
  <2> QED BY <2>3, <2>4, <2>6 DEF ArmTells
<1> QED BY <1>1, <1>2 DEF ExperimentsInv

\* A step that records no outcome leaves what the arms tell.
LEMMA OutcomesStay ==
    ASSUME ExperimentsInv, UNCHANGED <<arms, outcomes>>
    PROVE  \A x \in ExperimentIds : \A v : ArmTells(x, v)'
<1> SUFFICES ASSUME NEW x \in ExperimentIds, NEW v PROVE ArmTells(x, v)' OBVIOUS
<1>1. arms' = arms /\ outcomes' = outcomes OBVIOUS
<1>2. Arm(x, v)' = Arm(x, v) BY <1>1 DEF Arm
<1>3. Reported(x, v)' = Reported(x, v) BY <1>1, Zenon DEF Reported
<1>4. ArmTells(x, v) BY DEF ExperimentsInv
<1> QED BY <1>2, <1>3, <1>4 DEF ArmTells

\* A recorded outcome keeps the invariant of experiments: its arm tells of it.
LEMMA RecordOutcomeKeeps ==
    ASSUME ExperimentsInv, NEW x \in ExperimentIds, NEW v, NEW reward \in Rewards,
           recordOutcome(x, v, reward)
    PROVE  ExperimentsInv'
<1> DEFINE new == [count |-> Arm(x, v).count + 1, rewardSum |-> Arm(x, v).rewardSum + reward]
           row == [experiment |-> x, variant |-> v, reward |-> reward,
                   tenant |-> lookupExperiment(x).owner]
           n == Len(outcomes)
<1>1. /\ experiments[x] # {} /\ v \in IdsOf(lookupExperiment(x).variants)
      /\ arms' = [arms EXCEPT ![x] = [w \in DOMAIN arms[x] \cup {v} |-> IF w = v THEN new ELSE arms[x][w]]]
      /\ outcomes' = Append(outcomes, row) /\ experiments' = experiments
  BY DEF recordOutcome
<1>2. lookupExperiment(x) \in experiments[x] BY <1>1 DEF lookupExperiment
<1>3. row \in OutcomeRows
  BY <1>1, <1>2 DEF ExperimentsInv, OutcomeRows, Admitted
<1>4. row.experiment = x /\ row.variant = v /\ row.reward = reward OBVIOUS
<1>5. Arm(x, v).count \in Nat /\ Arm(x, v).rewardSum \in Int /\ reward \in Int
  BY ExperimentsAssumption DEF ExperimentsInv, ArmTells, ExperimentsAssumption
<1>6. /\ new.count = Arm(x, v).count + 1 /\ new.count \in Nat
      /\ new.rewardSum = Arm(x, v).rewardSum + reward /\ new.rewardSum \in Int
  BY <1>5
<1>7. outcomes \in Seq(OutcomeRows) /\ DOMAIN arms = ExperimentIds BY DEF ExperimentsInv
<1> HIDE DEF row, new
<1>8. /\ outcomes' \in Seq(OutcomeRows) /\ n \in Nat
      /\ DOMAIN outcomes = 1..n /\ DOMAIN outcomes' = 1..(n + 1)
      /\ outcomes'[n + 1] = row /\ \A i \in 1..n : outcomes'[i] = outcomes[i]
  BY <1>1, <1>3, <1>7
<1>9. \A i \in 1..n : outcomes[i].reward \in Int
  <2>1. \A i \in 1..n : outcomes[i] \in OutcomeRows BY <1>7, <1>8
  <2> QED BY <2>1, ExperimentsAssumption DEF OutcomeRows, ExperimentsAssumption
<1>10. Arm(x, v)' = new BY <1>1, <1>7 DEF Arm
<1>11. \A y \in ExperimentIds : \A w : (y # x \/ w # v) => Arm(y, w)' = Arm(y, w)
  <2> SUFFICES ASSUME NEW y \in ExperimentIds, NEW w, y # x \/ w # v PROVE Arm(y, w)' = Arm(y, w)
    OBVIOUS
  <2>1. CASE y # x BY <2>1, <1>1, <1>7 DEF Arm
  <2>2. CASE y = x /\ w # v
    <3>1. arms'[x] = [u \in DOMAIN arms[x] \cup {v} |-> IF u = v THEN new ELSE arms[x][u]] BY <1>1, <1>7
    <3>2. w \in DOMAIN arms'[x] <=> w \in DOMAIN arms[x] BY <3>1, <2>2
    <3>3. w \in DOMAIN arms[x] => arms'[x][w] = arms[x][w] BY <3>1, <2>2
    <3> QED BY <2>2, <3>2, <3>3 DEF Arm
  <2> QED BY <2>1, <2>2
<1>12. ASSUME NEW y \in ExperimentIds, NEW w PROVE ArmTells(y, w)'
  <2>1. PICK f, g : /\ f = [i \in DOMAIN outcomes |-> outcomes[i].reward]
                    /\ g = [i \in DOMAIN outcomes' |-> outcomes'[i].reward]
    OBVIOUS
  <2>2. PICK A, B :
           /\ A = {i \in DOMAIN outcomes : outcomes[i].experiment = y /\ outcomes[i].variant = w}
           /\ B = {i \in DOMAIN outcomes' : outcomes'[i].experiment = y /\ outcomes'[i].variant = w}
    OBVIOUS
  <2>3. Reported(y, w) = [count |-> Cardinality(A), sum |-> SumFunctionOnSet(f, A)]
    BY <2>1, <2>2, Zenon DEF Reported
  <2>4. Reported(y, w)' = [count |-> Cardinality(B), sum |-> SumFunctionOnSet(g, B)]
    BY <2>1, <2>2, Zenon DEF Reported
  <2>5. /\ A \in SUBSET (1..n) /\ B \in SUBSET (1..(n + 1)) /\ \A k \in 1..n : k \in A <=> k \in B
    BY <2>2, <1>8
  <2>6. n + 1 \in B <=> y = x /\ w = v BY <2>2, <1>8, <1>4
  <2>7. /\ IsFiniteSet(A) /\ Cardinality(A) \in Nat
        /\ Cardinality(B) = IF n + 1 \in B THEN Cardinality(A) + 1 ELSE Cardinality(A)
    BY <2>5, <1>8, CountedToNext
  <2>8. (\A i \in A : f[i] = g[i] /\ g[i] \in Int) /\ g[n + 1] = reward
    BY <2>1, <2>5, <1>8, <1>9, <1>4
  <2>9. SumFunctionOnSet(f, A) = SumFunctionOnSet(g, A) BY <2>7, <2>8, SumsAgree
  <2>10. ArmTells(y, w) BY DEF ExperimentsInv
  <2>11. CASE y = x /\ w = v
    <3>1. \A k : k \in B <=> k \in A \cup {n + 1}
      <4>1. \A k \in 1..(n + 1) : k \in 1..n \/ k = n + 1 BY <1>8
      <4> QED BY <4>1, <2>5, <2>6, <2>11
    <3>2. B = A \cup {n + 1} BY <3>1, Zenon
    <3>3. n + 1 \notin A BY <2>5, <1>8
    <3>4. SumFunctionOnSet(g, A \cup {n + 1}) = SumFunctionOnSet(g, A) + g[n + 1]
      <4>1. g[n + 1] \in Int BY <2>8, <1>5
      <4> QED BY <4>1, <3>3, <2>7, <2>8, SumWith
    <3>5. SumFunctionOnSet(g, B) = SumFunctionOnSet(f, A) + reward
      <4>1. SumFunctionOnSet(g, B) = SumFunctionOnSet(g, A \cup {n + 1}) BY <3>2, Zenon
      <4> QED BY <4>1, <3>4, <2>8, <2>9
    <3>6. Cardinality(B) = Cardinality(A) + 1 BY <2>6, <2>7, <2>11
    <3>7. Arm(y, w)' = new /\ Arm(y, w) = Arm(x, v) BY <2>11, <1>10
    <3> QED BY <3>5, <3>6, <3>7, <2>3, <2>4, <2>10, <1>6 DEF ArmTells
  <2>12. CASE ~(y = x /\ w = v)
    <3>1. \A k : k \in B <=> k \in A
      <4>1. \A k \in 1..(n + 1) : k \in 1..n \/ k = n + 1 BY <1>8
      <4> QED BY <4>1, <2>5, <2>6, <2>12
    <3>2. B = A BY <3>1, Zenon
    <3>3. SumFunctionOnSet(g, B) = SumFunctionOnSet(f, A) BY <3>2, <2>9, Zenon
    <3>4. Arm(y, w)' = Arm(y, w) BY <2>12, <1>11
    <3> QED BY <3>2, <3>3, <3>4, <2>3, <2>4, <2>10 DEF ArmTells
  <2> QED BY <2>11, <2>12
<1>13. \A y \in ExperimentIds : \A e \in experiments'[y] :
          Admitted(e.variants) /\ e.owner \in ExperimentTenants
  BY <1>1 DEF ExperimentsInv
<1>14. DOMAIN experiments' = ExperimentIds /\ DOMAIN arms' = ExperimentIds BY <1>1 DEF ExperimentsInv
<1> QED BY <1>8, <1>12, <1>13, <1>14 DEF ExperimentsInv, Admitted, WeightsSum, Cumulative, IdsOf

\* Every step of experiments keeps their invariant.
LEMMA ExperimentsStepInv == ExperimentsInv /\ [ExperimentsNext]_experimentVars => ExperimentsInv'
<1> SUFFICES ASSUME ExperimentsInv, [ExperimentsNext]_experimentVars PROVE ExperimentsInv' OBVIOUS
<1>1. CASE UNCHANGED experimentVars
  <2>1. UNCHANGED <<arms, outcomes>> /\ experiments' = experiments BY <1>1 DEF experimentVars
  <2>2. \A x \in ExperimentIds : \A v : ArmTells(x, v)' BY <2>1, OutcomesStay
  <2> QED BY <2>1, <2>2 DEF ExperimentsInv, Admitted
<1>2. ASSUME NEW t \in ExperimentTenants, NEW x \in ExperimentIds, NEW vs \in VariantSets,
             createExperiment(t, x, vs)
      PROVE  ExperimentsInv'
  <2>1. /\ UNCHANGED <<arms, outcomes>> /\ Admitted(vs)
        /\ experiments' = [experiments EXCEPT ![x] = { [owner |-> t, variants |-> vs] }]
    BY <1>2 DEF createExperiment, Admitted
  <2>2. \A y \in ExperimentIds : \A v : ArmTells(y, v)' BY <2>1, OutcomesStay
  <2>3. \A y \in ExperimentIds : \A e \in experiments'[y] :
           Admitted(e.variants) /\ e.owner \in ExperimentTenants
    BY <2>1 DEF ExperimentsInv
  <2> QED BY <2>1, <2>2, <2>3 DEF ExperimentsInv
<1>3. ASSUME NEW x \in ExperimentIds, NEW v, NEW r \in Rewards, recordOutcome(x, v, r) PROVE ExperimentsInv'
  BY <1>3, RecordOutcomeKeeps
<1> QED BY <1>1, <1>2, <1>3 DEF ExperimentsNext

-----------------------------------------------------------------------------
(* What the arms are good for: averages are ordered, and so is a best one. *)

\* Multiplying by a natural keeps an order.
LEMMA TimesKeeps ==
    ASSUME NEW a \in Int, NEW b \in Int, a <= b, NEW k \in Nat
    PROVE  a * k <= b * k
OBVIOUS

\* An order of multiples by the same factor above zero is an order of what they multiply.
LEMMA TimesTells ==
    ASSUME NEW a \in Int, NEW b \in Int, NEW k \in Nat, k > 0, a * k <= b * k
    PROVE  a <= b
<1> SUFFICES ASSUME a >= b + 1 PROVE FALSE OBVIOUS
<1>1. (b + 1) * k <= a * k BY TimesKeeps
<1>2. (b + 1) * k = b * k + k OBVIOUS
<1> QED BY <1>1, <1>2

\* a / p <= b / q <= c / r gives a / p <= c / r.
LEMMA AveragesOrder ==
    ASSUME NEW a \in Int, NEW b \in Int, NEW c \in Int, NEW p \in Nat, NEW q \in Nat, NEW r \in Nat,
           q > 0, a * q <= b * p, b * r <= c * q
    PROVE  a * r <= c * p
<1>1. (a * q) * r <= (b * p) * r BY TimesKeeps
<1>2. (b * r) * p <= (c * q) * p BY TimesKeeps
<1>3. (a * q) * r = (a * r) * q /\ (b * p) * r = (b * r) * p /\ (c * q) * p = (c * p) * q OBVIOUS
<1>4. (a * r) * q <= (c * p) * q BY <1>1, <1>2, <1>3
<1>5. a * r \in Int /\ c * p \in Int OBVIOUS
<1> QED BY <1>4, <1>5, TimesTells

\* Of finitely many means, compared by cross-multiplication, one is the best.
LEMMA OneIsBest ==
    ASSUME NEW n \in Nat, n > 0, NEW sum, NEW count,
           \A i \in 1..n : sum[i] \in Int /\ count[i] \in Nat /\ count[i] > 0
    PROVE  \E i \in 1..n : \A j \in 1..n : sum[j] * count[i] <= sum[i] * count[j]
<1> DEFINE BestUpTo(k) == \E i \in 1..k : \A j \in 1..k : sum[j] * count[i] <= sum[i] * count[j]
           Bad == {k \in 1..n : ~BestUpTo(k)}
<1> SUFFICES ASSUME Bad # {} PROVE FALSE OBVIOUS
<1>1. PICK k \in Bad : \A m \in Bad : ~(m < k)
  <2>1. Bad \subseteq Nat OBVIOUS
  <2> HIDE DEF Bad
  <2> QED BY <2>1, LeastNatural
<1>2. k \in 1..n /\ ~BestUpTo(k) OBVIOUS
<1>3. k # 1
  <2>1. sum[1] * count[1] <= sum[1] * count[1] OBVIOUS
  <2>2. \A j \in 1..1 : j = 1 OBVIOUS
  <2>3. BestUpTo(1) BY <2>1, <2>2
  <2> QED BY <2>3, <1>2
<1>4. k - 1 \in 1..n /\ k - 1 < k BY <1>2, <1>3
<1>5. BestUpTo(k - 1) BY <1>1, <1>4
<1>6. PICK i \in 1..(k - 1) : \A j \in 1..(k - 1) : sum[j] * count[i] <= sum[i] * count[j] BY <1>5
<1>7. i \in 1..n /\ i \in 1..k /\ k \in 1..k BY <1>2
<1>8. \A j \in 1..k : j \in 1..(k - 1) \/ j = k BY <1>2
<1>a. /\ sum[k] \in Int /\ count[k] \in Nat /\ count[k] > 0
      /\ sum[i] \in Int /\ count[i] \in Nat /\ count[i] > 0
  BY <1>2, <1>7
<1>9. CASE sum[k] * count[i] <= sum[i] * count[k] BY <1>6, <1>7, <1>8, <1>9, <1>2
<1>10. CASE sum[k] * count[i] > sum[i] * count[k]
  <2>1. ASSUME NEW j \in 1..(k - 1) PROVE sum[j] * count[k] <= sum[k] * count[j]
    <3>1. sum[j] \in Int /\ count[j] \in Nat BY <1>2
    <3>2. sum[j] * count[i] <= sum[i] * count[j] BY <1>6
    <3>3. sum[i] * count[k] <= sum[k] * count[i] BY <1>10, <1>a
    <3> QED BY <3>1, <3>2, <3>3, <1>a, AveragesOrder
  <2>2. sum[k] * count[k] <= sum[k] * count[k] BY <1>a
  <2> QED BY <2>1, <2>2, <1>7, <1>8, <1>2
<1>11. sum[k] * count[i] \in Int /\ sum[i] * count[k] \in Int BY <1>a
<1> QED BY <1>9, <1>10, <1>11

\* The least of a set of naturals is in it, and above none of it.
LEMMA LeastIsIn ==
    ASSUME NEW T, T \subseteq Nat, T # {}
    PROVE  Min(T) \in T /\ \A y \in T : Min(T) <= y
<1>1. PICK x \in T : \A y \in T : ~(y < x) BY LeastNatural
<1>2. \A y \in T : x <= y BY <1>1
<1>3. \E z \in T : \A y \in T : z <= y BY <1>2
<1> QED BY <1>3 DEF Min

\* The suggestion follows the rewards that were recorded.
LEMMA SuggestionsFollow ==
    ASSUME ExperimentsInv PROVE SuggestionsFollowRewards
<1> SUFFICES ASSUME NEW x \in ExperimentIds, experiments[x] # {}
             PROVE  LET s == Reported(x, suggestVariant(x))
                    IN  \A v \in IdsOf(lookupExperiment(x).variants) :
                          LET o == Reported(x, v)
                          IN  o.sum * (IF s.count = 0 THEN 1 ELSE s.count)
                                  <= s.sum * (IF o.count = 0 THEN 1 ELSE o.count)
  BY DEF SuggestionsFollowRewards
<1>1. PICK variants : variants = lookupExperiment(x).variants OBVIOUS
<1>2. Admitted(variants)
  <2>1. lookupExperiment(x) \in experiments[x] BY DEF lookupExperiment
  <2> QED BY <2>1, <1>1 DEF ExperimentsInv
<1> DEFINE n == Len(variants)
           sum == [i \in 1..n |-> Reported(x, variants[i].id).sum]
           count == [i \in 1..n |-> LET c == Reported(x, variants[i].id).count
                                    IN  IF c = 0 THEN 1 ELSE c]
           best == { i \in DOMAIN variants :
                       \A j \in DOMAIN variants : ~Above(Arm(x, variants[j].id), Arm(x, variants[i].id)) }
<1>3. n \in Nat /\ n > 0 /\ DOMAIN variants = 1..n
  BY <1>2, ExperimentsAssumption DEF Admitted, ExperimentsAssumption
<1>4. \A v : ArmTells(x, v) BY DEF ExperimentsInv
<1>5. \A i \in 1..n : /\ sum[i] = Arm(x, variants[i].id).rewardSum /\ sum[i] \in Int
                      /\ count[i] \in Nat /\ count[i] > 0
                      /\ count[i] = Max({1, Arm(x, variants[i].id).count})
  <2> SUFFICES ASSUME NEW i \in 1..n
               PROVE  /\ sum[i] = Arm(x, variants[i].id).rewardSum /\ sum[i] \in Int
                      /\ count[i] \in Nat /\ count[i] > 0
                      /\ count[i] = Max({1, Arm(x, variants[i].id).count})
    OBVIOUS
  <2>1. ArmTells(x, variants[i].id) BY <1>4
  <2>2. PICK c : c = Arm(x, variants[i].id).count OBVIOUS
  <2>3. c \in Nat /\ count[i] = IF c = 0 THEN 1 ELSE c BY <2>1, <2>2 DEF ArmTells
  <2>4. Max({1, c}) \in {1, c} /\ Max({1, c}) >= 1 /\ Max({1, c}) >= c
    <3>1. PICK one \in Int : one = 1 OBVIOUS
    <3>2. c \in Int BY <2>3
    <3>3. Max({one, c}) \in {one, c} /\ Max({one, c}) >= one /\ Max({one, c}) >= c BY <3>2, MaxOfTwo
    <3> QED BY <3>1, <3>3
  <2>5. count[i] = Max({1, c}) BY <2>3, <2>4
  <2>6. sum[i] = Arm(x, variants[i].id).rewardSum /\ sum[i] \in Int BY <2>1 DEF ArmTells
  <2>7. count[i] \in Nat /\ count[i] > 0 BY <2>3
  <2> QED BY <2>2, <2>5, <2>6, <2>7
<1> HIDE DEF sum, count
<1>b. \A i \in 1..n : sum[i] \in Int /\ count[i] \in Nat /\ count[i] > 0 BY <1>5, Zenon
<1>a. \A i \in 1..n : sum[i] \in Int /\ count[i] \in Nat /\ count[i] \in Int /\ count[i] > 0 BY <1>b
<1>6. PICK top \in 1..n : \A j \in 1..n : sum[j] * count[top] <= sum[top] * count[j]
  BY <1>3, <1>a, OneIsBest
<1>7. \A i, j \in 1..n : Above(Arm(x, variants[j].id), Arm(x, variants[i].id))
                           <=> sum[j] * count[i] > sum[i] * count[j]
  BY <1>5 DEF Above
<1>8. top \in best
  <2>1. \A j \in 1..n : ~(sum[j] * count[top] > sum[top] * count[j])
    <3> TAKE j \in 1..n
    <3>a. sum[j] \in Int /\ count[j] \in Int /\ sum[top] \in Int /\ count[top] \in Int BY <1>a
    <3>1. sum[j] * count[top] \in Int /\ sum[top] * count[j] \in Int BY <3>a
    <3> QED BY <1>6, <3>1
  <2> QED BY <2>1, <1>3, <1>7
<1>9. Min(best) \in best
  <2>1. best \subseteq Nat BY <1>3
  <2> HIDE DEF best
  <2> QED BY <2>1, <1>8, LeastIsIn
<1>10. PICK m \in 1..n : m = Min(best) /\ m \in best BY <1>9, <1>3
<1>11. suggestVariant(x) = variants[m].id BY <1>1, <1>10, Zenon DEF suggestVariant
<1>12. \A j \in 1..n : sum[j] * count[m] <= sum[m] * count[j]
  <2> TAKE j \in 1..n
  <2>1. ~Above(Arm(x, variants[j].id), Arm(x, variants[m].id)) BY <1>10, <1>3
  <2>2. ~(sum[j] * count[m] > sum[m] * count[j]) BY <2>1, <1>7
  <2>a. sum[j] \in Int /\ count[j] \in Int /\ sum[m] \in Int /\ count[m] \in Int BY <1>a
  <2>3. sum[j] * count[m] \in Int /\ sum[m] * count[j] \in Int BY <2>a
  <2> QED BY <2>2, <2>3
<1> SUFFICES ASSUME NEW v \in IdsOf(variants)
             PROVE  LET s == Reported(x, variants[m].id)
                        o == Reported(x, v)
                    IN  o.sum * (IF s.count = 0 THEN 1 ELSE s.count)
                            <= s.sum * (IF o.count = 0 THEN 1 ELSE o.count)
  BY <1>1, <1>11
<1>13. PICK j \in 1..n : v = variants[j].id BY <1>3 DEF IdsOf
<1> QED BY <1>12, <1>13 DEF sum, count

-----------------------------------------------------------------------------
(* Rolls.                                                                  *)

\* The cumulative weight of a variant is that of the one before and its own.
LEMMA CumulativeSteps ==
    ASSUME NEW variants \in VariantSets
    PROVE  /\ Len(variants) \in Nat /\ DOMAIN variants = 1..Len(variants)
           /\ Cumulative(variants, 0) = 0
           /\ \A i \in 1..Len(variants) :
                 /\ variants[i].weight \in Nat /\ Cumulative(variants, i - 1) \in Nat
                 /\ Cumulative(variants, i) = Cumulative(variants, i - 1) + variants[i].weight
           /\ \A i, j \in 0..Len(variants) : i <= j => Cumulative(variants, i) <= Cumulative(variants, j)
<1> DEFINE n == Len(variants)
<1>1. PICK S : variants \in Seq([id : S, weight : Nat])
  BY ExperimentsAssumption DEF ExperimentsAssumption
<1>2. n \in Nat /\ DOMAIN variants = 1..n /\ \A i \in 1..n : variants[i].weight \in Nat
  <2>1. PICK T : T = [id : S, weight : Nat] OBVIOUS
  <2>2. variants \in Seq(T) BY <1>1, <2>1
  <2>3. n \in Nat /\ DOMAIN variants = 1..n /\ \A i \in 1..n : variants[i] \in T BY <2>2
  <2> QED BY <2>1, <2>3
<1>3. PICK g : g = [k \in 1..n |-> variants[k].weight] OBVIOUS
<1>4. \A k \in 1..n : g[k] = variants[k].weight /\ g[k] \in Nat BY <1>2, <1>3
<1>5. ASSUME NEW i \in 0..n
      PROVE  Cumulative(variants, i) = SumFunctionOnSet(g, 1..i) /\ Cumulative(variants, i) \in Nat
  <2>1. PICK h : h = [k \in 1..i |-> variants[k].weight] OBVIOUS
  <2>2. \A k \in 1..i : h[k] = g[k] /\ h[k] \in Nat BY <2>1, <1>2, <1>4
  <2>3. i \in Int /\ 1 \in Int BY <1>2
  <2>4. SumFunctionOnSet(h, 1..i) = SumFunctionOnSet(g, 1..i) /\ SumFunctionOnSet(h, 1..i) \in Nat
    BY <2>2, <2>3, SumsOfStretch
  <2>5. Cumulative(variants, i) = SumFunctionOnSet(h, 1..i) BY <2>1, Zenon DEF Cumulative
  <2> QED BY <2>4, <2>5
<1>6. Cumulative(variants, 0) = 0
  <2>1. 1..0 = {} /\ 0 \in 0..n BY <1>2
  <2>2. SumFunctionOnSet(g, 1..0) = SumFunctionOnSet(g, {}) BY <2>1, Zenon
  <2>3. SumFunctionOnSet(g, {}) = 0 BY SumOfNone
  <2> QED BY <2>1, <2>2, <2>3, <1>5
<1>7. ASSUME NEW i \in 1..n
      PROVE  /\ Cumulative(variants, i - 1) \in Nat
             /\ Cumulative(variants, i) = Cumulative(variants, i - 1) + variants[i].weight
  <2>1. PICK m \in Nat : i = m + 1 /\ m = i - 1 /\ m \in 0..n /\ i \in 0..n
    <3>1. i - 1 \in Nat /\ i = (i - 1) + 1 /\ i - 1 \in 0..n /\ i \in 0..n BY <1>2
    <3> QED BY <3>1
  <2>2. \A k \in 1..(m + 1) : g[k] \in Int BY <1>2, <1>4, <2>1
  <2>3. 1 \in Nat /\ 1 <= m + 1 BY <2>1
  <2>4. SumFunctionOnSet(g, 1..(m + 1)) = SumFunctionOnSet(g, 1..m) + g[m + 1] BY <2>2, <2>3, SumToNext
  <2> QED BY <1>4, <1>5, <2>1, <2>4
<1>8. ASSUME NEW i \in 0..n, NEW j \in 0..n, i <= j
      PROVE  Cumulative(variants, i) <= Cumulative(variants, j)
  <2>1. 1..i \in SUBSET (1..j) BY <1>2, <1>8
  <2>2. IsFiniteSet(1..j) /\ \A k \in 1..j : g[k] \in Nat BY <1>2, <1>4, FS_Interval
  <2>3. SumFunctionOnSet(g, 1..i) <= SumFunctionOnSet(g, 1..j) BY <2>1, <2>2, SumOfPart
  <2> QED BY <2>3, <1>5
<1> QED BY <1>2, <1>6, <1>7, <1>8

\* Two admitted variants with one id are one variant.
LEMMA IdsDiffer ==
    ASSUME NEW variants, Admitted(variants), NEW i \in DOMAIN variants, NEW j \in DOMAIN variants,
           variants[i].id = variants[j].id
    PROVE  i = j
<1> DEFINE n == Len(variants)
           ids == [k \in 1..n |-> variants[k].id]
<1>1. variants \in VariantSets BY DEF Admitted
<1>2. n \in Nat /\ DOMAIN variants = 1..n BY <1>1, CumulativeSteps
<1>3. ids \in Surjection(1..n, IdsOf(variants))
  BY <1>2 DEF Surjection, IdsOf
<1>4. IsFiniteSet(1..n) /\ Cardinality(1..n) = n
  <2>1. 1 \in Int /\ n \in Int BY <1>2
  <2>2. IsFiniteSet(1..n) /\ Cardinality(1..n) = IF 1 > n THEN 0 ELSE n - 1 + 1 BY <2>1, FS_Interval
  <2> QED BY <2>2, <1>2
<1>5. Cardinality(IdsOf(variants)) = Cardinality(1..n) BY <1>4 DEF Admitted
<1>6. ids \in Injection(1..n, IdsOf(variants))
  <2> HIDE DEF ids
  <2> QED BY <1>3, <1>4, <1>5, FS_Surjection
<1>7. ids[i] = ids[j] /\ i \in 1..n /\ j \in 1..n BY <1>2
<1> HIDE DEF ids
<1> QED BY <1>6, <1>7 DEF Injection, IsInjective

\* The variant a roll is given follows the weights.
LEMMA RollsFollow ==
    ASSUME ExperimentsInv PROVE RollsFollowWeights
<1> SUFFICES ASSUME NEW x \in ExperimentIds, experiments[x] # {}, NEW variants,
                    variants = lookupExperiment(x).variants, NEW i \in DOMAIN variants
             PROVE  Cardinality({ r \in 0..99 : selectVariant(variants, r) = variants[i].id })
                        = variants[i].weight
  BY DEF RollsFollowWeights
<1>1. Admitted(variants)
  <2>1. lookupExperiment(x) \in experiments[x] BY DEF lookupExperiment
  <2> QED BY <2>1 DEF ExperimentsInv
<1>2. variants \in VariantSets BY <1>1 DEF Admitted
<1> DEFINE n == Len(variants)
           Cum(k) == Cumulative(variants, k)
<1>3. /\ n \in Nat /\ DOMAIN variants = 1..n /\ Cum(0) = 0
      /\ \A k \in 1..n : /\ variants[k].weight \in Nat /\ Cum(k - 1) \in Nat
                         /\ Cum(k) = Cum(k - 1) + variants[k].weight
      /\ \A k, m \in 0..n : k <= m => Cum(k) <= Cum(m)
  BY <1>2, CumulativeSteps
<1>4. n > 0 /\ Cum(n) = 100 BY <1>1 DEF Admitted, WeightsSum
<1>5. \A k \in 1..n : Cum(k) \in Nat /\ Cum(k) <= 100
  <2> SUFFICES ASSUME NEW k \in 1..n PROVE Cum(k) \in Nat /\ Cum(k) <= 100 OBVIOUS
  <2>1. k \in 0..n /\ n \in 0..n /\ k <= n BY <1>3
  <2>2. Cum(k) <= Cum(n) BY <2>1, <1>3
  <2>3. Cum(k) = Cum(k - 1) + variants[k].weight /\ variants[k].weight \in Nat /\ Cum(k - 1) \in Nat
    BY <1>3
  <2> HIDE DEF Cum
  <2> QED BY <2>2, <2>3, <1>4
<1> HIDE DEF Cum
<1>6. ASSUME NEW r \in 0..99
      PROVE  selectVariant(variants, r) = variants[i].id <=> Cum(i - 1) <= r /\ r < Cum(i)
  <2> DEFINE hit == { k \in DOMAIN variants : r < Cum(k) }
  <2>1. n \in hit BY <1>3, <1>4
  <2>2. hit \subseteq Nat BY <1>3
  <2>3. selectVariant(variants, r) = variants[Min(hit)].id
    BY <2>1, Zenon DEF selectVariant, Cum
  <2>a. hit \subseteq DOMAIN variants OBVIOUS
  <2>b. \A k \in DOMAIN variants : k \in hit <=> r < Cum(k) OBVIOUS
  <2> HIDE DEF hit
  <2>4. Min(hit) \in hit /\ \A k \in hit : Min(hit) <= k BY <2>1, <2>2, LeastIsIn
  <2>5. PICK m \in 1..n : m = Min(hit) BY <2>4, <2>a, <1>3
  <2>6. selectVariant(variants, r) = variants[i].id <=> m = i
    BY <2>3, <2>5, <1>1, <1>3, IdsDiffer
  <2>7. ASSUME m = i PROVE Cum(i - 1) <= r /\ r < Cum(i)
    <3>1. r < Cum(i) BY <2>4, <2>5, <2>7, <2>b
    <3>2. CASE i = 1
      <4>1. i - 1 = 0 BY <3>2
      <4>2. Cum(i - 1) = 0 BY <4>1, <1>3
      <4> QED BY <4>2, <3>1
    <3>3. CASE i > 1
      <4>1. i - 1 \in 1..n /\ i - 1 < i BY <3>3, <1>3
      <4>2. i - 1 \notin hit BY <4>1, <2>4, <2>5, <2>7
      <4> QED BY <4>1, <4>2, <3>1, <2>b, <1>3, <1>5
    <3>4. i = 1 \/ i > 1 BY <1>3
    <3> QED BY <3>1, <3>2, <3>3, <3>4
  <2>8. ASSUME Cum(i - 1) <= r, r < Cum(i) PROVE m = i
    <3>1. i \in hit BY <2>8, <2>b
    <3>2. m <= i BY <3>1, <2>4, <2>5
    <3>3. m < i => Cum(m) <= Cum(i - 1) BY <1>3
    <3>4. r < Cum(m) BY <2>4, <2>5, <2>b, <1>3
    <3>5. Cum(m) \in Nat /\ Cum(i - 1) \in Nat BY <1>3, <1>5
    <3> QED BY <3>2, <3>3, <3>4, <3>5, <2>8, <1>3
  <2> QED BY <2>6, <2>7, <2>8
<1>7. PICK lo, hi : lo = Cum(i - 1) /\ hi = Cum(i) OBVIOUS
<1>8. /\ lo \in Nat /\ hi \in Nat /\ hi = lo + variants[i].weight /\ hi <= 100
      /\ variants[i].weight \in Nat
  BY <1>3, <1>5, <1>7
<1> DEFINE R == { r \in 0..99 : selectVariant(variants, r) = variants[i].id }
<1>9. \A r : r \in R <=> r \in lo..(hi - 1)
  <2>1. \A r \in R : r \in lo..(hi - 1) BY <1>6, <1>7, <1>8
  <2>2. ASSUME NEW r \in lo..(hi - 1) PROVE r \in R
    <3>1. r \in 0..99 /\ lo <= r /\ r < hi BY <1>8
    <3> QED BY <3>1, <1>6, <1>7
  <2> QED BY <2>1, <2>2
<1>10. Cardinality(R) = Cardinality(lo..(hi - 1))
  <2> HIDE DEF R
  <2> QED BY <1>9, CountsAgree
<1>11. Cardinality(lo..(hi - 1)) = variants[i].weight
  <2>1. PICK b \in Int : b = hi - 1 BY <1>8
  <2>2. Cardinality(lo..b) = IF lo > b THEN 0 ELSE b - lo + 1 BY <1>8, FS_Interval
  <2> QED BY <2>1, <2>2, <1>8
<1> QED BY <1>10, <1>11

\* The invariant of experiments says that they are fair.
LEMMA ExperimentsInvTells == ExperimentsInv => ExperimentsAreFair
BY SuggestionsFollow, RollsFollow DEF ExperimentsAreFair

\* Experiments in any execution of their own: what is suggested no other variant
\* beats by what was reported, and of a hundred rolls each gets its weight.
THEOREM ExperimentsStayFair == ExperimentsSpec => []ExperimentsAreFair
<1>1. ExperimentsSpec => []ExperimentsInv
  BY ExperimentsStart, ExperimentsStepInv, PTL DEF ExperimentsSpec
<1> QED BY <1>1, ExperimentsInvTells, PTL

-----------------------------------------------------------------------------
(* Advice.                                                                 *)

\* What a recommendation may never become, whatever feedback it gets.
Sound(r) ==
    /\ r.expiresAt \in Int
    /\ r.status = "ACCEPTED" => r.decidedAt < r.expiresAt
    /\ r.score > 0 => r.stock \notin {"OUT_OF_STOCK", "UNKNOWN"}

\* Every recommendation is sound.
AdviceInv ==
    /\ intelligenceClock \in Nat
    /\ \E n \in Nat : DOMAIN ranked = 1..n
    /\ \E R : recommendations \in Seq(R)
    /\ \A i \in 1..Len(recommendations) : Sound(recommendations[i])
    /\ \E P : predictions \in Seq(P)
    /\ \A i \in 1..Len(predictions) : predictions[i].validUntil \in Int

\* Advice starts within its invariant.
LEMMA AdviceStarts == IntelligenceInit => AdviceInv
<1> SUFFICES ASSUME IntelligenceInit PROVE AdviceInv OBVIOUS
<1>1. ranked = <<>> /\ recommendations = <<>> /\ predictions = <<>> /\ intelligenceClock = 0
  BY DEF IntelligenceInit
<1>2. 0 \in Nat /\ DOMAIN ranked = 1..0 BY <1>1
<1>3. recommendations \in Seq({}) /\ predictions \in Seq({}) BY <1>1
<1>4. Len(recommendations) = 0 /\ Len(predictions) = 0 BY <1>1
<1> QED BY <1>1, <1>2, <1>3, <1>4 DEF AdviceInv

\* A sequence over a set is one over a wider set.
LEMMA SeqWidens ==
    ASSUME NEW S, NEW T, NEW s \in Seq(S), S \subseteq T
    PROVE  s \in Seq(T)
OBVIOUS

\* What each field of a recommendation is.
LEMMA RecommendIs ==
    ASSUME NEW e, NEW status, NEW at
    PROVE  LET r == Recommend(e, status, at)
           IN  /\ r.product = e.product /\ r.score = e.score /\ r.stock = e.stock
               /\ r.expiresAt = e.expiresAt /\ r.status = status /\ r.decidedAt = at
BY DEF Recommend

\* What the ranker gives lives for a whole number of ticks, and nothing that is
\* not in stock has a score.
LEMMA RankedIs ==
    ASSUME NEW candidates \in Rankings, NEW c \in candidates, intelligenceClock \in Nat
    PROVE  /\ Ranked(c).expiresAt \in Int
           /\ Ranked(c).score > 0 => Ranked(c).stock \notin {"OUT_OF_STOCK", "UNKNOWN"}
<1>1. c.promoEnd \in Int /\ RankDay \in Nat BY IntelligenceAssumption DEF IntelligenceAssumption
<1>2. PICK score : score = Score(c) OBVIOUS
<1>3. PICK late : late = IF c.promoEnd >= 0 THEN c.promoEnd ELSE 0 OBVIOUS
<1>4. late \in Int BY <1>1, <1>3
<1>5. PICK ends : ends = MinOf(intelligenceClock + RankDay, MaxOf(intelligenceClock + 1, late)) OBVIOUS
<1>6. ends \in Int BY <1>1, <1>4, <1>5 DEF MinOf, MaxOf
<1>7. Ranked(c).score = score /\ Ranked(c).stock = c.stock /\ Ranked(c).expiresAt = ends
  BY <1>2, <1>3, <1>5 DEF Ranked
<1>8. c.stock \in {"OUT_OF_STOCK", "UNKNOWN"} => score = 0 BY <1>2 DEF Score
<1> QED BY <1>6, <1>7, <1>8

\* Ranking and recording the candidates keeps the invariant of advice.
LEMMA RankAndRecordKeeps ==
    ASSUME AdviceInv, NEW candidates \in Rankings, rankAndRecord(candidates)
    PROVE  AdviceInv'
<1>1. PICK entries \in Rank(candidates) :
         /\ ranked' = entries
         /\ recommendations' =
              recommendations \o [k \in DOMAIN entries |-> Recommend(entries[k], "ACTIVE", -1)]
         /\ predictions' =
              IF entries = <<>> THEN predictions
              ELSE Append(predictions, [product |-> entries[1].product, validUntil |-> entries[1].expiresAt])
         /\ intelligenceClock' = intelligenceClock
  BY DEF rankAndRecord
<1> DEFINE all == {Ranked(c) : c \in candidates}
           m == Cardinality(all)
<1>2. m \in Nat
  <2>1. IsFiniteSet(candidates) BY IntelligenceAssumption DEF IntelligenceAssumption
  <2> DEFINE entry == [c \in candidates |-> Ranked(c)]
  <2>2. entry \in Surjection(candidates, all) BY DEF Surjection
  <2> HIDE DEF all, entry
  <2>3. IsFiniteSet(all) BY <2>1, <2>2, FS_Surjection
  <2> QED BY <2>3, FS_CardinalityType
<1>3. entries \in [1..m -> all] /\ \A e \in all : \E k \in 1..m : entries[k] = e BY DEF Rank
<1>4. \A k \in 1..m : entries[k].expiresAt \in Int
                      /\ (entries[k].score > 0 => entries[k].stock \notin {"OUT_OF_STOCK", "UNKNOWN"})
  <2> SUFFICES ASSUME NEW k \in 1..m
               PROVE  entries[k].expiresAt \in Int
                      /\ (entries[k].score > 0 => entries[k].stock \notin {"OUT_OF_STOCK", "UNKNOWN"})
    OBVIOUS
  <2>1. PICK c \in candidates : entries[k] = Ranked(c) BY <1>3
  <2>2. intelligenceClock \in Nat BY DEF AdviceInv
  <2> QED BY <2>1, <2>2, RankedIs
<1> HIDE DEF all, m
<1>5. PICK new : new = [k \in 1..m |-> Recommend(entries[k], "ACTIVE", -1)] OBVIOUS
<1>6. DOMAIN entries = 1..m /\ recommendations' = recommendations \o new BY <1>1, <1>3, <1>5
<1>7. \A k \in 1..m : Sound(new[k])
  <2> SUFFICES ASSUME NEW k \in 1..m PROVE Sound(new[k]) OBVIOUS
  <2>1. new[k] = Recommend(entries[k], "ACTIVE", -1) BY <1>5
  <2>2. /\ new[k].expiresAt = entries[k].expiresAt /\ new[k].score = entries[k].score
        /\ new[k].stock = entries[k].stock /\ new[k].status = "ACTIVE"
    BY <2>1, RecommendIs
  <2> QED BY <2>2, <1>4 DEF Sound
<1>8. PICK N : N = {new[k] : k \in 1..m} OBVIOUS
<1>9. new \in Seq(N) /\ Len(new) = m BY <1>2, <1>5, <1>8
<1>10. PICK R : recommendations \in Seq(R) BY DEF AdviceInv
<1>11. PICK U : U = R \cup N OBVIOUS
<1>12. recommendations \in Seq(U) /\ new \in Seq(U)
  <2>1. R \subseteq U /\ N \subseteq U BY <1>11
  <2> QED BY <2>1, <1>9, <1>10, SeqWidens
<1>13. PICK n \in Nat : n = Len(recommendations) BY <1>10
<1>14. /\ recommendations' \in Seq(U) /\ Len(recommendations') = n + m
       /\ \A j \in 1..n : recommendations'[j] = recommendations[j]
       /\ \A j \in 1..m : recommendations'[n + j] = new[j]
  BY <1>6, <1>9, <1>12, <1>13, Joined
<1>15. \A i \in 1..n : Sound(recommendations[i]) BY <1>13 DEF AdviceInv
<1>16. \A i \in 1..(n + m) : Sound(recommendations'[i])
  <2> SUFFICES ASSUME NEW i \in 1..(n + m) PROVE Sound(recommendations'[i]) OBVIOUS
  <2>1. CASE i \in 1..n
    <3>1. recommendations'[i] = recommendations[i] BY <2>1, <1>14
    <3>2. Sound(recommendations[i]) BY <2>1, <1>15
    <3> QED BY <3>1, <3>2
  <2>2. CASE i \notin 1..n
    <3>1. PICK j \in 1..m : i = n + j
      <4>1. i - n \in 1..m /\ i = n + (i - n) BY <2>2, <1>2, <1>13
      <4> QED BY <4>1
    <3>2. recommendations'[i] = new[j] BY <3>1, <1>14
    <3> QED BY <3>2, <1>7
  <2> QED BY <2>1, <2>2
<1>17. (\E Q : predictions' \in Seq(Q)) /\ \A i \in 1..Len(predictions') : predictions'[i].validUntil \in Int
  <2>1. PICK P : predictions \in Seq(P) BY DEF AdviceInv
  <2>2. \A i \in 1..Len(predictions) : predictions[i].validUntil \in Int BY DEF AdviceInv
  <2>3. CASE entries = <<>> BY <2>1, <2>2, <2>3, <1>1
  <2>4. CASE entries # <<>>
    <3>1. m # 0 BY <2>4, <1>2, <1>3
    <3>2. 1 \in 1..m BY <3>1, <1>2
    <3>3. PICK x : x = [product |-> entries[1].product, validUntil |-> entries[1].expiresAt] OBVIOUS
    <3>4. x.validUntil \in Int BY <3>2, <3>3, <1>4
    <3>5. predictions' = Append(predictions, x) BY <2>4, <3>3, <1>1
    <3>6. PICK Q : Q = P \cup {x} OBVIOUS
    <3>7. predictions \in Seq(Q) /\ x \in Q
      <4>1. P \subseteq Q /\ x \in Q BY <3>6
      <4> QED BY <4>1, <2>1, SeqWidens
    <3>8. PICK l \in Nat : l = Len(predictions) BY <2>1
    <3>9. /\ predictions' \in Seq(Q) /\ Len(predictions') = l + 1 /\ predictions'[l + 1] = x
          /\ \A i \in 1..l : predictions'[i] = predictions[i]
      BY <3>5, <3>7, <3>8
    <3>10. \A i \in 1..(l + 1) : i = l + 1 \/ i \in 1..l BY <3>8
    <3>11. \A i \in 1..(l + 1) : predictions'[i].validUntil \in Int BY <3>4, <3>8, <3>9, <3>10, <2>2
    <3> QED BY <3>9, <3>11
  <2> QED BY <2>3, <2>4
<1>18. \E k \in Nat : DOMAIN ranked' = 1..k BY <1>1, <1>2, <1>6
<1>19. intelligenceClock' \in Nat BY <1>1 DEF AdviceInv
<1> QED BY <1>14, <1>16, <1>17, <1>18, <1>19 DEF AdviceInv

\* The seller's feedback keeps the invariant of advice.
LEMMA FeedbackKeeps ==
    ASSUME AdviceInv, NEW i \in 1..Len(recommendations), NEW decision, feedback(i, decision)
    PROVE  AdviceInv'
<1>1. PICK late \in BOOLEAN :
         late = (decision = "ACCEPTED" /\ recommendations[i].expiresAt <= intelligenceClock)
  OBVIOUS
<1>2. PICK status : status = IF late THEN "EXPIRED" ELSE decision OBVIOUS
<1>3. PICK new : new = Recommend(recommendations[i], status, intelligenceClock) OBVIOUS
<1>4. /\ recommendations' = [recommendations EXCEPT ![i] = new]
      /\ ranked' = ranked /\ predictions' = predictions /\ intelligenceClock' = intelligenceClock
  BY <1>1, <1>2, <1>3 DEF feedback
<1>5. Sound(recommendations[i]) /\ intelligenceClock \in Nat BY DEF AdviceInv
<1>6. /\ new.score = recommendations[i].score /\ new.stock = recommendations[i].stock
      /\ new.expiresAt = recommendations[i].expiresAt /\ new.status = status
      /\ new.decidedAt = intelligenceClock
  BY <1>3, RecommendIs
<1>7. status = "ACCEPTED" => ~(recommendations[i].expiresAt <= intelligenceClock) BY <1>1, <1>2
<1>8. Sound(new) BY <1>5, <1>6, <1>7 DEF Sound
<1>9. PICK R : recommendations \in Seq(R) BY DEF AdviceInv
<1>10. PICK U : U = R \cup {new} OBVIOUS
<1>11. recommendations \in Seq(U)
  <2>1. R \subseteq U BY <1>10
  <2> QED BY <2>1, <1>9, SeqWidens
<1>12. new \in U BY <1>10
<1>13. /\ recommendations' \in Seq(U) /\ Len(recommendations') = Len(recommendations)
       /\ \A j \in 1..Len(recommendations) :
             recommendations'[j] = IF j = i THEN new ELSE recommendations[j]
  BY <1>4, <1>11, <1>12
<1>14. \A j \in 1..Len(recommendations) : Sound(recommendations[j]) BY DEF AdviceInv
<1>15. \A j \in 1..Len(recommendations') : Sound(recommendations'[j])
  <2> SUFFICES ASSUME NEW j \in 1..Len(recommendations) PROVE Sound(recommendations'[j]) BY <1>13
  <2>1. CASE j = i BY <2>1, <1>8, <1>13
  <2>2. CASE j # i BY <2>2, <1>13, <1>14
  <2> QED BY <2>1, <2>2
<1> QED BY <1>4, <1>5, <1>13, <1>15 DEF AdviceInv

\* Every step of advice keeps its invariant.
LEMMA AdviceStepInv == AdviceInv /\ [IntelligenceNext]_intelligenceVars => AdviceInv'
<1> SUFFICES ASSUME AdviceInv, [IntelligenceNext]_intelligenceVars PROVE AdviceInv' OBVIOUS
<1>1. CASE UNCHANGED intelligenceVars BY <1>1 DEF intelligenceVars, AdviceInv
<1>2. ASSUME NEW v \in FeatureVersions, NEW at \in 0..IntelligenceEnd, setValue(v, at) PROVE AdviceInv'
  BY <1>2 DEF setValue, AdviceInv
<1>3. ASSUME NEW candidates \in Rankings, rankAndRecord(candidates) PROVE AdviceInv'
  BY <1>3, RankAndRecordKeeps
<1>4. ASSUME NEW i \in 1..Len(recommendations), NEW decision, feedback(i, decision) PROVE AdviceInv'
  BY <1>4, FeedbackKeeps
<1>5. CASE intelligenceTime
  <2>1. intelligenceClock' \in Nat BY <1>5 DEF intelligenceTime, AdviceInv
  <2> QED BY <1>5, <2>1 DEF intelligenceTime, AdviceInv
<1> QED BY <1>1, <1>2, <1>3, <1>4, <1>5 DEF IntelligenceNext

-----------------------------------------------------------------------------
(* The slots.                                                              *)

\* The first n of a finite set of places are at most n.
LEMMA BestAreFew ==
    ASSUME NEW S, IsFiniteSet(S), S \subseteq Nat, NEW n \in Nat
    PROVE  Cardinality(Best(S, n)) \in Nat /\ Cardinality(Best(S, n)) <= n
<1> DEFINE B == Best(S, n)
<1>1. B \subseteq S /\ \A k \in B : Cardinality({j \in S : j < k}) < n BY DEF Best
<1> HIDE DEF B
<1>2. IsFiniteSet(B) /\ Cardinality(B) \in Nat BY <1>1, FS_Subset, FS_CardinalityType
<1>3. CASE B = {}
  <2>1. Cardinality(B) = 0 BY <1>3, FS_EmptySet
  <2> QED BY <2>1, <1>2 DEF B
<1>4. CASE B # {}
  <2>1. \A k \in B : k \in Int BY <1>1
  <2>2. PICK m \in B : \A k \in B : m >= k BY <1>2, <1>4, <2>1, MaxIsGreatest
  <2> DEFINE L == {j \in S : j < m}
  <2>3. IsFiniteSet(L) /\ Cardinality(L) \in Nat
    <3>1. L \subseteq S OBVIOUS
    <3> QED BY <3>1, FS_Subset, FS_CardinalityType
  <2>4. Cardinality(L) < n BY <1>1
  <2>5. m \notin L /\ B \subseteq L \cup {m} BY <1>1, <2>1, <2>2
  <2> HIDE DEF L
  <2>6. IsFiniteSet(L \cup {m}) /\ Cardinality(L \cup {m}) = Cardinality(L) + 1
    BY <2>3, <2>5, FS_AddElement
  <2>7. Cardinality(B) <= Cardinality(L \cup {m}) BY <2>5, <2>6, FS_Subset
  <2> QED BY <2>3, <2>4, <2>6, <2>7, <1>2 DEF B
<1> QED BY <1>3, <1>4

\* The slots are shared out among the products advised.
LEMMA SlotsShared == ASSUME AdviceInv PROVE SlotsAreShared
<1> SUFFICES ASSUME NEW slots \in SlotCounts
             PROVE  LET a == Allocate(slots)
                        chosen == {ranked[k].product : k \in a.explore}
                        others == {ranked[k].product : k \in a.exploit}
                    IN  /\ chosen \cap others = {}
                        /\ Cardinality(a.explore) + Cardinality(a.exploit) <= slots
                        /\ 100 * Cardinality(a.explore) <= ExplorePercent * slots
  BY DEF SlotsAreShared
<1>1. slots \in Nat /\ ExplorePercent \in 0..100 BY IntelligenceAssumption DEF IntelligenceAssumption
<1>2. PICK product \in Nat : product = slots * ExplorePercent BY <1>1
<1>3. product <= slots * 100 /\ product = ExplorePercent * slots BY <1>1, <1>2
<1>4. PICK explore \in Nat : explore = product \div 100 BY <1>2
<1>5. 100 * explore <= product /\ explore <= slots BY <1>1, <1>2, <1>3, <1>4
<1>6. PICK n \in Nat : DOMAIN ranked = 1..n BY DEF AdviceInv
<1>7. IsFiniteSet(DOMAIN ranked) /\ DOMAIN ranked \subseteq Nat
  <2>1. 1 \in Int /\ n \in Int OBVIOUS
  <2>2. IsFiniteSet(1..n) BY <2>1, FS_Interval
  <2> QED BY <2>2, <1>6
<1>8. PICK explorers : explorers = Best(LowEntries, explore) OBVIOUS
<1>9. PICK others : others = {k \in DOMAIN ranked : ranked[k].product \notin {ranked[j].product : j \in explorers}}
  OBVIOUS
<1>10. PICK exploiters : exploiters = Best(others, slots - explore) OBVIOUS
<1>11. Allocate(slots) = [explore |-> explorers, exploit |-> exploiters]
  BY <1>2, <1>4, <1>8, <1>9, <1>10, Zenon DEF Allocate
<1>12. Cardinality(explorers) \in Nat /\ Cardinality(explorers) <= explore
  <2>1. LowEntries \subseteq DOMAIN ranked BY DEF LowEntries
  <2>2. IsFiniteSet(LowEntries) BY <2>1, <1>7, FS_Subset
  <2>3. LowEntries \subseteq Nat BY <2>1, <1>7
  <2> QED BY <2>2, <2>3, <1>8, BestAreFew
<1>13. Cardinality(exploiters) \in Nat /\ Cardinality(exploiters) <= slots - explore
  <2>1. others \subseteq DOMAIN ranked BY <1>9
  <2>2. IsFiniteSet(others) BY <2>1, <1>7, FS_Subset
  <2>3. others \subseteq Nat BY <2>1, <1>7
  <2>4. PICK m \in Nat : m = slots - explore BY <1>1, <1>5
  <2> QED BY <2>2, <2>3, <2>4, <1>10, BestAreFew
<1>14. exploiters \subseteq others BY <1>10 DEF Best
<1>15. {ranked[k].product : k \in explorers} \cap {ranked[k].product : k \in exploiters} = {}
  BY <1>9, <1>14
<1>16. Cardinality(explorers) + Cardinality(exploiters) <= slots BY <1>1, <1>12, <1>13
<1>17. 100 * Cardinality(explorers) <= ExplorePercent * slots BY <1>2, <1>3, <1>5, <1>12
<1> QED BY <1>11, <1>15, <1>16, <1>17

\* What is advised is what the latest record says.
LEMMA AdviceIsCurrentThen == ASSUME AdviceInv PROVE AdviceIsCurrent
<1>1. \A i \in 1..Len(recommendations) : Sound(recommendations[i]) BY DEF AdviceInv
<1>2. \A v \in ReadFeature : intelligenceClock - featureValues[v] <= FeatureWindow BY DEF ReadFeature
<1>3. ASSUME NEW i \in 1..Len(predictions), NEW latest, latest = LatestPrediction(predictions[i].product)
      PROVE  /\ \A j \in latest : predictions[j].validUntil > intelligenceClock
             /\ predictions[i].validUntil > intelligenceClock => latest # {} /\ \A j \in latest : j >= i
  <2> DEFINE valid == {j \in 1..Len(predictions) : /\ predictions[j].product = predictions[i].product
                                                   /\ predictions[j].validUntil > intelligenceClock}
  <2>1. latest = {j \in valid : \A k \in valid : k <= j} BY <1>3, Zenon DEF LatestPrediction
  <2>2. \A j \in valid : predictions[j].validUntil > intelligenceClock OBVIOUS
  <2>3. ASSUME predictions[i].validUntil > intelligenceClock
        PROVE  latest # {} /\ \A j \in latest : j >= i
    <3>1. i \in valid BY <2>3
    <3>2. Len(predictions) \in Nat BY DEF AdviceInv
    <3>3. IsFiniteSet(valid)
      <4>1. 1 \in Int /\ Len(predictions) \in Int BY <3>2
      <4>2. IsFiniteSet(1..Len(predictions)) BY <4>1, FS_Interval
      <4>3. valid \subseteq 1..Len(predictions) OBVIOUS
      <4> QED BY <4>2, <4>3, FS_Subset
    <3>4. \A j \in valid : j \in Int BY <3>2
    <3> HIDE DEF valid
    <3>5. valid # {} BY <3>1
    <3>6. Max(valid) \in valid /\ \A j \in valid : Max(valid) >= j BY <3>3, <3>4, <3>5, MaxIsGreatest
    <3>7. Max(valid) \in latest BY <2>1, <3>4, <3>6
    <3>8. \A j \in latest : j >= i BY <2>1, <3>1, <3>4
    <3> QED BY <3>7, <3>8
  <2>4. \A j \in latest : predictions[j].validUntil > intelligenceClock BY <2>1, <2>2
  <2> QED BY <2>3, <2>4
<1> QED BY <1>1, <1>2, <1>3 DEF AdviceIsCurrent, Sound

\* The invariant of advice says that it holds.
LEMMA AdviceInvTells == AdviceInv => AdviceHolds
BY SlotsShared, AdviceIsCurrentThen DEF AdviceHolds

\* Advice in any execution of its own: what was accepted was accepted in time and
\* is in stock, predictions are current, and the slots are shared.
THEOREM AdviceStaysSound == IntelligenceSpec => []AdviceHolds
<1>1. IntelligenceSpec => []AdviceInv
  BY AdviceStarts, AdviceStepInv, PTL DEF IntelligenceSpec
<1> QED BY <1>1, AdviceInvTells, PTL

-----------------------------------------------------------------------------
(* The types of what is recorded.                                          *)

\* The billing invariant holds the types of billing.
LEMMA BillingTypes == BillingInv => BillingTypeOK
<1> SUFFICES ASSUME BillingInv PROVE BillingTypeOK OBVIOUS
<1>1. usage \in Seq([quantity : Quantities, at : UsageTimes]) BY DEF BillingInv, UsageEvents
<1>2. ASSUME NEW n \in DOMAIN invoices
      PROVE  invoices[n].status \in {"draft", "issued", "partially_paid", "paid"}
  <2>1. invoices[n] \in Invoices BY DEF BillingInv
  <2> QED BY <2>1 DEF Invoices
<1> QED BY <1>1, <1>2 DEF BillingInv, BillingTypeOK

\* The invariant of telemetry holds its types.
LEMMA TelemetryTypes == TelemetryInv => TelemetryTypeOK
BY DEF TelemetryInv, TelemetryTyped, TelemetryTypeOK, Rows

\* Analytics starts with its types.
LEMMA AnalyticsTypesStart == AnalyticsInit => AnalyticsTypeOK
<1> SUFFICES ASSUME AnalyticsInit PROVE AnalyticsTypeOK OBVIOUS
<1>1. Stored = {} BY DEF AnalyticsInit, Stored
<1>2. ToSet(arrivals) = {} BY DEF AnalyticsInit, ToSet
<1> QED BY <1>1, <1>2 DEF AnalyticsTypeOK, OfType

\* Every step of analytics keeps its types.
LEMMA AnalyticsTypesStep ==
    ASSUME AnalyticsInv, AnalyticsInv', AnalyticsTypeOK, [AnalyticsNext]_analyticsVars
    PROVE  AnalyticsTypeOK'
<1>1. ASSUME NEW e \in Stored' PROVE ingested'[e].type \in EventTypes /\ ingested'[e].ref \in Nat
  BY DEF Stored, AnalyticsInv
<1>2. CASE ingested' = ingested /\ arrivals' = arrivals
  <2>1. Stored' = Stored BY <1>2 DEF Stored
  <2>2. OfType(Stored, "conversion")' = OfType(Stored, "conversion") BY <1>2, <2>1 DEF OfType
  <2> QED BY <1>1, <1>2, <2>2 DEF AnalyticsTypeOK, ToSet
<1>3. ASSUME NEW d \in Deliveries, NEW at \in 0..(AnalyticsEnd + 1), ingestEvent(d, at)
      PROVE  AnalyticsTypeOK'
  <2>1. /\ d.id \in EventIds /\ d.type \in EventTypes
    BY DeliveriesAssumption DEF DeliveriesAssumption, EventIds
  <2>0. PICK r : r = [type |-> d.type, at |-> at, ref |-> d.ref, value |-> d.value,
                      received |-> analyticsClock]
    OBVIOUS
  <2>2. ingested' = [ingested EXCEPT ![d.id] = r] /\ r.type = d.type
    BY <1>3, <2>0 DEF ingestEvent
  <2>3. NoEvent.type = "none" /\ "none" \notin EventTypes BY DEF NoEvent, EventTypes
  <2>4. /\ DOMAIN ingested' = EventIds /\ ingested'[d.id] = r /\ ingested[d.id] = NoEvent
        /\ \A e \in EventIds : e # d.id => ingested'[e] = ingested[e]
    BY <1>3, <2>1, <2>2 DEF AnalyticsInv, ingestEvent, IsNew
  <2>5. Stored' = Stored \cup {d.id} /\ d.id \notin Stored BY <2>1, <2>2, <2>3, <2>4 DEF Stored
  <2>6. \A e \in Stored : e \in EventIds /\ ingested'[e] = ingested[e] BY <2>4, <2>5 DEF Stored
  <2>7. OfType(Stored, "conversion")' =
          OfType(Stored, "conversion") \cup (IF d.type = "conversion" THEN {d.id} ELSE {})
    BY <2>2, <2>4, <2>5, <2>6 DEF OfType
  <2>8. ToSet(arrivals)' = ToSet(arrivals) \cup (IF d.type = "conversion" THEN {d.id} ELSE {})
    <3>1. arrivals \in Seq(EventIds) BY DEF AnalyticsInv
    <3>2. CASE d.type # "conversion" BY <1>3, <3>2 DEF ingestEvent, ToSet
    <3>3. CASE d.type = "conversion"
      <4>1. arrivals' = Append(arrivals, d.id) BY <1>3, <3>3 DEF ingestEvent
      <4>2. PICK l \in Nat : l = Len(arrivals) /\ DOMAIN arrivals = 1..l BY <3>1
      <4>3. /\ DOMAIN arrivals' = 1..(l + 1) /\ arrivals'[l + 1] = d.id
            /\ \A k \in 1..l : arrivals'[k] = arrivals[k]
        BY <3>1, <4>1, <4>2, <2>1
      <4>4. \A k \in 1..(l + 1) : k = l + 1 \/ k \in 1..l BY <4>2
      <4>5. l + 1 \in 1..(l + 1) /\ \A k \in 1..l : k \in 1..(l + 1) BY <4>2
      <4> QED BY <3>3, <4>2, <4>3, <4>4, <4>5 DEF ToSet
    <3> QED BY <3>2, <3>3
  <2> QED BY <1>1, <2>7, <2>8 DEF AnalyticsTypeOK
<1> QED BY <1>2, <1>3 DEF AnalyticsNext, analyticsTime, analyticsVars

\* A set without two elements is empty or a singleton.
AtMostOne(S) == \A a, b \in S : a = b

\* A set with at most one element has a count of at most one.
LEMMA FewAreOne == ASSUME NEW S, AtMostOne(S) PROVE Cardinality(S) <= 1
<1>1. CASE S = {}
  <2>1. Cardinality({}) = 0 BY FS_EmptySet
  <2>2. Cardinality(S) = 0 BY <1>1, <2>1
  <2> QED BY <2>2
<1>2. CASE S # {}
  <2>1. PICK a : a \in S BY <1>2
  <2>2. S = {a} BY <2>1 DEF AtMostOne
  <2>3. Cardinality({a}) = 1 BY FS_Singleton
  <2>4. Cardinality(S) = 1 BY <2>2, <2>3
  <2> QED BY <2>4
<1> QED BY <1>1, <1>2

AiTypes ==
    /\ registered \subseteq AiProviders
    /\ requests \in 0..GenerationLimit
    /\ \A v \in TemplateVersions : AtMostOne(outputs[v])
    /\ aiClock \in 0..AiEnd

\* What is kept of the types of generation is its type invariant.
LEMMA AiTypesTell == AiTypes => AiTypeOK
BY FewAreOne DEF AiTypes, AiTypeOK

\* Generation starts with its types.
LEMMA AiTypesStart == AiInit => AiTypes
BY AiAssumption DEF AiInit, AiTypes, AiAssumption, AtMostOne

\* Every step of generation keeps its types.
LEMMA AiTypesStep == ASSUME AiInv, AiTypes, [AiNext]_aiVars PROVE AiTypes'
<1>0. DOMAIN outputs = TemplateVersions BY DEF AiInv
<1>1. AiEnd \in Nat /\ GenerationLimit \in Nat BY AiAssumption DEF AiAssumption
<1>2. CASE UNCHANGED <<registered, requests, outputs, aiClock>> BY <1>2 DEF AiTypes
<1>3. ASSUME NEW p \in AiProviders, registerProvider(p) PROVE AiTypes'
  BY <1>3 DEF AiTypes, registerProvider
<1>4. CASE aiTime BY <1>1, <1>4 DEF AiTypes, aiTime
<1>5. ASSUME NEW v, generateCached(v) PROVE AiTypes'
  <2>1. \A w \in TemplateVersions : outputs'[w] \subseteq outputs[w]
    BY <1>0, <1>5 DEF generateCached, Cached
  <2>2. UNCHANGED <<registered, requests, aiClock>> BY <1>5 DEF generateCached
  <2> QED BY <2>1, <2>2 DEF AiTypes, AtMostOne
<1>6. ASSUME NEW v, NEW outcome, requests < GenerationLimit, generateFresh(v, outcome) PROVE AiTypes'
  <2>1. PICK kept : /\ outputs' = [outputs EXCEPT ![v] = kept]
                    /\ kept = {[request |-> requests + 1, at |-> aiClock]} \/ kept = {}
    BY <1>6 DEF generateFresh
  <2>2. AtMostOne(kept) BY <2>1 DEF AtMostOne
  <2>3. \A w \in TemplateVersions : outputs'[w] = kept \/ outputs'[w] = outputs[w] BY <1>0, <2>1
  <2>4. requests' = requests + 1 /\ UNCHANGED <<registered, aiClock>> BY <1>6 DEF generateFresh
  <2> QED BY <1>1, <1>6, <2>2, <2>3, <2>4 DEF AiTypes
<1>7. ASSUME NEW v, NEW outcome, generate(v, outcome) PROVE AiTypes'
  BY <1>5, <1>6, <1>7 DEF generate
<1> QED
  BY <1>2, <1>3, <1>4, <1>7
  DEF AiNext, aiVars, runAgent, registerAgent, registerPromptTemplate

Scenes == [label : DOMAIN Weight, start : Int, end : Int]
ScriptRecords == [brief : Nat \ {0}, seconds : Nat, hook : Nat, scenes : Seq(Scenes)]
VideoJobs == [script : Nat \ {0}, status : {"succeeded"}]

\* The content factory starts with its types.
LEMMA ContentTypesStart == ContentInit => ContentTypeOK
BY DEF ContentInit, ContentTypeOK

\* Every section of a script is one that has a weight.
LEMMA SectionsWeigh == ASSUME NEW g PROVE Sections(g) \in Seq(DOMAIN Weight)
<1>1. CASE g.proof BY <1>1 DEF Sections, Weight
<1>2. CASE ~g.proof BY <1>2 DEF Sections, Weight
<1> QED BY <1>1, <1>2

\* A generated script is a record of its type.
LEMMA ScriptTyped ==
    ASSUME ContentInv, scripts \in Seq(ScriptRecords), NEW b \in DOMAIN briefs,
           NEW format \in DOMAIN ScriptFormats, NEW hook, generateScript(b, format, hook)
    PROVE  scripts' \in Seq(ScriptRecords) /\ DOMAIN scripts \subseteq DOMAIN scripts'
<1>1. PICK g, sections, budget, end, scenes :
         /\ g = briefs[b] /\ sections = Sections(g) /\ budget = ScriptFormats[format]
         /\ end = Ends(sections, budget)
         /\ scenes = [i \in 1..Len(sections) |->
                         [label |-> sections[i], start |-> end[i - 1], end |-> end[i]]]
  OBVIOUS
<1>2. PICK new : new = [brief |-> b, seconds |-> budget, hook |-> hook, scenes |-> scenes] OBVIOUS
<1>3. hook \in generateHooks(g, 20) /\ scripts' = Append(scripts, new)
  BY <1>1, <1>2 DEF generateScript
<1>4. budget \in Nat /\ budget >= 8 BY <1>1, ContentAssumption DEF ContentAssumption
<1>5. PICK n \in {7, 8} : Len(sections) = n BY <1>1, SectionsAre
<1>6. \A i \in 1..n : end[i - 1] \in Nat /\ end[i] \in Nat BY <1>1, <1>4, <1>5, EndsFill
<1>7. \A i \in 1..n : sections[i] \in DOMAIN Weight BY <1>1, <1>5, SectionsWeigh
<1>8. scenes \in Seq(Scenes)
  <2>1. \A i \in 1..n : [label |-> sections[i], start |-> end[i - 1], end |-> end[i]] \in Scenes
    BY <1>6, <1>7 DEF Scenes
  <2>2. scenes \in [1..n -> Scenes] BY <1>1, <1>5, <2>1
  <2> QED BY <1>5, <2>2
<1>9. hook \in Nat
  <2>1. Len(HookTemplates) = 13 /\ HookVariants = 6 BY DEF HookTemplates, HookVariants
  <2> QED BY <1>3, <2>1 DEF generateHooks, SafeHooks, Tried
<1>10. b \in Nat \ {0} BY DEF ContentInv
<1>11. new \in ScriptRecords BY <1>2, <1>4, <1>8, <1>9, <1>10 DEF ScriptRecords
<1> QED BY <1>3, <1>11

\* Every step of the content factory keeps its types.
LEMMA ContentTypesStep ==
    ASSUME ContentInv, ContentInv', ContentTypeOK, [ContentNext]_contentVars PROVE ContentTypeOK'
<1> USE DEF ScriptRecords, Scenes, VideoJobs
<1>1. /\ briefs \in Seq(Goods) /\ scripts \in Seq(ScriptRecords) /\ boards \subseteq DOMAIN scripts
      /\ videoJobs \in Seq(VideoJobs) /\ approvedDrafts \subseteq Drafts
      /\ showcases \in Seq(ShowcaseRecords) /\ DOMAIN scripts \subseteq Nat \ {0}
  BY DEF ContentTypeOK, ContentInv
<1>2. /\ briefs' \in Seq(Goods) /\ showcases' \in Seq([package : Packages, posted : BOOLEAN])
      /\ refusedBoards' = {}
  BY DEF ContentInv, ShowcaseRecords
<1>3. ASSUME scripts' \in Seq(ScriptRecords), boards' \subseteq DOMAIN scripts',
             videoJobs' \in Seq(VideoJobs), approvedDrafts' \subseteq Drafts
      PROVE  ContentTypeOK'
  BY <1>2, <1>3 DEF ContentTypeOK
<1> HIDE DEF ScriptRecords, VideoJobs
<1>4. CASE UNCHANGED <<scripts, boards, videoJobs, approvedDrafts>> BY <1>1, <1>3, <1>4
<1>5. ASSUME NEW b \in DOMAIN briefs, NEW f \in DOMAIN ScriptFormats, NEW hook, generateScript(b, f, hook)
      PROVE  ContentTypeOK'
  <2>1. scripts' \in Seq(ScriptRecords) /\ DOMAIN scripts \subseteq DOMAIN scripts'
    BY <1>1, <1>5, ScriptTyped
  <2>2. UNCHANGED <<boards, videoJobs, approvedDrafts>> BY <1>5 DEF generateScript
  <2> QED BY <1>1, <1>3, <2>1, <2>2
<1>6. ASSUME NEW s \in DOMAIN scripts, createStoryboard(s) PROVE ContentTypeOK'
  BY <1>1, <1>3, <1>6 DEF createStoryboard
<1>7. ASSUME NEW s \in 1..ScriptLimit, createJob(s) PROVE ContentTypeOK'
  <2>1. [script |-> s, status |-> "succeeded"] \in VideoJobs BY <1>1 DEF VideoJobs
  <2> QED BY <1>1, <1>3, <1>7, <2>1 DEF createJob
<1>8. ASSUME NEW d \in Drafts, scoreContentQuality(d) PROVE ContentTypeOK'
  BY <1>1, <1>3, <1>8 DEF scoreContentQuality
<1> QED
  BY <1>4, <1>5, <1>6, <1>7, <1>8
  DEF ContentNext, contentVars, createCreativeBrief, createShowcasePublicationJob, showcasePosted

\* An id has one experiment at most, and its arms count and sum.
ExperimentsTypes ==
    /\ \A x \in ExperimentIds :
         /\ experiments[x] \subseteq [owner : ExperimentTenants, variants : VariantSets]
         /\ AtMostOne(experiments[x])
    /\ \A x \in ExperimentIds : \A v \in DOMAIN arms[x] :
         arms[x][v] \in [count : Nat, rewardSum : Int]

\* The invariant of experiments and the rest of their types are the type invariant.
LEMMA ExperimentsTypesTell == ExperimentsInv /\ ExperimentsTypes => ExperimentsTypeOK
BY FewAreOne DEF ExperimentsTypes, ExperimentsTypeOK, ExperimentsInv, OutcomeRows

\* Experiments start with their types.
LEMMA ExperimentsTypesStart == ExperimentsInit => ExperimentsTypes
BY DEF ExperimentsInit, ExperimentsTypes, AtMostOne

\* Every step of experiments keeps their types.
LEMMA ExperimentsTypesStep ==
    ASSUME ExperimentsInv, ExperimentsTypes, [ExperimentsNext]_experimentVars PROVE ExperimentsTypes'
<1>0. DOMAIN experiments = ExperimentIds /\ DOMAIN arms = ExperimentIds BY DEF ExperimentsInv
<1>1. CASE UNCHANGED experimentVars BY <1>1 DEF experimentVars, ExperimentsTypes
<1>2. ASSUME NEW t \in ExperimentTenants, NEW x \in ExperimentIds, NEW vs \in VariantSets,
             createExperiment(t, x, vs)
      PROVE  ExperimentsTypes'
  <2>1. arms' = arms BY <1>2 DEF createExperiment
  <2>2. PICK new : /\ new = [owner |-> t, variants |-> vs]
                   /\ experiments' = [experiments EXCEPT ![x] = {new}]
    BY <1>2 DEF createExperiment
  <2>3. AtMostOne({new}) /\ {new} \subseteq [owner : ExperimentTenants, variants : VariantSets]
    BY <2>2 DEF AtMostOne
  <2>4. \A y \in ExperimentIds : experiments'[y] = {new} \/ experiments'[y] = experiments[y]
    BY <1>0, <2>2
  <2> QED BY <2>1, <2>3, <2>4 DEF ExperimentsTypes
<1>3. ASSUME NEW x \in ExperimentIds, NEW v, NEW reward \in Rewards, recordOutcome(x, v, reward)
      PROVE  ExperimentsTypes'
  <2>1. experiments' = experiments BY <1>3 DEF recordOutcome
  <2>2. PICK new : /\ new = [count |-> Arm(x, v).count + 1, rewardSum |-> Arm(x, v).rewardSum + reward]
                   /\ arms' = [arms EXCEPT ![x] =
                        [w \in DOMAIN arms[x] \cup {v} |-> IF w = v THEN new ELSE arms[x][w]]]
    BY <1>3 DEF recordOutcome
  <2>3. Arm(x, v).count \in Nat /\ Arm(x, v).rewardSum \in Int BY DEF ExperimentsInv, ArmTells
  <2>4. new \in [count : Nat, rewardSum : Int]
    BY <2>2, <2>3, ExperimentsAssumption DEF ExperimentsAssumption
  <2>5. /\ arms'[x] = [w \in DOMAIN arms[x] \cup {v} |-> IF w = v THEN new ELSE arms[x][w]]
        /\ \A y \in ExperimentIds : y # x => arms'[y] = arms[y]
    BY <1>0, <2>2
  <2>6. ASSUME NEW w \in DOMAIN arms'[x] PROVE arms'[x][w] \in [count : Nat, rewardSum : Int]
    <3>1. w \in DOMAIN arms[x] \cup {v} /\ arms'[x][w] = IF w = v THEN new ELSE arms[x][w] BY <2>5
    <3> QED BY <3>1, <2>4 DEF ExperimentsTypes
  <2> QED BY <2>1, <2>5, <2>6 DEF ExperimentsTypes
<1> QED BY <1>1, <1>2, <1>3 DEF ExperimentsNext

\* What is advised is in one of the states a decision leaves it in.
IntelligenceTypes ==
    /\ featureValues \in [FeatureVersions -> -1..IntelligenceEnd]
    /\ intelligenceClock \in 0..IntelligenceEnd
    /\ \A i \in 1..Len(recommendations) :
          recommendations[i].status \in FeedbackDecisions \cup {"ACTIVE", "EXPIRED"}
    /\ Len(predictions) <= RankingLimit

\* What is kept of the types of advice is its type invariant.
LEMMA IntelligenceTypesTell == IntelligenceTypes => IntelligenceTypeOK
BY DEF IntelligenceTypes, IntelligenceTypeOK

\* Advice starts with its types.
LEMMA IntelligenceTypesStart == IntelligenceInit => IntelligenceTypes
BY IntelligenceAssumption DEF IntelligenceInit, IntelligenceTypes, IntelligenceAssumption

\* Every step of advice keeps its types.
LEMMA IntelligenceTypesStep ==
    ASSUME AdviceInv, AdviceInv', IntelligenceTypes, [IntelligenceNext]_intelligenceVars
    PROVE  IntelligenceTypes'
<1>0. /\ IntelligenceEnd \in Nat /\ RankingLimit \in Nat /\ FeedbackChoices \subseteq FeedbackDecisions
  BY IntelligenceAssumption DEF IntelligenceAssumption
<1>1. CASE UNCHANGED intelligenceVars BY <1>1 DEF intelligenceVars, IntelligenceTypes
<1>2. ASSUME NEW v \in FeatureVersions, NEW at \in 0..IntelligenceEnd, setValue(v, at) PROVE IntelligenceTypes'
  BY <1>0, <1>2 DEF setValue, IntelligenceTypes
<1>3. CASE intelligenceTime BY <1>0, <1>3 DEF intelligenceTime, IntelligenceTypes
<1>4. ASSUME NEW candidates \in Rankings, rankAndRecord(candidates) PROVE IntelligenceTypes'
  <2>1. PICK entries \in Rank(candidates) :
           /\ Len(predictions) < RankingLimit /\ ranked' = entries
           /\ recommendations' =
                recommendations \o [k \in DOMAIN entries |-> Recommend(entries[k], "ACTIVE", -1)]
           /\ predictions' =
                IF entries = <<>> THEN predictions
                ELSE Append(predictions, [product |-> entries[1].product,
                                          validUntil |-> entries[1].expiresAt])
           /\ UNCHANGED <<featureValues, intelligenceClock>>
    BY <1>4 DEF rankAndRecord
  <2>2. PICK P : predictions \in Seq(P) BY DEF AdviceInv
  <2>3. Len(predictions') <= RankingLimit
    <3>1. CASE entries = <<>> BY <3>1, <1>0, <2>1, <2>2
    <3>2. CASE entries # <<>>
      <4>1. PICK p : predictions' = Append(predictions, p) BY <3>2, <2>1
      <4>2. Len(predictions') = Len(predictions) + 1 BY <4>1, <2>2
      <4> QED BY <4>2, <1>0, <2>1, <2>2
    <3> QED BY <3>1, <3>2
  <2>4. PICK n \in Nat : DOMAIN entries = 1..n BY <2>1 DEF AdviceInv
  <2>5. PICK fresh : fresh = [k \in 1..n |-> Recommend(entries[k], "ACTIVE", -1)] OBVIOUS
  <2>6. PICK R : recommendations \in Seq(R) BY DEF AdviceInv
  <2>7. PICK U : U = R \cup {fresh[k] : k \in 1..n} OBVIOUS
  <2>8. recommendations \in Seq(U) /\ fresh \in Seq(U) /\ Len(fresh) = n
    <3>1. R \subseteq U /\ \A k \in 1..n : fresh[k] \in U BY <2>7
    <3>2. fresh \in [1..n -> U] BY <3>1, <2>5
    <3>3. fresh \in Seq(U) /\ Len(fresh) = n BY <3>2
    <3>4. recommendations \in Seq(U) BY <3>1, <2>6
    <3> QED BY <3>3, <3>4
  <2>9. PICK l \in Nat : l = Len(recommendations) BY <2>6
  <2>10. recommendations' = recommendations \o fresh BY <2>1, <2>4, <2>5
  <2>11. /\ Len(recommendations') = l + n
         /\ \A i \in 1..(l + n) :
              recommendations'[i] = IF i <= l THEN recommendations[i] ELSE fresh[i - l]
    BY <2>8, <2>9, <2>10
  <2>12. ASSUME NEW i \in 1..(l + n)
         PROVE  recommendations'[i].status \in FeedbackDecisions \cup {"ACTIVE", "EXPIRED"}
    <3>1. CASE i <= l
      <4>1. i \in 1..Len(recommendations) BY <3>1, <2>9
      <4> QED BY <3>1, <4>1, <2>11 DEF IntelligenceTypes
    <3>2. CASE ~(i <= l)
      <4>1. i - l \in 1..n BY <3>2, <2>9
      <4>2. fresh[i - l].status = "ACTIVE" BY <4>1, <2>5 DEF Recommend
      <4> QED BY <3>2, <4>2, <2>11
    <3> QED BY <3>1, <3>2
  <2> QED BY <2>1, <2>3, <2>11, <2>12 DEF IntelligenceTypes
<1>5. ASSUME NEW i \in 1..Len(recommendations), NEW decision \in FeedbackChoices, feedback(i, decision)
      PROVE  IntelligenceTypes'
  <2>0. PICK status, new :
           /\ status = IF decision = "ACCEPTED" /\ recommendations[i].expiresAt <= intelligenceClock
                       THEN "EXPIRED" ELSE decision
           /\ new = Recommend(recommendations[i], status, intelligenceClock)
    OBVIOUS
  <2>1. /\ recommendations' = [recommendations EXCEPT ![i] = new]
        /\ new.status \in FeedbackDecisions \cup {"ACTIVE", "EXPIRED"}
    <3>1. new.status = status BY <2>0 DEF Recommend
    <3>2. status \in FeedbackDecisions \cup {"EXPIRED"} BY <1>0, <2>0
    <3>3. recommendations' = [recommendations EXCEPT ![i] = new] BY <1>5, <2>0 DEF feedback
    <3> QED BY <3>1, <3>2, <3>3
  <2>2. PICK R : recommendations \in Seq(R) BY DEF AdviceInv
  <2>3. PICK R2 : recommendations' \in Seq(R2) BY DEF AdviceInv
  <2>4. DOMAIN recommendations = 1..Len(recommendations) /\ DOMAIN recommendations' = 1..Len(recommendations')
        /\ Len(recommendations) \in Nat /\ Len(recommendations') \in Nat
    BY <2>2, <2>3
  <2>5. DOMAIN recommendations' = DOMAIN recommendations BY <2>1
  <2>6. \A j \in 1..Len(recommendations') : j \in 1..Len(recommendations) BY <2>4, <2>5
  <2>7. \A j \in 1..Len(recommendations) : recommendations'[j] = IF j = i THEN new ELSE recommendations[j]
    BY <2>1, <2>4
  <2>8. UNCHANGED <<featureValues, intelligenceClock, predictions>> BY <1>5 DEF feedback
  <2> QED BY <2>1, <2>6, <2>7, <2>8 DEF IntelligenceTypes
<1> QED BY <1>1, <1>2, <1>3, <1>4, <1>5 DEF IntelligenceNext
==============================================================================
