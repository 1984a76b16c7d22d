----------------------------- MODULE SumLemmas -----------------------------
(***************************************************************************)
(* Facts about SumFunctionOnSet(f, S), the sum of f[x] for x in a finite   *)
(* set S, that the ledgers of this project are stated with.  The contracts *)
(* keep running totals (reserved amounts, open interest, locked            *)
(* collateral); the proofs have to know how such a sum moves when one      *)
(* entry of the mapping changes.                                           *)
(*                                                                         *)
(* The induction over subsets is done through a minimal counterexample:    *)
(* strict inclusion is well founded on the subsets of a finite set, so a   *)
(* non-empty set of bad subsets has a minimal element.  Functions defined  *)
(* by recursion over 0..n are known to exist in the same way, through the  *)
(* least place where one would fail.                                       *)
(***************************************************************************)
EXTENDS Functions, FiniteSetTheorems, TLAPS

\* The body of the recursion behind SumFunctionOnSet, and its fixed point.
SumBody(f, g, T) ==
  IF T = {} THEN 0 ELSE LET x == CHOOSE x \in T : TRUE IN f[x] + g[T \ {x}]

IsSumOf(g, f, S) == g = [T \in SUBSET S |-> SumBody(f, g, T)]

TheSum(f, S) == CHOOSE g : IsSumOf(g, f, S)

\* g gives every subset of S its sum, whatever the order of summation.
Additive(g, f, S) ==
  /\ g \in [SUBSET S -> Int]
  /\ g[{}] = 0
  /\ \A T \in SUBSET S : \A x \in S \ T : g[T \cup {x}] = f[x] + g[T]

\* The library operator is the value at S of that fixed point.
LEMMA SumUnfold ==
  ASSUME NEW f, NEW S
  PROVE  SumFunctionOnSet(f, S) = TheSum(f, S)[S]
BY DEF SumFunctionOnSet, FoldFunctionOnSet, MapThenFoldSet, TheSum, IsSumOf,
       SumBody

\* A non-empty family of subsets of a finite set has a minimal member.
LEMMA MinimalSubset ==
  ASSUME NEW S, IsFiniteSet(S), NEW B, B \subseteq SUBSET S, B # {}
  PROVE  \E T \in B : \A U \in B : U \subseteq T => U = T
<1>1. FiniteSubsetsOf(S) = SUBSET S
  BY FS_FiniteSubsetsOfFinite
<1>2. IsWellFoundedOn(StrictSubsetOrdering(S), SUBSET S)
  BY <1>1, FS_StrictSubsetOrderingWellFounded
<1>3. \E T \in B : \A U \in B : ~ (<<U, T>> \in StrictSubsetOrdering(S))
  BY <1>2, WFMin
<1> QED
  BY <1>3 DEF StrictSubsetOrdering

\* An additive function exists: add the elements of S one at a time.
LEMMA AdditiveExists ==
  ASSUME NEW S, IsFiniteSet(S), NEW f, \A x \in S : f[x] \in Int
  PROVE  \E g : Additive(g, f, S)
<1> DEFINE B == {T \in SUBSET S : ~ \E g : Additive(g, f, T)}
<1>1. SUFFICES ASSUME B # {} PROVE FALSE
  OBVIOUS
<1>2. PICK T \in B : \A U \in B : U \subseteq T => U = T
  <2>1. B \subseteq SUBSET S
    OBVIOUS
  <2> HIDE DEF B
  <2> QED
    BY <1>1, <2>1, MinimalSubset
<1>3. CASE T = {}
  <2> DEFINE g == [U \in SUBSET T |-> 0]
  <2>1. Additive(g, f, T)
    BY <1>3 DEF Additive
  <2> QED
    BY <2>1
<1>4. CASE T # {}
  <2>1. PICK y \in T : TRUE
    BY <1>4
  <2>2. T \ {y} \notin B
    BY <1>2, <2>1
  <2>3. PICK h : Additive(h, f, T \ {y})
    BY <2>2
  <2> DEFINE g == [U \in SUBSET T |-> IF y \in U THEN f[y] + h[U \ {y}] ELSE h[U]]
  <2>4. g \in [SUBSET T -> Int]
    <3>1. \A U \in SUBSET T : U \ {y} \in SUBSET (T \ {y})
      OBVIOUS
    <3>2. \A U \in SUBSET T : y \notin U => U \in SUBSET (T \ {y})
      OBVIOUS
    <3>3. f[y] \in Int
      BY <2>1
    <3> QED
      BY <2>3, <3>1, <3>2, <3>3 DEF Additive
  <2>5. g[{}] = 0
    BY <2>3 DEF Additive
  <2>6. ASSUME NEW U \in SUBSET T, NEW x \in T \ U
        PROVE  g[U \cup {x}] = f[x] + g[U]
    <3>1. CASE x = y
      <4>1. (U \cup {x}) \ {y} = U
        BY <3>1
      <4> QED
        BY <3>1, <4>1
    <3>2. CASE x # y /\ y \in U
      <4>1. (U \cup {x}) \ {y} = (U \ {y}) \cup {x}
        BY <3>2
      <4>2. h[(U \ {y}) \cup {x}] = f[x] + h[U \ {y}]
        BY <2>3, <3>2 DEF Additive
      <4>3. f[x] \in Int /\ f[y] \in Int /\ h[U \ {y}] \in Int
        BY <2>3 DEF Additive
      <4>4. g[U \cup {x}] = f[y] + h[(U \ {y}) \cup {x}]
        BY <4>1, <3>2
      <4>5. g[U] = f[y] + h[U \ {y}]
        BY <3>2
      <4> HIDE DEF g
      <4> QED
        BY <4>2, <4>3, <4>4, <4>5
    <3>3. CASE x # y /\ y \notin U
      <4>1. U \in SUBSET (T \ {y}) /\ x \in (T \ {y}) \ U
        BY <3>3
      <4>2. h[U \cup {x}] = f[x] + h[U]
        BY <2>3, <4>1 DEF Additive
      <4> QED
        BY <3>3, <4>2
    <3> QED
      BY <3>1, <3>2, <3>3
  <2>7. Additive(g, f, T)
    BY <2>4, <2>5, <2>6 DEF Additive
  <2> QED
    BY <2>7, <1>2
<1> QED
  BY <1>3, <1>4

\* An additive function satisfies the recursion, whichever element it picks.
LEMMA AdditiveIsSum ==
  ASSUME NEW S, NEW f, NEW g, Additive(g, f, S)
  PROVE  IsSumOf(g, f, S)
<1>1. ASSUME NEW T \in SUBSET S PROVE g[T] = SumBody(f, g, T)
  <2>1. CASE T = {}
    BY <2>1 DEF Additive, SumBody
  <2>2. CASE T # {}
    <3> DEFINE x == CHOOSE x \in T : TRUE
    <3>1. x \in T
      BY <2>2
    <3>2. T \ {x} \in SUBSET S /\ x \in S \ (T \ {x}) /\ (T \ {x}) \cup {x} = T
      BY <3>1
    <3>3. g[T] = f[x] + g[T \ {x}]
      <4> HIDE DEF x
      <4> QED
        BY <3>2 DEF Additive
    <3> QED
      BY <2>2, <3>3 DEF SumBody
  <2> QED
    BY <2>1, <2>2
<1> QED
  BY <1>1 DEF IsSumOf, Additive

\* The recursion has one solution on the subsets of a finite set.
LEMMA SumUnique ==
  ASSUME NEW S, IsFiniteSet(S), NEW f, NEW g, NEW h,
         IsSumOf(g, f, S), IsSumOf(h, f, S)
  PROVE  g = h
<1> DEFINE B == {T \in SUBSET S : g[T] # h[T]}
<1>1. ASSUME B # {} PROVE FALSE
  <2>1. PICK T \in B : \A U \in B : U \subseteq T => U = T
    <3>1. B \subseteq SUBSET S
      OBVIOUS
    <3> HIDE DEF B
    <3> QED
      BY <1>1, <3>1, MinimalSubset
  <2>2. g[T] = SumBody(f, g, T) /\ h[T] = SumBody(f, h, T)
    BY <2>1 DEF IsSumOf
  <2>3. T # {}
    BY <2>1, <2>2 DEF SumBody
  <2> DEFINE x == CHOOSE x \in T : TRUE
  <2>4. x \in T
    BY <2>3
  <2>5. T \ {x} \notin B /\ T \ {x} \in SUBSET S
    BY <2>1, <2>4
  <2>6. g[T \ {x}] = h[T \ {x}]
    BY <2>5
  <2>7. SumBody(f, g, T) = SumBody(f, h, T)
    BY <2>3, <2>6 DEF SumBody
  <2> QED
    BY <2>1, <2>2, <2>7
<1> QED
  BY <1>1 DEF IsSumOf

\* Sums over the subsets of a finite set are additive.
LEMMA SumAdditive ==
  ASSUME NEW S, IsFiniteSet(S), NEW f, \A x \in S : f[x] \in Int
  PROVE  Additive(TheSum(f, S), f, S)
<1>1. PICK g : Additive(g, f, S)
  BY AdditiveExists
<1>2. IsSumOf(g, f, S)
  BY <1>1, AdditiveIsSum
<1>3. IsSumOf(TheSum(f, S), f, S)
  BY <1>2 DEF TheSum
<1> QED
  BY <1>1, <1>2, <1>3, SumUnique

-----------------------------------------------------------------------------
(* The facts the ledgers use.                                              *)

\* A sum of integers is an integer.
LEMMA SumType ==
  ASSUME NEW S, IsFiniteSet(S), NEW f, \A x \in S : f[x] \in Int
  PROVE  SumFunctionOnSet(f, S) \in Int
<1>1. Additive(TheSum(f, S), f, S)
  BY SumAdditive
<1>2. TheSum(f, S)[S] \in Int
  BY <1>1 DEF Additive
<1> QED
  BY <1>2, SumUnfold

\* The empty sum.
LEMMA SumEmpty ==
  ASSUME NEW f
  PROVE  SumFunctionOnSet(f, {}) = 0
<1>1. IsFiniteSet({})
  BY FS_EmptySet
<1> QED
  BY <1>1, SumUnfold, SumAdditive DEF Additive

\* An additive function on S restricts to the sum on every subset of S.
LEMMA AdditiveRestricts ==
  ASSUME NEW S, IsFiniteSet(S), NEW f, NEW g, Additive(g, f, S), NEW T \in SUBSET S
  PROVE  g[T] = SumFunctionOnSet(f, T)
<1> DEFINE h == [U \in SUBSET T |-> g[U]]
<1>1. IsFiniteSet(T)
  BY FS_Subset
<1>2. Additive(h, f, T)
  <2>1. h \in [SUBSET T -> Int] /\ h[{}] = 0
    BY DEF Additive
  <2>2. ASSUME NEW U \in SUBSET T, NEW x \in T \ U
        PROVE  h[U \cup {x}] = f[x] + h[U]
    <3>1. U \in SUBSET S /\ x \in S \ U /\ U \cup {x} \in SUBSET T
      OBVIOUS
    <3> QED
      BY <3>1 DEF Additive
  <2> HIDE DEF h
  <2> QED
    BY <2>1, <2>2 DEF Additive
<1>3. IsSumOf(h, f, T)
  BY <1>2, AdditiveIsSum
<1>4. IsSumOf(TheSum(f, T), f, T)
  BY <1>3 DEF TheSum
<1>5. h = TheSum(f, T)
  BY <1>1, <1>3, <1>4, SumUnique
<1>6. h[T] = g[T]
  OBVIOUS
<1> QED
  BY <1>5, <1>6, SumUnfold

\* One element can be taken out of the sum.
LEMMA SumRemove ==
  ASSUME NEW S, IsFiniteSet(S), NEW f, \A x \in S : f[x] \in Int, NEW y \in S
  PROVE  SumFunctionOnSet(f, S) = f[y] + SumFunctionOnSet(f, S \ {y})
<1>1. PICK g : Additive(g, f, S)
  BY AdditiveExists
<1>2. g[S] = SumFunctionOnSet(f, S)
  BY <1>1, AdditiveRestricts
<1>3. g[S \ {y}] = SumFunctionOnSet(f, S \ {y})
  <2>1. S \ {y} \in SUBSET S
    OBVIOUS
  <2> QED
    BY <1>1, <2>1, AdditiveRestricts
<1>4. g[(S \ {y}) \cup {y}] = f[y] + g[S \ {y}]
  BY <1>1 DEF Additive
<1>5. (S \ {y}) \cup {y} = S
  OBVIOUS
<1> QED
  BY <1>2, <1>3, <1>4, <1>5

\* The sum depends only on the values at the elements of S.
LEMMA SumSame ==
  ASSUME NEW S, IsFiniteSet(S), NEW f, NEW h,
         \A x \in S : f[x] \in Int, \A x \in S : h[x] = f[x]
  PROVE  SumFunctionOnSet(h, S) = SumFunctionOnSet(f, S)
<1>1. PICK g : Additive(g, f, S)
  BY AdditiveExists
<1>2. Additive(g, h, S)
  BY <1>1 DEF Additive
<1>3. g[S] = SumFunctionOnSet(f, S) /\ g[S] = SumFunctionOnSet(h, S)
  <2>1. S \in SUBSET S
    OBVIOUS
  <2> QED
    BY <1>1, <1>2, <2>1, AdditiveRestricts
<1> QED
  BY <1>3

\* Changing the value at y moves the sum by the change of that value.
LEMMA SumChange ==
  ASSUME NEW S, IsFiniteSet(S), NEW f, NEW h, NEW y \in S,
         \A x \in S : f[x] \in Int, \A x \in S : h[x] \in Int,
         \A x \in S \ {y} : h[x] = f[x]
  PROVE  SumFunctionOnSet(h, S) = SumFunctionOnSet(f, S) + h[y] - f[y]
<1>1. IsFiniteSet(S \ {y})
  BY FS_RemoveElement
<1>2. SumFunctionOnSet(h, S \ {y}) = SumFunctionOnSet(f, S \ {y})
  BY <1>1, SumSame
<1>3. SumFunctionOnSet(f, S) = f[y] + SumFunctionOnSet(f, S \ {y})
  BY SumRemove
<1>4. SumFunctionOnSet(h, S) = h[y] + SumFunctionOnSet(h, S \ {y})
  BY SumRemove
<1>5. /\ SumFunctionOnSet(f, S \ {y}) \in Int
      /\ f[y] \in Int /\ h[y] \in Int
  BY <1>1, SumType
<1> QED
  BY <1>2, <1>3, <1>4, <1>5

\* The sum of naturals is a natural, and no term exceeds it.
LEMMA SumNat ==
  ASSUME NEW S, IsFiniteSet(S), NEW f, \A x \in S : f[x] \in Nat
  PROVE  /\ SumFunctionOnSet(f, S) \in Nat
         /\ \A x \in S : f[x] <= SumFunctionOnSet(f, S)
<1>1. \A x \in S : f[x] \in Int
  OBVIOUS
<1>2. PICK g : Additive(g, f, S)
  BY <1>1, AdditiveExists
<1> DEFINE B == {T \in SUBSET S : g[T] < 0}
<1>3. ASSUME B # {} PROVE FALSE
  <2>1. PICK T \in B : \A U \in B : U \subseteq T => U = T
    <3>1. B \subseteq SUBSET S
      OBVIOUS
    <3> HIDE DEF B
    <3> QED
      BY <1>3, <3>1, MinimalSubset
  <2>2. T # {}
    <3>1. g[{}] = 0 /\ g[T] < 0
      BY <1>2, <2>1 DEF Additive
    <3> QED
      BY <3>1
  <2>3. PICK y \in T : TRUE
    BY <2>2
  <2>4. T \ {y} \in SUBSET S /\ y \in S \ (T \ {y}) /\ (T \ {y}) \cup {y} = T
    BY <2>3
  <2>5. g[T] = f[y] + g[T \ {y}]
    BY <1>2, <2>4 DEF Additive
  <2>6. T \ {y} \notin B
    BY <2>1, <2>3
  <2>7. g[T \ {y}] \in Int /\ g[T \ {y}] >= 0
    BY <1>2, <2>4, <2>6 DEF Additive
  <2>8. f[y] \in Nat
    BY <2>4
  <2>9. g[T] \in Int /\ g[T] < 0
    BY <1>2, <2>1 DEF Additive
  <2> QED
    BY <2>5, <2>7, <2>8, <2>9
<1>4. \A T \in SUBSET S : SumFunctionOnSet(f, T) \in Nat
  <2>1. ASSUME NEW T \in SUBSET S PROVE SumFunctionOnSet(f, T) \in Nat
    <3>1. g[T] \in Int
      BY <1>2 DEF Additive
    <3>2. g[T] >= 0
      BY <1>3, <3>1
    <3>3. g[T] = SumFunctionOnSet(f, T)
      BY <1>2, AdditiveRestricts
    <3> QED
      BY <3>1, <3>2, <3>3
  <2> QED
    BY <2>1
<1>5. ASSUME NEW y \in S PROVE f[y] <= SumFunctionOnSet(f, S)
  <2>1. SumFunctionOnSet(f, S) = f[y] + SumFunctionOnSet(f, S \ {y})
    BY <1>1, SumRemove
  <2>2. SumFunctionOnSet(f, S \ {y}) \in Nat /\ f[y] \in Nat
    BY <1>4
  <2> QED
    BY <2>1, <2>2
<1> QED
  BY <1>4, <1>5

\* A sum of zeros is zero.
LEMMA SumZero ==
  ASSUME NEW S, IsFiniteSet(S), NEW f, \A x \in S : f[x] = 0
  PROVE  SumFunctionOnSet(f, S) = 0
<1> DEFINE g == [T \in SUBSET S |-> 0]
<1>1. Additive(g, f, S)
  BY DEF Additive
<1> HIDE DEF g
<1>2. g[S] = SumFunctionOnSet(f, S)
  BY <1>1, AdditiveRestricts
<1> QED
  BY <1>2 DEF g

\* A bound on each entry, in a common proportion, bounds the sums.
LEMMA SumBelow ==
  ASSUME NEW S, IsFiniteSet(S), NEW f, NEW h, NEW a \in Nat, NEW b \in Nat,
         \A x \in S : f[x] \in Nat /\ h[x] \in Nat /\ f[x] * a <= h[x] * b
  PROVE  SumFunctionOnSet(f, S) * a <= SumFunctionOnSet(h, S) * b
<1>1. (\A x \in S : f[x] \in Int) /\ (\A x \in S : h[x] \in Int)
  OBVIOUS
<1>2. PICK g : Additive(g, f, S)
  BY <1>1, AdditiveExists
<1>3. PICK k : Additive(k, h, S)
  BY <1>1, AdditiveExists
<1> DEFINE d == [x \in S |-> h[x] * b - f[x] * a]
           e == [T \in SUBSET S |-> k[T] * b - g[T] * a]
<1>4. \A x \in S : d[x] \in Nat
  <2>1. SUFFICES ASSUME NEW x \in S PROVE h[x] * b - f[x] * a \in Nat
    OBVIOUS
  <2>2. PICK m \in Nat, n \in Nat : m = f[x] * a /\ n = h[x] * b /\ m <= n
    OBVIOUS
  <2> QED
    BY <2>2
<1>5. Additive(e, d, S)
  <2>1. \A T \in SUBSET S : k[T] \in Int /\ g[T] \in Int
    BY <1>2, <1>3 DEF Additive
  <2>2. e \in [SUBSET S -> Int] /\ e[{}] = 0
    <3>1. \A T \in SUBSET S : k[T] * b - g[T] * a \in Int
      BY <2>1
    <3>2. k[{}] = 0 /\ g[{}] = 0 /\ {} \in SUBSET S
      BY <1>2, <1>3 DEF Additive
    <3> QED
      BY <3>1, <3>2
  <2>3. ASSUME NEW T \in SUBSET S, NEW x \in S \ T PROVE e[T \cup {x}] = d[x] + e[T]
    <3>1. T \cup {x} \in SUBSET S
      OBVIOUS
    <3>2. k[T \cup {x}] = h[x] + k[T] /\ g[T \cup {x}] = f[x] + g[T]
      BY <1>2, <1>3 DEF Additive
    <3>3. PICK kt \in Int, gt \in Int, hx \in Nat, fx \in Nat :
            kt = k[T] /\ gt = g[T] /\ hx = h[x] /\ fx = f[x]
      BY <2>1
    <3>4. (hx + kt) * b - (fx + gt) * a = (hx * b - fx * a) + (kt * b - gt * a)
      OBVIOUS
    <3> QED
      BY <3>1, <3>2, <3>3, <3>4
  <2> HIDE DEF d, e
  <2> QED
    BY <2>2, <2>3 DEF Additive
<1> HIDE DEF d
<1>6. e[S] = SumFunctionOnSet(d, S)
  <2> HIDE DEF e
  <2> QED
    BY <1>5, AdditiveRestricts
<1>7. SumFunctionOnSet(d, S) \in Nat
  BY <1>4, SumNat
<1>8. g[S] = SumFunctionOnSet(f, S) /\ k[S] = SumFunctionOnSet(h, S)
  BY <1>1, <1>2, <1>3, AdditiveRestricts
<1>9. k[S] \in Int /\ g[S] \in Int
  BY <1>2, <1>3 DEF Additive
<1>10. PICK m \in Int, n \in Int : m = g[S] * a /\ n = k[S] * b
  BY <1>9
<1>11. n - m \in Nat
  BY <1>6, <1>7, <1>10
<1> QED
  BY <1>8, <1>10, <1>11

-----------------------------------------------------------------------------
(* Least numbers, and functions defined by recursion.                      *)

\* A set of numbers has a least one.
LEMMA LeastOf ==
  ASSUME NEW S, S \subseteq Nat, S # {}
  PROVE  \E n \in S : \A m \in S : n <= m
<1>1. PICK n \in S : \A m \in S : ~ (<<m, n>> \in OpToRel(<, Nat))
  BY NatLessThanWellFounded, WFMin
<1>2. \A m \in S : ~ (m < n)
  BY <1>1 DEF OpToRel
<1> QED
  BY <1>2

\* f has the value base at 0, and step takes each value to the next one.
Stepwise(f, n, S, base, step) ==
  /\ f \in [0..n -> S] /\ f[0] = base
  /\ \A i \in 1..n : f[i] = step[i][f[i - 1]]

StepsIn(step, n, S) == step \in [1..n -> [S -> S]]

\* A function of 0..n given by its first value and by each next one exists.
LEMMA StepwiseExists ==
  ASSUME NEW n \in Nat, NEW S, NEW base \in S, NEW step, StepsIn(step, n, S)
  PROVE  \E f : Stepwise(f, n, S, base, step)
<1> USE DEF StepsIn
<1> DEFINE Good(k) == \E f \in [0..k -> S] :
                        \A i \in 0..k : f[i] = IF i = 0 THEN base ELSE step[i][f[i - 1]]
           Bad == {k \in 0..n : ~ Good(k)}
<1>1. Bad = {}
  <2> SUFFICES ASSUME Bad # {} PROVE FALSE
    OBVIOUS
  <2>1. PICK k \in Bad : \A m \in Bad : k <= m
    <3>1. Bad \subseteq Nat
      OBVIOUS
    <3> HIDE DEF Bad
    <3> QED
      BY <3>1, LeastOf
  <2>2. Good(0)
    <3>1. [i \in 0..0 |-> base] \in [0..0 -> S]
      OBVIOUS
    <3>2. \A i \in 0..0 : [j \in 0..0 |-> base][i] = base /\ i = 0
      OBVIOUS
    <3> QED
      BY <3>1, <3>2
  <2>3. k \in 0..n /\ ~ Good(k) /\ k # 0
    <3>1. k \in 0..n /\ ~ Good(k)
      BY <2>1
    <3> HIDE DEF Good
    <3> QED
      BY <2>2, <3>1
  <2>4. k \in 1..n /\ k - 1 \in 0..n /\ Good(k - 1)
    <3>1. k \in 1..n /\ k - 1 \in 0..n /\ ~ (k <= k - 1)
      BY <2>3
    <3> HIDE DEF Good
    <3> QED
      BY <2>1, <3>1
  <2>5. PICK f \in [0..(k - 1) -> S] :
          \A i \in 0..(k - 1) : f[i] = IF i = 0 THEN base ELSE step[i][f[i - 1]]
    BY <2>4
  <2> DEFINE g == [i \in 0..k |-> IF i = k THEN step[k][f[k - 1]] ELSE f[i]]
  <2>6. step[k][f[k - 1]] \in S
    BY <2>3
  <2>7. g \in [0..k -> S]
    BY <2>3, <2>6
  <2>8. ASSUME NEW i \in 0..k
        PROVE  g[i] = IF i = 0 THEN base ELSE step[i][g[i - 1]]
    <3>1. CASE i = k
      <4>1. k - 1 \in 0..k /\ k - 1 # k /\ g[k - 1] = f[k - 1]
        BY <2>3
      <4> QED
        BY <2>3, <3>1, <4>1
    <3>2. CASE i # k
      <4>1. i \in 0..(k - 1) /\ g[i] = f[i]
        BY <2>3, <3>2
      <4>2. i # 0 => i - 1 \in 0..k /\ i - 1 # k /\ g[i - 1] = f[i - 1]
        BY <2>3, <3>2
      <4> HIDE DEF g
      <4> QED
        BY <2>5, <4>1, <4>2
    <3> QED
      BY <3>1, <3>2
  <2> HIDE DEF g
  <2>9. Good(k)
    BY <2>7, <2>8
  <2> QED
    BY <2>1, <2>9
<1>2. Good(n)
  BY <1>1
<1>3. PICK f \in [0..n -> S] : \A i \in 0..n : f[i] = IF i = 0 THEN base ELSE step[i][f[i - 1]]
  BY <1>2
<1>4. 0 \in 0..n /\ \A i \in 1..n : i \in 0..n /\ i # 0
  OBVIOUS
<1>5. f[0] = base /\ \A i \in 1..n : f[i] = step[i][f[i - 1]]
  BY <1>3, <1>4
<1> QED
  BY <1>5 DEF Stepwise
=============================================================================
