------------------------------ MODULE SetSums ------------------------------
(***************************************************************************)
(* What folds over finite sets compute.  The models add up weights and     *)
(* gains with MapThenSumSet and count pins with FoldSet; both are defined  *)
(* by recursion over the set, from which they choose one element after the *)
(* other.  Induction is over sets of sets, not over predicates, so that    *)
(* first-order provers can use it.                                         *)
(***************************************************************************)
EXTENDS FiniteSetsExt, FiniteSetTheorems, TLAPS

\* Induction over the subsets of a finite set: a set of sets that contains
\* each one all of whose proper subsets it contains, contains all.
LEMMA SubsetInduction ==
  ASSUME NEW S, IsFiniteSet(S), NEW Good,
         \A T \in SUBSET S : (\A U \in SUBSET T : U # T => U \in Good) => T \in Good
  PROVE  \A T \in SUBSET S : T \in Good
<1> SUFFICES ASSUME NEW R \in SUBSET S, R \notin Good PROVE FALSE
  OBVIOUS
<1> DEFINE Bad == {T \in SUBSET S : T \notin Good}
<1>1. IsWellFoundedOn(StrictSubsetOrdering(S), FiniteSubsetsOf(S))
  BY FS_StrictSubsetOrderingWellFounded
<1>2. Bad \subseteq FiniteSubsetsOf(S) /\ Bad # {}
  BY FS_FiniteSubsetsOfFinite
<1>3. PICK T \in Bad : \A U \in Bad : ~ (<<U, T>> \in StrictSubsetOrdering(S))
  <2> HIDE DEF Bad
  <2> QED BY <1>1, <1>2, WFMin
<1>4. ASSUME NEW U \in SUBSET T, U # T PROVE U \in Good
  <2>1. <<U, T>> \in StrictSubsetOrdering(S)
    BY <1>4 DEF StrictSubsetOrdering
  <2> QED BY <1>3, <2>1
<1> QED BY <1>4

\* Induction over the numbers up to n.
LEMMA CountInduction ==
  ASSUME NEW n \in Nat, NEW Good, 0 \in Good,
         \A i \in 1 .. n : i - 1 \in Good => i \in Good
  PROVE  n \in Good
<1> DEFINE Sets == {T \in SUBSET (1 .. n) : Cardinality(T) \in Good}
<1>1. IsFiniteSet(1 .. n) /\ Cardinality(1 .. n) = n
  BY FS_Interval
<1>2. ASSUME NEW T \in SUBSET (1 .. n), \A U \in SUBSET T : U # T => U \in Sets
      PROVE  T \in Sets
  <2>1. IsFiniteSet(T) /\ Cardinality(T) \in Nat /\ Cardinality(T) <= n
    BY <1>1, FS_Subset, FS_CardinalityType
  <2>2. CASE T = {}
    BY <2>2, FS_EmptySet
  <2>3. CASE T # {}
    <3>1. PICK x : x \in T
      BY <2>3
    <3>2. Cardinality(T \ {x}) = Cardinality(T) - 1 /\ Cardinality(T \ {x}) \in Nat
      BY <2>1, <3>1, FS_RemoveElement, FS_CardinalityType
    <3>3. T \ {x} \in Sets
      BY <1>2, <3>1
    <3> QED BY <2>1, <3>2, <3>3
  <2> QED BY <2>2, <2>3
<1>3. \A T \in SUBSET (1 .. n) : T \in Sets
  <2>1. \A T \in SUBSET (1 .. n) : (\A U \in SUBSET T : U # T => U \in Sets) => T \in Sets
    BY <1>2
  <2> HIDE DEF Sets
  <2> QED BY <1>1, <2>1, SubsetInduction
<1> QED BY <1>1, <1>3
-----------------------------------------------------------------------------
\* The element that a fold takes out of s first.
First(s) == CHOOSE x \in s : TRUE

FirstOf(S) == [s \in SUBSET S |-> First(s)]

\* A fold takes the elements out of subsets of S as pick says.
Picks(pick, S) == \A s \in SUBSET S : s # {} => pick[s] \in s

\* g maps each subset of S to its fold with op, from base.
IsFold(g, S, base, op, pick) ==
  \A s \in SUBSET S : g[s] = IF s = {} THEN base ELSE op[<<pick[s], g[s \ {pick[s]}]>>]

\* First is such a choice.
LEMMA FirstPicks ==
  ASSUME NEW S
  PROVE  Picks(FirstOf(S), S) /\ \A s \in SUBSET S : FirstOf(S)[s] = First(s)
<1>1. \A s \in SUBSET S : s # {} => First(s) \in s
  BY DEF First
<1> QED BY <1>1 DEF FirstOf, Picks

\* The recursion that defines a fold of S with values in V has a solution.
LEMMA FoldExists ==
  ASSUME NEW S, IsFiniteSet(S), NEW V, NEW base \in V, NEW op \in [S \X V -> V],
         NEW pick, Picks(pick, S)
  PROVE  \E g \in [SUBSET S -> V] : IsFold(g, S, base, op, pick)
<1> DEFINE Step(g, s) == IF s = {} THEN base ELSE op[<<pick[s], g[s \ {pick[s]}]>>]
           Upto(n) == {s \in SUBSET S : Cardinality(s) <= n}
           Good == {n \in Nat : \E g \in [SUBSET S -> V] : \A s \in Upto(n) : g[s] = Step(g, s)}
<1>1. \A s \in SUBSET S : IsFiniteSet(s) /\ Cardinality(s) \in Nat /\ Cardinality(s) <= Cardinality(S)
  BY FS_Subset, FS_CardinalityType
<1>2. \A s \in SUBSET S : s # {} =>
        /\ pick[s] \in s /\ s \ {pick[s]} \in SUBSET S
        /\ Cardinality(s \ {pick[s]}) = Cardinality(s) - 1
  BY <1>1, FS_RemoveElement DEF Picks
<1>3. 0 \in Good
  <2> DEFINE g == [s \in SUBSET S |-> base]
  <2>1. g \in [SUBSET S -> V]
    OBVIOUS
  <2>2. ASSUME NEW s \in Upto(0) PROVE g[s] = Step(g, s)
    BY <1>1, FS_EmptySet
  <2> QED BY <2>1, <2>2
<1>4. ASSUME NEW n \in Nat, n \in Good PROVE n + 1 \in Good
  <2>1. PICK g \in [SUBSET S -> V] : \A s \in Upto(n) : g[s] = Step(g, s)
    BY <1>4
  <2> DEFINE h == [s \in SUBSET S |-> Step(g, s)]
  <2>2. h \in [SUBSET S -> V]
    BY <1>2
  <2>3. ASSUME NEW s \in Upto(n + 1) PROVE h[s] = Step(h, s)
    <3>1. CASE s = {}
      BY <3>1
    <3>2. CASE s # {}
      <4>1. s \ {pick[s]} \in Upto(n)
        BY <1>1, <1>2, <3>2
      <4>2. g[s \ {pick[s]}] = h[s \ {pick[s]}]
        BY <2>1, <4>1
      <4> QED BY <3>2, <4>2
    <3> QED BY <3>1, <3>2
  <2>4. \A s \in Upto(n + 1) : h[s] = Step(h, s)
    BY <2>3
  <2>5. n + 1 \in Nat
    OBVIOUS
  <2> HIDE DEF h
  <2> QED BY <2>2, <2>4, <2>5
<1>5. Cardinality(S) \in Good
  <2>1. Cardinality(S) \in Nat
    BY <1>1
  <2>2. \A i \in 1 .. Cardinality(S) : i - 1 \in Good => i \in Good
    <3> SUFFICES ASSUME NEW i \in 1 .. Cardinality(S), i - 1 \in Good PROVE i \in Good
      OBVIOUS
    <3>1. i - 1 \in Nat /\ (i - 1) + 1 = i
      BY <2>1
    <3> HIDE DEF Good
    <3> QED BY <1>4, <3>1
  <2> HIDE DEF Good
  <2> QED BY <1>3, <2>1, <2>2, CountInduction
<1>6. Upto(Cardinality(S)) = SUBSET S
  BY <1>1
<1> QED BY <1>5, <1>6 DEF IsFold

\* Two solutions on different finite sets agree where both are defined.
LEMMA FoldUnique ==
  ASSUME NEW S, IsFiniteSet(S), NEW T \in SUBSET S, NEW base, NEW op, NEW g, NEW h,
         NEW pick, Picks(pick, S), IsFold(g, S, base, op, pick), IsFold(h, T, base, op, pick)
  PROVE  \A s \in SUBSET T : g[s] = h[s]
<1> DEFINE Good == {s \in SUBSET T : g[s] = h[s]}
<1>1. ASSUME NEW s \in SUBSET T, \A u \in SUBSET s : u # s => u \in Good PROVE s \in Good
  <2>1. CASE s = {}
    BY <2>1 DEF IsFold
  <2>2. CASE s # {}
    <3>1. pick[s] \in s
      BY <2>2 DEF Picks
    <3>2. s \ {pick[s]} \in Good
      BY <1>1, <3>1
    <3> QED BY <2>2, <3>2 DEF IsFold
  <2> QED BY <2>1, <2>2
<1>2. IsFiniteSet(T)
  BY FS_Subset
<1> HIDE DEF Good
<1>3. \A s \in SUBSET T : s \in Good
  BY <1>1, <1>2, SubsetInduction
<1> QED BY <1>3 DEF Good
-----------------------------------------------------------------------------
\* The sum of f over S.
Total(f, S) == MapThenSumSet(LAMBDA x : f[x], S)

\* The recursion behind a sum has an integer solution, which is what the
\* community module's CHOOSE picks.
LEMMA TotalRecursion ==
  ASSUME NEW S, IsFiniteSet(S), NEW f, \A x \in S : f[x] \in Int
  PROVE  \E g : /\ \A s \in SUBSET S : g[s] \in Int
                /\ \A s \in SUBSET S : g[s] = IF s = {} THEN 0 ELSE f[First(s)] + g[s \ {First(s)}]
                /\ g[S] = Total(f, S)
<1> DEFINE op == [p \in S \X Int |-> f[p[1]] + p[2]]
           Solves(g) == g = [s \in SUBSET S |-> IF s = {} THEN 0 ELSE f[First(s)] + g[s \ {First(s)}]]
<1>1. op \in [S \X Int -> Int]
  OBVIOUS
<1>2. PICK g \in [SUBSET S -> Int] : IsFold(g, S, 0, op, FirstOf(S))
  <2>1. 0 \in Int
    OBVIOUS
  <2> HIDE DEF op
  <2> QED BY <1>1, <2>1, FoldExists, FirstPicks
<1>3. \A s \in SUBSET S : s # {} => First(s) \in s /\ s \ {First(s)} \in SUBSET S
  BY DEF First
<1>4. \A s \in SUBSET S : g[s] = IF s = {} THEN 0 ELSE f[First(s)] + g[s \ {First(s)}]
  <2>1. \A s \in SUBSET S : FirstOf(S)[s] = First(s)
    BY FirstPicks
  <2>2. \A s \in SUBSET S : g[s] = IF s = {} THEN 0 ELSE op[<<First(s), g[s \ {First(s)}]>>]
    BY <1>2, <2>1 DEF IsFold
  <2> QED BY <1>2, <1>3, <2>2
<1>5. Solves(g)
  BY <1>2, <1>4
<1> DEFINE h == CHOOSE k : Solves(k)
<1>6. Solves(h)
  <2> HIDE DEF Solves
  <2> QED BY <1>5
<1>7. Total(f, S) = h[S]
  BY DEF Total, MapThenSumSet, MapThenFoldSet, First
<1>8. \A s \in SUBSET S : h[s] = IF s = {} THEN 0 ELSE f[First(s)] + h[s \ {First(s)}]
  <2> HIDE DEF h
  <2> QED BY <1>6
<1> DEFINE Good == {s \in SUBSET S : h[s] \in Int}
<1>9. \A s \in SUBSET S : (\A u \in SUBSET s : u # s => u \in Good) => s \in Good
  <2> SUFFICES ASSUME NEW s \in SUBSET S, \A u \in SUBSET s : u # s => u \in Good PROVE s \in Good
    OBVIOUS
  <2> HIDE DEF h
  <2>1. CASE s = {}
    <3>1. h[s] = 0
      BY <1>8, <2>1
    <3> QED BY <3>1
  <2>2. CASE s # {}
    <3>1. s \ {First(s)} \in Good /\ f[First(s)] \in Int
      BY <1>3, <2>2
    <3> QED BY <1>8, <2>2, <3>1
  <2> QED BY <2>1, <2>2
<1>10. \A s \in SUBSET S : h[s] \in Int
  <2>1. \A s \in SUBSET S : s \in Good
    <3> HIDE DEF Good
    <3> QED BY <1>9, SubsetInduction
  <2> QED BY <2>1
<1> HIDE DEF h
<1> QED BY <1>7, <1>8, <1>10

\* The same for all subsets at once: one function gives all their sums.
LEMMA TotalStep ==
  ASSUME NEW S, IsFiniteSet(S), NEW f, \A x \in S : f[x] \in Int
  PROVE  /\ Total(f, S) \in Int
         /\ Total(f, {}) = 0
         /\ S # {} => Total(f, S) = f[First(S)] + Total(f, S \ {First(S)})
<1> DEFINE op == [p \in S \X Int |-> f[p[1]] + p[2]]
<1>1. PICK g : /\ \A s \in SUBSET S : g[s] \in Int
               /\ \A s \in SUBSET S : g[s] = IF s = {} THEN 0 ELSE f[First(s)] + g[s \ {First(s)}]
               /\ g[S] = Total(f, S)
  BY TotalRecursion
<1>2. \A s \in SUBSET S : s # {} => First(s) \in s
  BY DEF First
<1>3. ASSUME NEW T \in SUBSET S PROVE Total(f, T) = g[T]
  <2>1. IsFiniteSet(T) /\ \A x \in T : f[x] \in Int
    BY FS_Subset
  <2>2. PICK h : /\ \A s \in SUBSET T : h[s] \in Int
                 /\ \A s \in SUBSET T : h[s] = IF s = {} THEN 0 ELSE f[First(s)] + h[s \ {First(s)}]
                 /\ h[T] = Total(f, T)
    BY <2>1, TotalRecursion
  <2>3. IsFold(g, S, 0, op, FirstOf(S))
    <3>1. \A s \in SUBSET S : FirstOf(S)[s] = First(s)
      BY FirstPicks
    <3>2. \A s \in SUBSET S : s # {} => First(s) \in S /\ g[s \ {First(s)}] \in Int
      BY <1>1, <1>2
    <3>3. \A s \in SUBSET S : s # {} => op[<<First(s), g[s \ {First(s)}]>>] = f[First(s)] + g[s \ {First(s)}]
      BY <3>2
    <3> HIDE DEF op
    <3> QED BY <1>1, <3>1, <3>3 DEF IsFold
  <2>4. IsFold(h, T, 0, op, FirstOf(S))
    <3>1. \A s \in SUBSET T : s # {} => First(s) \in S /\ h[s \ {First(s)}] \in Int
      BY <1>2, <2>2
    <3>2. \A s \in SUBSET T : FirstOf(S)[s] = First(s)
      BY FirstPicks
    <3> QED BY <2>2, <3>1, <3>2 DEF IsFold
  <2>5. \A s \in SUBSET T : g[s] = h[s]
    <3>1. Picks(FirstOf(S), S)
      BY FirstPicks
    <3> HIDE DEF op
    <3> QED BY <2>3, <2>4, <3>1, FoldUnique
  <2> QED BY <2>2, <2>5
<1> QED BY <1>1, <1>2, <1>3

\* A sum over more than nothing is any one summand and the sum of the others.
LEMMA TotalRemove ==
  ASSUME NEW S, IsFiniteSet(S), NEW f, \A x \in S : f[x] \in Int, NEW z \in S
  PROVE  Total(f, S) = f[z] + Total(f, S \ {z})
<1> DEFINE Good == {T \in SUBSET S : \A x \in T : Total(f, T) = f[x] + Total(f, T \ {x})}
<1>1. \A T \in SUBSET S : IsFiniteSet(T) /\ Total(f, T) \in Int
  <2> SUFFICES ASSUME NEW T \in SUBSET S PROVE IsFiniteSet(T) /\ Total(f, T) \in Int
    OBVIOUS
  <2>1. IsFiniteSet(T)
    BY FS_Subset
  <2> QED BY <2>1, TotalStep
<1>2. \A T \in SUBSET S : (\A U \in SUBSET T : U # T => U \in Good) => T \in Good
  <2> SUFFICES ASSUME NEW T \in SUBSET S, \A U \in SUBSET T : U # T => U \in Good,
                      NEW x \in T
               PROVE  Total(f, T) = f[x] + Total(f, T \ {x})
    OBVIOUS
  <2> DEFINE y == First(T)
  <2>1. y \in T
    BY DEF First
  <2>2. Total(f, T) = f[y] + Total(f, T \ {y})
    <3>1. IsFiniteSet(T) /\ T # {} /\ \A w \in T : f[w] \in Int
      BY <1>1
    <3> QED BY <3>1, TotalStep
  <2> HIDE DEF y
  <2>3. CASE x = y
    BY <2>2, <2>3
  <2>4. CASE x # y
    <3>1. T \ {y} \in Good /\ T \ {x} \in Good
      BY <2>1
    <3>2. Total(f, T \ {y}) = f[x] + Total(f, (T \ {y}) \ {x})
      BY <2>4, <3>1
    <3>3. Total(f, T \ {x}) = f[y] + Total(f, (T \ {x}) \ {y})
      BY <2>1, <2>4, <3>1
    <3>4. (T \ {x}) \ {y} = (T \ {y}) \ {x}
      OBVIOUS
    <3>5. f[x] \in Int /\ f[y] \in Int /\ Total(f, (T \ {y}) \ {x}) \in Int
      BY <1>1, <2>1
    <3>6. Total(f, T \ {x}) = f[y] + Total(f, (T \ {y}) \ {x})
      BY <3>3, <3>4
    <3> HIDE DEF Good
    <3> QED BY <2>2, <3>2, <3>5, <3>6
  <2> QED BY <2>3, <2>4
<1>3. \A T \in SUBSET S : T \in Good
  <2> HIDE DEF Good
  <2> QED BY <1>2, SubsetInduction
<1> QED BY <1>3

\* Equal summands have equal sums.
LEMMA TotalEqual ==
  ASSUME NEW S, IsFiniteSet(S), NEW f, NEW h, \A x \in S : f[x] \in Int /\ h[x] = f[x]
  PROVE  Total(f, S) = Total(h, S)
<1> DEFINE Good == {T \in SUBSET S : Total(f, T) = Total(h, T)}
<1>1. \A T \in SUBSET S : (\A U \in SUBSET T : U # T => U \in Good) => T \in Good
  <2> SUFFICES ASSUME NEW T \in SUBSET S, \A U \in SUBSET T : U # T => U \in Good
               PROVE  Total(f, T) = Total(h, T)
    OBVIOUS
  <2>1. IsFiniteSet(T) /\ (\A x \in T : f[x] \in Int) /\ (\A x \in T : h[x] \in Int)
    BY FS_Subset
  <2>2. CASE T = {}
    BY <2>1, <2>2, TotalStep
  <2>3. CASE T # {}
    <3>1. PICK x : x \in T
      BY <2>3
    <3>2. Total(f, T) = f[x] + Total(f, T \ {x})
      BY <2>1, <3>1, TotalRemove
    <3>3. Total(h, T) = h[x] + Total(h, T \ {x})
      BY <2>1, <3>1, TotalRemove
    <3>4. T \ {x} \in Good
      BY <3>1
    <3> QED BY <3>1, <3>2, <3>3, <3>4
  <2> QED BY <2>2, <2>3
<1>2. \A T \in SUBSET S : T \in Good
  <2> HIDE DEF Good
  <2> QED BY <1>1, SubsetInduction
<1> QED BY <1>2


\* What is zero does not matter to a sum.
LEMMA TotalOfOthers ==
  ASSUME NEW S, IsFiniteSet(S), NEW E \in SUBSET S, NEW f, \A x \in S : f[x] \in Int,
         \A x \in S \ E : f[x] = 0
  PROVE  Total(f, S) = Total(f, E)
<1> DEFINE R == S \ E
           Good == {T \in SUBSET R : Total(f, E \cup T) = Total(f, E)}
<1>1. IsFiniteSet(R)
  BY FS_Subset
<1>2. \A T \in SUBSET R : (\A U \in SUBSET T : U # T => U \in Good) => T \in Good
  <2> SUFFICES ASSUME NEW T \in SUBSET R, \A U \in SUBSET T : U # T => U \in Good
               PROVE  Total(f, E \cup T) = Total(f, E)
    OBVIOUS
  <2>1. CASE T = {}
    <3>1. E \cup T = E
      BY <2>1
    <3> QED BY <3>1
  <2>2. CASE T # {}
    <3>1. PICK x : x \in T
      BY <2>2
    <3>2. T \ {x} \in Good
      BY <3>1
    <3>3. /\ E \cup T \in SUBSET S /\ x \in E \cup T /\ (E \cup T) \ {x} = E \cup (T \ {x})
          /\ E \cup (T \ {x}) \in SUBSET S /\ f[x] = 0
      BY <3>1
    <3>4. IsFiniteSet(E \cup T) /\ IsFiniteSet(E \cup (T \ {x}))
      BY <3>3, FS_Subset
    <3>5. Total(f, E \cup T) = f[x] + Total(f, (E \cup T) \ {x})
      BY <3>3, <3>4, TotalRemove
    <3>6. Total(f, E \cup (T \ {x})) \in Int
      BY <3>3, <3>4, TotalStep
    <3>7. Total(f, E \cup (T \ {x})) = Total(f, E)
      BY <3>2
    <3>8. Total(f, E \cup T) = 0 + Total(f, E)
      BY <3>3, <3>5, <3>7
    <3> QED BY <3>6, <3>7, <3>8
  <2> QED BY <2>1, <2>2
<1>3. R \in Good
  <2> HIDE DEF Good, R
  <2>1. \A T \in SUBSET R : T \in Good
    BY <1>1, <1>2, SubsetInduction
  <2> QED BY <2>1
<1>4. E \cup R = S
  OBVIOUS
<1> QED BY <1>3, <1>4

\* A sum of differences is the difference of the sums.
LEMMA TotalDifference ==
  ASSUME NEW S, IsFiniteSet(S), NEW f, NEW g, NEW h,
         \A x \in S : f[x] \in Int /\ g[x] \in Int /\ h[x] = f[x] - g[x]
  PROVE  Total(h, S) = Total(f, S) - Total(g, S)
<1> DEFINE Good == {T \in SUBSET S : Total(h, T) = Total(f, T) - Total(g, T)}
<1>0. \A x \in S : h[x] \in Int
  OBVIOUS
<1>1. \A T \in SUBSET S : (\A U \in SUBSET T : U # T => U \in Good) => T \in Good
  <2> SUFFICES ASSUME NEW T \in SUBSET S, \A U \in SUBSET T : U # T => U \in Good
               PROVE  Total(h, T) = Total(f, T) - Total(g, T)
    OBVIOUS
  <2>1. /\ IsFiniteSet(T)
        /\ (\A x \in T : f[x] \in Int) /\ (\A x \in T : g[x] \in Int) /\ (\A x \in T : h[x] \in Int)
    BY <1>0, FS_Subset
  <2>2. CASE T = {}
    <3>1. Total(f, T) = 0 /\ Total(g, T) = 0 /\ Total(h, T) = 0
      BY <2>1, <2>2, TotalStep
    <3> QED BY <3>1
  <2>3. CASE T # {}
    <3>1. PICK x : x \in T
      BY <2>3
    <3>2. Total(f, T) = f[x] + Total(f, T \ {x})
      BY <2>1, <3>1, TotalRemove
    <3>3. Total(g, T) = g[x] + Total(g, T \ {x})
      BY <2>1, <3>1, TotalRemove
    <3>4. Total(h, T) = h[x] + Total(h, T \ {x})
      BY <2>1, <3>1, TotalRemove
    <3>5. Total(h, T \ {x}) = Total(f, T \ {x}) - Total(g, T \ {x})
      BY <3>1
    <3>6. IsFiniteSet(T \ {x}) /\ (\A y \in T \ {x} : f[y] \in Int) /\ (\A y \in T \ {x} : g[y] \in Int)
      BY <2>1, FS_Subset
    <3>7. Total(f, T \ {x}) \in Int
      BY <3>6, TotalStep
    <3>8. Total(g, T \ {x}) \in Int
      BY <3>6, TotalStep
    <3>9. f[x] \in Int /\ g[x] \in Int /\ h[x] = f[x] - g[x]
      BY <3>1
    <3> QED BY <3>2, <3>3, <3>4, <3>5, <3>7, <3>8, <3>9
  <2> QED BY <2>2, <2>3
<1>2. \A T \in SUBSET S : T \in Good
  <2> HIDE DEF Good
  <2> QED BY <1>1, SubsetInduction
<1> QED BY <1>2

\* The summand at r is split into the two at r and e.
IsSplit(S, r, e, f, h) ==
  /\ r \in S /\ e \notin S
  /\ \A x \in S : f[x] \in Int
  /\ \A x \in S \ {r} : h[x] = f[x]
  /\ h[r] \in Int /\ h[e] \in Int
  /\ h[r] + h[e] = f[r]

\* What is split off a summand and added as one of its own changes no sum.
LEMMA TotalSplit ==
  ASSUME NEW S, IsFiniteSet(S), NEW r, NEW e, NEW f, NEW h, IsSplit(S, r, e, f, h)
  PROVE  Total(h, S \cup {e}) = Total(f, S)
<1>0. /\ r \in S /\ e \notin S
      /\ \A x \in S : f[x] \in Int
      /\ \A x \in S \ {r} : h[x] = f[x]
      /\ h[r] \in Int /\ h[e] \in Int
      /\ h[r] + h[e] = f[r]
  BY DEF IsSplit
<1> DEFINE R == S \ {r}
           T == S \cup {e}
<1>1. IsFiniteSet(T) /\ IsFiniteSet(S) /\ IsFiniteSet(R)
  <2>1. IsFiniteSet(T)
    BY FS_AddElement
  <2> QED BY <2>1, FS_Subset
<1>2. T \ {e} = S /\ e \in T
  BY <1>0
<1>3. (\A x \in T : h[x] \in Int) /\ (\A x \in S : h[x] \in Int) /\ (\A x \in R : f[x] \in Int /\ h[x] = f[x])
  BY <1>0
<1> HIDE DEF T
<1>4. Total(h, T) = h[e] + Total(h, T \ {e})
  BY <1>1, <1>2, <1>3, TotalRemove
<1>5. Total(h, S) = h[r] + Total(h, R)
  BY <1>0, <1>3, TotalRemove
<1>6. Total(f, S) = f[r] + Total(f, R)
  BY <1>0, TotalRemove
<1>7. Total(f, R) = Total(h, R)
  <2> HIDE DEF R
  <2> QED BY <1>1, <1>3, TotalEqual
<1>8. Total(f, R) \in Int
  <2> HIDE DEF R
  <2> QED BY <1>1, <1>3, TotalStep
<1>9. Total(h, T) = h[e] + (h[r] + Total(f, R))
  BY <1>2, <1>4, <1>5, <1>7
<1> QED BY <1>0, <1>6, <1>8, <1>9 DEF T

=============================================================================
