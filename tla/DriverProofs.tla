---------------------------- MODULE DriverProofs ----------------------------
(***************************************************************************)
(* Proofs about what calls an algorithm again and again and keeps a state  *)
(* of its own between the calls.  The drivers of module Evolution, repeated*)
(* partitioning and the population, deliver the best of all partitions they*)
(* have made, and each call of the partitioner hands the hypergraph back as*)
(* it was.  The scheduler of module QuotientGraph, which hands pairs of    *)
(* blocks to the flow refinement: however hypernodes move and whichever    *)
(* lists are looked at in between, no net that connects two blocks is      *)
(* missing in the list of these blocks, and a list is exact when it is     *)
(* handed out.                                                             *)
(***************************************************************************)
EXTENDS Evolution, SetSums, SequenceTheorems

-----------------------------------------------------------------------------
(* Numbers: extrema and sums, and with them what compares partitions.        *)

\* A finite set of numbers, unless it is empty, has a greatest and a least one.
LEMMA Extrema ==
  ASSUME NEW S, IsFiniteSet(S), S # {}, \A x \in S : x \in Int
  PROVE  /\ Max(S) \in S /\ \A x \in S : Max(S) >= x
         /\ Min(S) \in S /\ \A x \in S : Min(S) <= x
<1> DEFINE Good == {T \in SUBSET S : T # {} => /\ \E x \in T : \A y \in T : x >= y
                                               /\ \E x \in T : \A y \in T : x <= y}
<1>1. ASSUME NEW T \in SUBSET S, \A U \in SUBSET T : U # T => U \in Good, T # {}
      PROVE  /\ \E x \in T : \A y \in T : x >= y
             /\ \E x \in T : \A y \in T : x <= y
  <2>1. PICK z : z \in T
    BY <1>1
  <2>2. T \ {z} \in Good
    BY <1>1, <2>1
  <2>3. CASE T \ {z} = {}
    <3>1. \A y \in T : y = z /\ y \in Int
      BY <2>3
    <3> QED BY <2>1, <3>1
  <2>4. CASE T \ {z} # {}
    <3>1. PICK a \in T \ {z} : \A y \in T \ {z} : a >= y
      BY <2>2, <2>4
    <3>2. PICK b \in T \ {z} : \A y \in T \ {z} : b <= y
      BY <2>2, <2>4
    <3>3. a \in Int /\ b \in Int /\ z \in Int /\ \A y \in T : y \in Int
      BY <2>1
    <3>4. \E x \in T : \A y \in T : x >= y
      <4>1. CASE a >= z
        BY <3>1, <3>3, <4>1
      <4>2. CASE ~ a >= z
        BY <2>1, <3>1, <3>3, <4>2
      <4> QED BY <4>1, <4>2
    <3>5. \E x \in T : \A y \in T : x <= y
      <4>1. CASE b <= z
        BY <3>2, <3>3, <4>1
      <4>2. CASE ~ b <= z
        BY <2>1, <3>2, <3>3, <4>2
      <4> QED BY <4>1, <4>2
    <3> QED BY <3>4, <3>5
  <2> QED BY <2>3, <2>4
<1>2. \A T \in SUBSET S : T \in Good
  <2>1. \A T \in SUBSET S : (\A U \in SUBSET T : U # T => U \in Good) => T \in Good
    BY <1>1
  <2> HIDE DEF Good
  <2> QED BY <2>1, SubsetInduction
<1>3. (\E x \in S : \A y \in S : x >= y) /\ (\E x \in S : \A y \in S : x <= y)
  BY <1>2
<1> QED BY <1>3 DEF Max, Min

\* The sums of the models are those of SetSums.
LEMMA SumIsTotal ==
  ASSUME NEW f, NEW S
  PROVE  SumFunctionOnSet(f, S) = Total(f, S)
BY Zenon DEF SumFunctionOnSet, FoldFunctionOnSet, MapThenFoldSet, Total, MapThenSumSet

\* Lesser summands have a lesser sum.
LEMMA TotalAtMost ==
  ASSUME NEW S, IsFiniteSet(S), NEW f, NEW g, \A x \in S : f[x] \in Int /\ g[x] \in Int /\ f[x] <= g[x]
  PROVE  Total(f, S) <= Total(g, S)
<1> DEFINE Good == {T \in SUBSET S : Total(f, T) <= Total(g, T)}
<1>1. ASSUME NEW T \in SUBSET S, \A U \in SUBSET T : U # T => U \in Good PROVE T \in Good
  <2>1. IsFiniteSet(T) /\ (\A x \in T : f[x] \in Int) /\ (\A x \in T : g[x] \in Int)
    BY FS_Subset
  <2>2. CASE T = {}
    <3>1. Total(f, T) = 0 /\ Total(g, T) = 0
      BY <2>1, <2>2, TotalStep
    <3> QED BY <3>1
  <2>3. CASE T # {}
    <3>1. PICK x : x \in T
      BY <2>3
    <3>2. Total(f, T) = f[x] + Total(f, T \ {x}) /\ Total(g, T) = g[x] + Total(g, T \ {x})
      BY <2>1, <3>1, TotalRemove
    <3>3. IsFiniteSet(T \ {x}) /\ (\A y \in T \ {x} : f[y] \in Int) /\ (\A y \in T \ {x} : g[y] \in Int)
      BY <2>1, FS_Subset
    <3>4. Total(f, T \ {x}) \in Int /\ Total(g, T \ {x}) \in Int
      BY <3>3, TotalStep
    <3>5. Total(f, T \ {x}) <= Total(g, T \ {x}) /\ f[x] <= g[x] /\ f[x] \in Int /\ g[x] \in Int
      BY <1>1, <3>1
    <3> QED BY <3>2, <3>4, <3>5
  <2> QED BY <2>2, <2>3
<1>2. \A T \in SUBSET S : T \in Good
  <2> HIDE DEF Good
  <2> QED BY <1>1, SubsetInduction
<1> QED BY <1>2

\* A net connects no more blocks than it has pins.
LEMMA BlocksOfNet ==
  ASSUME NEW pins, IsFiniteSet(pins), NEW p
  PROVE  LET blocks == {p[v] : v \in pins} \ {Unassigned}
         IN  Cardinality(blocks) \in Nat /\ Cardinality(blocks) <= Cardinality(pins)
<1> DEFINE image == {p[v] : v \in pins}
           f == [v \in pins |-> p[v]]
<1>1. f \in Surjection(pins, image)
  BY DEF Surjection
<1>2. IsFiniteSet(image) /\ Cardinality(image) <= Cardinality(pins)
  <2> HIDE DEF f, image
  <2> QED BY <1>1, FS_Surjection
<1>3. image \ {Unassigned} \in SUBSET image
  OBVIOUS
<1> HIDE DEF image
<1>4. /\ IsFiniteSet(image \ {Unassigned})
      /\ Cardinality(image \ {Unassigned}) <= Cardinality(image)
  BY <1>2, <1>3, FS_Subset
<1>5. Cardinality(image \ {Unassigned}) \in Nat /\ Cardinality(image) \in Nat /\ Cardinality(pins) \in Nat
  BY <1>2, <1>4, FS_CardinalityType
<1> QED BY <1>2, <1>4, <1>5 DEF image

\* The nets of an input and the weights of its hypernodes.
LEMMA OriginalTyped ==
  ASSUME input \in Inputs
  PROVE  /\ EdgesOf(Original) = Hyperedge /\ NodesOf(Original) = Hypernode
         /\ \A e \in Hyperedge : /\ Original.pins[e] = input.pins[e] /\ IsFiniteSet(Original.pins[e])
                                 /\ Original.netWeight[e] = input.netWeight[e] /\ Original.netWeight[e] \in Nat
         /\ \A v \in Hypernode : Original.weight[v] \in Nat
<1>1. \A e \in Hyperedge : input.pins[e] \in SUBSET Hypernode /\ input.netWeight[e] \in Nat
  BY InputsAssumption
<1>2. \A v \in Hypernode : input.weight[v] \in Nat
  BY InputsAssumption
<1>3. \A e \in Hyperedge : IsFiniteSet(input.pins[e])
  BY <1>1, InputsAssumption, FS_Subset
<1> QED BY <1>1, <1>2, <1>3 DEF Original, AsHypergraph, Read, EdgesOf, NodesOf

\* What a net counts for is no more than the number of its blocks.
LEMMA FactorTyped ==
  ASSUME NEW l \in Nat, NEW n \in Nat, l <= n, NEW km1
  PROVE  LET factor == IF km1 THEN Max({l - 1, 0}) ELSE IF l > 1 THEN 1 ELSE 0
         IN  factor \in Nat /\ factor <= n
<1> DEFINE S == {l - 1, 0}
<1>1. IsFiniteSet(S) /\ S # {} /\ \A x \in S : x \in Int
  <2>1. S = {0} \cup {l - 1} /\ l - 1 \in Int
    OBVIOUS
  <2>2. IsFiniteSet({0})
    BY FS_Singleton
  <2>3. IsFiniteSet({0} \cup {l - 1})
    BY <2>2, FS_AddElement
  <2> QED BY <2>1, <2>3
<1>2. Max(S) \in S /\ \A x \in S : Max(S) >= x
  <2> HIDE DEF S
  <2> QED BY <1>1, Extrema
<1>3. Max(S) \in Nat /\ Max(S) <= n
  BY <1>2
<1> HIDE DEF S
<1>4. (IF km1 THEN Max(S) ELSE IF l > 1 THEN 1 ELSE 0) \in Nat
      /\ (IF km1 THEN Max(S) ELSE IF l > 1 THEN 1 ELSE 0) <= n
  BY <1>3
<1> QED BY <1>4 DEF S

\* The objective of any partition is a number that its type can hold.
LEMMA QualityTyped ==
  ASSUME input \in Inputs, NEW p
  PROVE  Quality(p) \in Int /\ Quality(p) < MaxQuality
<1> DEFINE lambda(e) == Cardinality(ConnectivitySet(Original, p, e))
           factor(e) == IF input.objective = "km1" THEN Max({lambda(e) - 1, 0}) ELSE IF lambda(e) > 1 THEN 1 ELSE 0
           cost == [e \in Hyperedge |-> Original.netWeight[e] * factor(e)]
           most == [e \in Hyperedge |-> input.netWeight[e] * Cardinality(input.pins[e])]
<1>1. Quality(p) = Total(cost, Hyperedge)
  <2>1. DOMAIN cost = Hyperedge
    OBVIOUS
  <2>2. Quality(p) = SumFunction(cost)
    BY OriginalTyped, Zenon DEF Quality, Objective
  <2> HIDE DEF cost
  <2> QED BY <2>1, <2>2, SumIsTotal DEF SumFunction
<1>2. Total(most, Hyperedge) < MaxQuality
  <2>1. DOMAIN most = Hyperedge
    OBVIOUS
  <2>2. SumFunction(most) < MaxQuality
    BY QualityAssumption
  <2> HIDE DEF most
  <2> QED BY <2>1, <2>2, SumIsTotal DEF SumFunction
<1>3. ASSUME NEW e \in Hyperedge PROVE cost[e] \in Int /\ most[e] \in Int /\ cost[e] <= most[e]
  <2> DEFINE n == Cardinality(input.pins[e])
             w == input.netWeight[e]
  <2>1. lambda(e) \in Nat /\ lambda(e) <= n
    <3>1. Original.pins[e] = input.pins[e] /\ IsFiniteSet(input.pins[e])
      BY OriginalTyped
    <3>2. lambda(e) = Cardinality({p[v] : v \in input.pins[e]} \ {Unassigned})
      BY <3>1 DEF ConnectivitySet
    <3> QED BY <3>1, <3>2, BlocksOfNet
  <2>2. factor(e) \in Nat /\ factor(e) <= n /\ n \in Nat
    <3>1. n \in Nat
      BY OriginalTyped, FS_CardinalityType
    <3> HIDE DEF lambda, n
    <3> QED BY <2>1, <3>1, FactorTyped
  <2>3. w \in Nat /\ Original.netWeight[e] = w
    BY OriginalTyped
  <2>4. \A x \in Nat, y \in Nat : y <= n => w * y \in Nat /\ w * n \in Nat /\ w * y <= w * n
    <3> HIDE DEF w, n
    <3> QED BY <2>2, <2>3
  <2>5. cost[e] = w * factor(e) /\ most[e] = w * n
    BY <2>3
  <2> HIDE DEF cost, most, factor, n, w
  <2> QED BY <2>2, <2>4, <2>5
<1>4. Total(cost, Hyperedge) \in Int /\ Total(most, Hyperedge) \in Int /\ Total(cost, Hyperedge) <= Total(most, Hyperedge)
  <2> HIDE DEF cost, most
  <2>1. IsFiniteSet(Hyperedge)
    BY InputsAssumption
  <2>2. (\A e \in Hyperedge : cost[e] \in Int) /\ (\A e \in Hyperedge : most[e] \in Int)
    BY <1>3
  <2> QED BY <1>3, <2>1, <2>2, TotalStep, TotalAtMost
<1> QED BY <1>1, <1>2, <1>4, QualityAssumption

\* So is the weight of its heaviest block.
LEMMA ImbalanceTyped ==
  ASSUME input \in Inputs, NEW p
  PROVE  Imbalance(p) \in Int
<1> DEFINE weight == [b \in Blocks |-> BlockWeight(Original, p, b)]
           S == {weight[b] : b \in Blocks}
<1>1. \A b \in Blocks : weight[b] \in Int
  <2> SUFFICES ASSUME NEW b \in Blocks PROVE BlockWeight(Original, p, b) \in Int
    OBVIOUS
  <2> DEFINE members == {v \in NodesOf(Original) : p[v] = b}
  <2>1. IsFiniteSet(members) /\ \A v \in members : Original.weight[v] \in Int
    <3>1. NodesOf(Original) = Hypernode /\ \A v \in Hypernode : Original.weight[v] \in Nat
      BY OriginalTyped
    <3>2. members \subseteq Hypernode
      BY <3>1
    <3>3. IsFiniteSet(Hypernode)
      BY InputsAssumption
    <3>4. IsFiniteSet(members)
      <4> HIDE DEF members
      <4> QED BY <3>2, <3>3, FS_Subset
    <3>5. \A v \in members : Original.weight[v] \in Int
      <4> HIDE DEF members
      <4> QED BY <3>1, <3>2
    <3> QED BY <3>4, <3>5
  <2>2. BlockWeight(Original, p, b) = SumFunctionOnSet(Original.weight, members)
    BY Zenon DEF BlockWeight
  <2>3. SumFunctionOnSet(Original.weight, members) = Total(Original.weight, members)
    BY SumIsTotal
  <2> HIDE DEF members
  <2>4. Total(Original.weight, members) \in Int
    BY <2>1, TotalStep
  <2> QED BY <2>2, <2>3, <2>4
<1>2. IsFiniteSet(S) /\ S # {} /\ \A x \in S : x \in Int
  <2>1. input.k \in Nat \ {0}
    BY InputsAssumption
  <2>2. IsFiniteSet(Blocks) /\ 0 \in Blocks
    <3>1. 0 \in Int /\ input.k - 1 \in Int
      BY <2>1
    <3>2. IsFiniteSet(0 .. input.k - 1)
      BY <3>1, FS_Interval
    <3> QED BY <2>1, <3>2 DEF Blocks
  <2>3. weight \in Surjection(Blocks, S)
    <3>1. weight \in [Blocks -> S]
      OBVIOUS
    <3> HIDE DEF weight
    <3> QED BY <3>1 DEF Surjection
  <2>4. IsFiniteSet(S)
    <3> HIDE DEF weight, S
    <3> QED BY <2>2, <2>3, FS_Surjection
  <2> HIDE DEF weight
  <2> QED BY <1>1, <2>2, <2>4
<1>3. Max(S) \in Int
  <2> HIDE DEF S
  <2> QED BY <1>2, Extrema
<1>4. S = {BlockWeight(Original, p, b) : b \in Blocks}
  OBVIOUS
<1> QED BY <1>3, <1>4 DEF Imbalance

\* So is the number of nets that are cut in one of two partitions only.
LEMMA DifferenceTyped ==
  ASSUME input \in Inputs, NEW p, NEW i, NEW strong
  PROVE  Difference(p, i, strong) \in Int
<1> DEFINE copies(q, e) == Copies(q, e, strong)
           S(e) == {copies(p, e) - copies(population[i], e), copies(population[i], e) - copies(p, e)}
           f == [e \in Hyperedge |-> Max(S(e))]
<1>1. ASSUME NEW q, NEW e \in Hyperedge PROVE copies(q, e) \in Int
  <2>1. Original.pins[e] = input.pins[e] /\ IsFiniteSet(input.pins[e])
    BY OriginalTyped
  <2>2. Cardinality(ConnectivitySet(Original, q, e)) \in Nat
    <3>1. Cardinality(ConnectivitySet(Original, q, e)) = Cardinality({q[v] : v \in input.pins[e]} \ {Unassigned})
      BY <2>1 DEF ConnectivitySet
    <3> QED BY <2>1, <3>1, BlocksOfNet
  <2> QED BY <2>2 DEF Copies
<1>2. ASSUME NEW e \in Hyperedge PROVE f[e] \in Int
  <2> DEFINE a == copies(p, e)
             b == copies(population[i], e)
  <2>1. a - b \in Int /\ b - a \in Int
    <3>1. a \in Int /\ b \in Int
      BY <1>1
    <3> HIDE DEF a, b
    <3> QED BY <3>1
  <2>2. S(e) = {a - b} \cup {b - a}
    OBVIOUS
  <2>3. IsFiniteSet(S(e))
    <3>1. IsFiniteSet({a - b})
      BY FS_Singleton
    <3> HIDE DEF a, b
    <3>2. IsFiniteSet({a - b} \cup {b - a})
      BY <3>1, FS_AddElement
    <3> QED BY <2>2, <3>2
  <2>4. S(e) # {} /\ \A x \in S(e) : x \in Int
    <3> HIDE DEF a, b, S
    <3> QED BY <2>1, <2>2
  <2>5. Max(S(e)) \in Int
    <3> HIDE DEF S
    <3> QED BY <2>3, <2>4, Extrema
  <2> QED BY <2>5
<1>3. Total(f, Hyperedge) \in Int
  <2> HIDE DEF f
  <2> QED BY <1>2, InputsAssumption, TotalStep
<1>4. Difference(p, i, strong) = SumFunction(f)
  BY Zenon DEF Difference
<1>5. DOMAIN f = Hyperedge
  OBVIOUS
<1> HIDE DEF f
<1> QED BY <1>3, <1>4, <1>5, SumIsTotal DEF SumFunction

-----------------------------------------------------------------------------
(* The individuals that are looked for.                                      *)

\* The first of the positions A at which f is least.
LEMMA FirstOfLeast ==
  ASSUME NEW n \in Nat, NEW A \in SUBSET (1 .. n), A # {}, NEW f, \A i \in A : f[i] \in Int
  PROVE  LET m == Min({i \in A : \A j \in A : f[i] <= f[j]})
         IN  m \in A /\ \A j \in A : f[m] <= f[j]
<1> DEFINE values == {f[i] : i \in A}
           g == [i \in A |-> f[i]]
           least == {i \in A : \A j \in A : f[i] <= f[j]}
<1>1. IsFiniteSet(1 .. n) /\ IsFiniteSet(A)
  <2>1. 1 \in Int /\ n \in Int
    OBVIOUS
  <2>2. IsFiniteSet(1 .. n)
    BY <2>1, FS_Interval
  <2> QED BY <2>2, FS_Subset
<1>2. IsFiniteSet(values)
  <2>1. g \in Surjection(A, values)
    BY DEF Surjection
  <2> HIDE DEF g, values
  <2> QED BY <1>1, <2>1, FS_Surjection
<1>3. Min(values) \in values /\ \A x \in values : Min(values) <= x
  <2>1. values # {} /\ \A x \in values : x \in Int
    OBVIOUS
  <2> HIDE DEF values
  <2> QED BY <1>2, <2>1, Extrema
<1>4. PICK a \in A : f[a] = Min(values)
  BY <1>3
<1>5. a \in least
  BY <1>3, <1>4
<1>6. IsFiniteSet(least) /\ \A i \in least : i \in Int
  <2>1. least \in SUBSET A
    OBVIOUS
  <2>2. IsFiniteSet(least)
    <3> HIDE DEF least
    <3> QED BY <1>1, <2>1, FS_Subset
  <2> QED BY <2>2
<1>7. Min(least) \in least
  <2> HIDE DEF least
  <2> QED BY <1>5, <1>6, Extrema
<1> HIDE DEF values
<1> QED BY <1>7

\* The best and the worst individual, and the most similar one of those that are
\* no better, are individuals, and they are what their names say.
LEMMA IndividualsFound ==
  ASSUME input \in Inputs, NEW S, population \in Seq(S), population # << >>
  PROVE  /\ Best \in Positions /\ \A j \in Positions : Fitness(Best) <= Fitness(j)
         /\ Worst \in Positions /\ \A j \in Positions : Fitness(Worst) >= Fitness(j)
         /\ \A p, strong : Quality(p) <= Fitness(Worst) =>
              MostSimilar(p, strong) \in Positions /\ Fitness(MostSimilar(p, strong)) >= Quality(p)
<1> DEFINE n == Len(population)
           f == [i \in Positions |-> Fitness(i)]
           g == [i \in Positions |-> 0 - Fitness(i)]
<1>1. n \in Nat /\ Positions = 1 .. n /\ Positions # {}
  BY DEF Positions
<1>2. \A i \in Positions : Fitness(i) \in Int
  BY QualityTyped DEF Fitness
<1> HIDE DEF n
<1>3. Best \in Positions /\ \A j \in Positions : Fitness(Best) <= Fitness(j)
  <2> DEFINE least == {i \in Positions : \A j \in Positions : f[i] <= f[j]}
  <2>1. \A i \in Positions : f[i] \in Int
    BY <1>2
  <2>2. least = {i \in Positions : \A j \in Positions : Fitness(i) <= Fitness(j)}
    OBVIOUS
  <2>3. Min(least) \in Positions /\ \A j \in Positions : f[Min(least)] <= f[j]
    <3> HIDE DEF f
    <3> QED BY <1>1, <2>1, FirstOfLeast
  <2>4. Best = Min(least)
    BY <2>2 DEF Best
  <2> HIDE DEF least
  <2> QED BY <2>3, <2>4
<1>4. Worst \in Positions /\ \A j \in Positions : Fitness(Worst) >= Fitness(j)
  <2> DEFINE most == {i \in Positions : \A j \in Positions : g[i] <= g[j]}
  <2>1. \A i \in Positions : g[i] \in Int
    BY <1>2
  <2>2. most = {i \in Positions : \A j \in Positions : Fitness(i) >= Fitness(j)}
    <3>1. \A i, j \in Positions : g[i] <= g[j] <=> Fitness(i) >= Fitness(j)
      BY <1>2
    <3> HIDE DEF g
    <3> QED BY <3>1
  <2>3. Min(most) \in Positions /\ \A j \in Positions : g[Min(most)] <= g[j]
    <3> HIDE DEF g
    <3> QED BY <1>1, <2>1, FirstOfLeast
  <2>4. Worst = Min(most)
    BY <2>2 DEF Worst
  <2> HIDE DEF most
  <2> QED BY <1>2, <2>3, <2>4
<1>5. ASSUME NEW p, NEW strong, Quality(p) <= Fitness(Worst)
      PROVE  MostSimilar(p, strong) \in Positions /\ Fitness(MostSimilar(p, strong)) >= Quality(p)
  <2> DEFINE noBetter == {i \in Positions : Fitness(i) >= Quality(p)}
             d == [i \in Positions |-> Difference(p, i, strong)]
             least == {i \in noBetter : \A j \in noBetter : d[i] <= d[j]}
  <2>1. Worst \in noBetter
    BY <1>2, <1>4, <1>5, QualityTyped
  <2>2. \A i \in noBetter : d[i] \in Int
    BY DifferenceTyped
  <2>3. least = {i \in noBetter : \A j \in noBetter : Difference(p, i, strong) <= Difference(p, j, strong)}
    OBVIOUS
  <2>4. MostSimilar(p, strong) = Min(least)
    BY <2>3 DEF MostSimilar
  <2>5. Min(least) \in noBetter
    <3>1. noBetter \in SUBSET (1 .. n)
      BY <1>1
    <3> HIDE DEF d, noBetter
    <3> QED BY <1>1, <2>1, <2>2, <3>1, FirstOfLeast
  <2> HIDE DEF least
  <2> QED BY <2>4, <2>5
<1> QED BY <1>3, <1>4, <1>5

-----------------------------------------------------------------------------
(* The inductive invariant.                                                  *)

\* Quality and imbalance of partition p of input i.
HypergraphOf(i) == AsHypergraph(Read(i), i.netWeight, i.fixed)
QualityOf(i, p) == Objective(HypergraphOf(i), p, i.objective)
ImbalanceOf(i, p) == Max({BlockWeight(HypergraphOf(i), p, b) : b \in 0 .. i.k - 1})

LEMMA QualityOfInput == \A p : Quality(p) = QualityOf(input, p) /\ Imbalance(p) = ImbalanceOf(input, p)
BY Zenon DEF Quality, QualityOf, Imbalance, ImbalanceOf, Original, HypergraphOf, Blocks

LEMMA NumbersOfInput ==
  ASSUME input \in Inputs
  PROVE  \A p : QualityOf(input, p) \in Int /\ QualityOf(input, p) < MaxQuality /\ ImbalanceOf(input, p) \in Int
BY QualityTyped, ImbalanceTyped, QualityOfInput

\* The quality q of the best individual ever is still in the population l.
BestIsKept(i, l, q) ==
  IF l = << >> THEN q = MaxQuality
  ELSE /\ \E j \in 1 .. Len(l) : QualityOf(i, l[j]) = q
       /\ \A j \in 1 .. Len(l) : q <= QualityOf(i, l[j])

\* The best solution is one of all, and the first of the best.
BestIsOfAll(i, b) ==
  IF b.all = {} THEN b.quality = MaxQuality
  ELSE /\ b.quality = QualityOf(i, b.part) /\ b.imbalance = ImbalanceOf(i, b.part)
       /\ << b.quality, b.imbalance >> \in b.all
       /\ \A r \in b.all : /\ r[1] \in Int /\ r[2] \in Int
                           /\ b.quality < r[1] \/ (b.quality = r[1] /\ b.imbalance <= r[2])

\* An individual is in the population when the evolution goes on, and a result is
\* there when it ends.
DriverInv ==
  /\ input \in Inputs
  /\ DOMAIN best = {"part", "quality", "imbalance", "all"}
  /\ \E S : population \in Seq(S)
  /\ Len(population) <= PopulationSize
  /\ population # << >> => input.evolutionary
  /\ pc = "decide" => population # << >>
  /\ input.evolutionary => BestIsKept(input, population, best.quality)
  /\ input.repeated => BestIsOfAll(input, best)
  /\ pc = "done" /\ input.repeated => best.all # {} /\ part = best.part
  /\ pc = "done" /\ input.evolutionary => QualityOf(input, part) = best.quality

\* The invariant contains the property.
LEMMA DriverInvImplies == DriverInv => BestOfAll
<1> SUFFICES ASSUME DriverInv PROVE BestOfAll
  OBVIOUS
<1>1. CASE pc = "done" /\ input.repeated
  <2>1. best.all # {} /\ part = best.part /\ BestIsOfAll(input, best)
    BY <1>1 DEF DriverInv
  <2>2. Quality(part) = best.quality /\ Imbalance(part) = best.imbalance
    BY <2>1, QualityOfInput DEF BestIsOfAll
  <2>3. ~ input.evolutionary
    BY <1>1, InputsAssumption DEF DriverInv
  <2> QED BY <2>1, <2>2, <2>3 DEF BestOfAll, BestIsOfAll
<1>2. CASE pc = "done" /\ input.evolutionary
  <2>1. Quality(part) = best.quality
    BY <1>2, QualityOfInput DEF DriverInv
  <2>2. ~ input.repeated
    BY <1>2, InputsAssumption DEF DriverInv
  <2> QED BY <2>1, <2>2 DEF BestOfAll
<1>3. CASE ~ (pc = "done" /\ input.repeated) /\ ~ (pc = "done" /\ input.evolutionary)
  BY <1>3 DEF BestOfAll
<1> QED BY <1>1, <1>2, <1>3

LEMMA DriverInit == EvoInit => DriverInv
<1> SUFFICES ASSUME EvoInit PROVE DriverInv
  OBVIOUS
<1>1. input \in Inputs /\ population = << >> /\ pc = "configure"
  BY DEF EvoInit, Init
<1>2. DOMAIN best = {"part", "quality", "imbalance", "all"} /\ best.quality = MaxQuality /\ best.all = {}
  BY DEF EvoInit, Init
<1>3. population \in Seq({}) /\ Len(population) = 0
  BY <1>1
<1> QED BY <1>1, <1>2, <1>3, PopulationSizeAssumption DEF DriverInv, BestIsKept, BestIsOfAll

\* The steps of Partitioner::partition know nothing of the drivers.
QuietStep ==
  /\ UNCHANGED <<input, best, population>>
  /\ pc' # "decide" /\ (pc' = "done" => ~ input.repeated /\ ~ input.evolutionary)

LEMMA QuietStepsKeep == DriverInv /\ QuietStep => DriverInv'
<1> SUFFICES ASSUME DriverInv, QuietStep PROVE DriverInv'
  OBVIOUS
<1>1. input' = input /\ best' = best /\ population' = population
  BY DEF QuietStep
<1> QED BY <1>1 DEF DriverInv, QuietStep

LEMMA PipelineIsQuiet ==
  ASSUME Next, UNCHANGED population, ~ Repeat
  PROVE  QuietStep
<1> USE DEF QuietStep, runVars, inputVars
<1>1. CASE Configure
  BY <1>1 DEF Configure
<1>2. CASE RemoveIdenticalVertices
  BY <1>2 DEF RemoveIdenticalVertices
<1>3. CASE RemoveParallelHyperedges
  BY <1>3 DEF RemoveParallelHyperedges
<1>4. CASE RemoveSingleNodeHyperedges
  BY <1>4 DEF RemoveSingleNodeHyperedges
<1>5. CASE RemoveLargeHyperedges
  BY <1>5 DEF RemoveLargeHyperedges
<1>6. CASE SparsifyRound
  BY <1>6 DEF SparsifyRound
<1>7. CASE Partition
  BY <1>7 DEF Partition
<1>8. CASE RestoreSingleNodeHyperedges
  BY <1>8 DEF RestoreSingleNodeHyperedges
<1>9. CASE RestoreLargeHyperedges
  BY <1>9 DEF RestoreLargeHyperedges
<1>10. CASE RestoreParallelHyperedges
  BY <1>10 DEF RestoreParallelHyperedges
<1>11. CASE RestoreIdenticalVertices
  BY <1>11 DEF RestoreIdenticalVertices
<1>12. CASE FinishSingle
  BY <1>12 DEF FinishSingle
<1> QED BY <1>1, <1>2, <1>3, <1>4, <1>5, <1>6, <1>7, <1>8, <1>9, <1>10, <1>11, <1>12 DEF Next

\* What is better than the best of all is better than all.
LEMMA BetterThanAll ==
  ASSUME NEW A, NEW q \in Int, NEW i \in Int, NEW x \in Int, NEW y \in Int, q < x \/ (q = x /\ i < y),
         \A r \in A : r[1] \in Int /\ r[2] \in Int /\ (x < r[1] \/ (x = r[1] /\ y <= r[2]))
  PROVE  \A r \in A : r[1] \in Int /\ r[2] \in Int /\ (q < r[1] \/ (q = r[1] /\ i <= r[2]))
<1> SUFFICES ASSUME NEW r \in A
             PROVE  r[1] \in Int /\ r[2] \in Int /\ (q < r[1] \/ (q = r[1] /\ i <= r[2]))
  OBVIOUS
<1>1. r[1] \in Int /\ r[2] \in Int /\ (x < r[1] \/ (x = r[1] /\ y <= r[2]))
  OBVIOUS
<1> QED BY <1>1

\* A solution takes the place of the best one if it is better, and the best of all
\* is delivered, whatever the hypergraph holds then.
LEMMA RepeatKeeps == DriverInv /\ Repeat /\ UNCHANGED population => DriverInv'
<1> SUFFICES ASSUME DriverInv, Repeat, UNCHANGED population PROVE DriverInv'
  OBVIOUS
<1> DEFINE q == QualityOf(input, part)
           i == ImbalanceOf(input, part)
           all == best.all \cup {<< q, i >>}
<1>1. input' = input /\ input \in Inputs /\ input.repeated /\ ~ input.evolutionary /\ population' = population
  BY InputsAssumption DEF Repeat, inputVars, DriverInv
<1>2. best' = IF q < best.quality \/ (q = best.quality /\ i < best.imbalance)
              THEN [part |-> part, quality |-> q, imbalance |-> i, all |-> all]
              ELSE [best EXCEPT !.all = all]
  BY QualityOfInput DEF Repeat, Improves
<1>3. /\ \A p : QualityOf(input, p) \in Int /\ QualityOf(input, p) < MaxQuality /\ ImbalanceOf(input, p) \in Int
      /\ q \in Int /\ q < MaxQuality /\ i \in Int /\ MaxQuality \in Int
  BY <1>1, NumbersOfInput, QualityAssumption
<1>4. BestIsOfAll(input, best) /\ DOMAIN best = {"part", "quality", "imbalance", "all"}
  BY <1>1 DEF DriverInv
<1>5. BestIsOfAll(input, best') /\ best'.all # {} /\ DOMAIN best' = {"part", "quality", "imbalance", "all"}
  <2> HIDE DEF q, i
  <2>0. q = QualityOf(input, part) /\ i = ImbalanceOf(input, part)
    BY DEF q, i
  <2>1. CASE q < best.quality \/ (q = best.quality /\ i < best.imbalance)
    <3>1. best' = [part |-> part, quality |-> q, imbalance |-> i, all |-> all]
      BY <1>2, <2>1
    <3>2. best.all # {} =>
            /\ best.quality = QualityOf(input, best.part) /\ best.imbalance = ImbalanceOf(input, best.part)
            /\ \A r \in best.all : /\ r[1] \in Int /\ r[2] \in Int
                                   /\ best.quality < r[1] \/ (best.quality = r[1] /\ best.imbalance <= r[2])
      BY <1>4 DEF BestIsOfAll
    <3>3. \A r \in best.all : r[1] \in Int /\ r[2] \in Int /\ (q < r[1] \/ (q = r[1] /\ i <= r[2]))
      <4>1. CASE best.all = {}
        BY <4>1
      <4>2. CASE best.all # {}
        <5>1. best.quality \in Int /\ best.imbalance \in Int
          BY <1>3, <3>2, <4>2
        <5>2. \A r \in best.all : /\ r[1] \in Int /\ r[2] \in Int
                                  /\ best.quality < r[1] \/ (best.quality = r[1] /\ best.imbalance <= r[2])
          BY <3>2, <4>2
        <5>3. q \in Int /\ i \in Int
          BY <1>3
        <5> QED BY <2>1, <5>1, <5>2, <5>3, BetterThanAll
      <4> QED BY <4>1, <4>2
    <3>4. \A r \in all : r[1] \in Int /\ r[2] \in Int /\ (q < r[1] \/ (q = r[1] /\ i <= r[2]))
      BY <1>3, <3>3
    <3>5. /\ best'.part = part /\ best'.quality = q /\ best'.imbalance = i /\ best'.all = all
          /\ DOMAIN best' = {"part", "quality", "imbalance", "all"}
      BY <3>1
    <3> QED BY <2>0, <3>4, <3>5 DEF BestIsOfAll
  <2>2. CASE ~ (q < best.quality \/ (q = best.quality /\ i < best.imbalance))
    <3>1. /\ best'.part = best.part /\ best'.quality = best.quality /\ best'.imbalance = best.imbalance
          /\ best'.all = all /\ DOMAIN best' = {"part", "quality", "imbalance", "all"}
      BY <1>2, <1>4, <2>2
    <3>2. best.all # {}
      BY <1>3, <1>4, <2>2 DEF BestIsOfAll
    <3>3. /\ best.quality = QualityOf(input, best.part) /\ best.imbalance = ImbalanceOf(input, best.part)
          /\ << best.quality, best.imbalance >> \in best.all
          /\ \A r \in best.all : /\ r[1] \in Int /\ r[2] \in Int
                                 /\ best.quality < r[1] \/ (best.quality = r[1] /\ best.imbalance <= r[2])
      BY <1>4, <3>2 DEF BestIsOfAll
    <3>4. best.quality \in Int /\ best.imbalance \in Int
      BY <1>3, <3>3
    <3>5. best.quality < q \/ (best.quality = q /\ best.imbalance <= i)
      BY <1>3, <2>2, <3>4
    <3>6. \A r \in all : /\ r[1] \in Int /\ r[2] \in Int
                         /\ best.quality < r[1] \/ (best.quality = r[1] /\ best.imbalance <= r[2])
      BY <1>3, <3>3, <3>5
    <3> QED BY <3>1, <3>3, <3>6 DEF BestIsOfAll
  <2> QED BY <2>1, <2>2
<1>6. pc' # "decide" /\ (pc' = "done" => part' = best'.part)
  BY DEF Repeat
<1> QED BY <1>1, <1>5, <1>6 DEF DriverInv

\* The lesser of two numbers.
LEMMA LesserOfTwo ==
  ASSUME NEW a \in Int, NEW b \in Int
  PROVE  Min({a, b}) \in {a, b} /\ Min({a, b}) <= a /\ Min({a, b}) <= b
<1> DEFINE S == {a, b}
<1>1. IsFiniteSet(S)
  <2>1. S = {a} \cup {b} /\ IsFiniteSet({a})
    BY FS_Singleton
  <2> QED BY <2>1, FS_AddElement
<1>2. S # {} /\ \A x \in S : x \in Int
  OBVIOUS
<1>3. a \in S /\ b \in S
  OBVIOUS
<1>4. Min(S) \in S /\ \A x \in S : Min(S) <= x
  <2> HIDE DEF S
  <2> QED BY <1>1, <1>2, Extrema
<1> QED BY <1>3, <1>4

\* Offspring never takes the place of the only best individual, unless it is at
\* least as good: the worst of two or more is not the only best one, and the
\* similar ones are no better than the offspring.
LEMMA InsertedKeepsBest ==
  ASSUME input \in Inputs, NEW S, population \in Seq(S), Len(population) = PopulationSize, NEW p, NEW q,
         BestIsKept(input, population, q)
  PROVE  /\ Inserted(p) \in Seq(S \cup {p}) /\ Len(Inserted(p)) = PopulationSize
         /\ BestIsKept(input, Inserted(p), Min({q, QualityOf(input, p)}))
<1> DEFINE n == Len(population)
           F(j) == QualityOf(input, population[j])
           Q == QualityOf(input, p)
           m == Min({q, Q})
           put(k) == [population EXCEPT ![k] = p]
           kept(l) == /\ l \in Seq(S \cup {p}) /\ Len(l) = PopulationSize
                      /\ BestIsKept(input, l, m)
<1>1. n \in Nat /\ n >= 2 /\ population # << >> /\ population \in [1 .. n -> S] /\ Positions = 1 .. n
  BY PopulationSizeAssumption DEF Positions
<1>2. (\A j \in 1 .. n : F(j) \in Int) /\ Q \in Int
  BY NumbersOfInput
<1>3. (\E j \in 1 .. n : F(j) = q) /\ \A j \in 1 .. n : q <= F(j)
  BY <1>1 DEF BestIsKept
<1>4. (\A j \in Positions : Fitness(j) = F(j)) /\ Quality(p) = Q
  BY QualityOfInput DEF Fitness
<1>5. /\ Worst \in 1 .. n /\ \A j \in 1 .. n : F(Worst) >= F(j)
      /\ \A strong : Q <= F(Worst) => MostSimilar(p, strong) \in 1 .. n /\ F(MostSimilar(p, strong)) >= Q
  <2> HIDE DEF F, Q, n
  <2>1. Worst \in Positions /\ \A j \in Positions : Fitness(Worst) >= Fitness(j)
    BY <1>1, IndividualsFound
  <2>2. \A strong : Quality(p) <= Fitness(Worst) =>
          MostSimilar(p, strong) \in Positions /\ Fitness(MostSimilar(p, strong)) >= Quality(p)
    BY <1>1, IndividualsFound
  <2> QED BY <1>1, <1>4, <2>1, <2>2
<1>6. m \in {q, Q} /\ m <= q /\ m <= Q /\ m \in Int /\ q \in Int
  <2>1. q \in Int
    BY <1>2, <1>3
  <2> HIDE DEF Q
  <2> QED BY <1>2, <2>1, LesserOfTwo
<1> HIDE DEF F, Q, n, m
\* p takes the place of an individual that is not the only best one.
<1>7. ASSUME NEW k \in 1 .. n, Q <= F(k) \/ \E j \in 1 .. n : j # k /\ F(j) = q
      PROVE  kept(put(k))
  <2> DEFINE l == put(k)
  <2>1. l \in [1 .. n -> S \cup {p}] /\ \A j \in 1 .. n : l[j] = IF j = k THEN p ELSE population[j]
    BY <1>1
  <2> HIDE DEF l
  <2>2. l \in Seq(S \cup {p}) /\ Len(l) = n /\ l # << >>
    <3>1. l \in Seq(S \cup {p})
      BY <1>1, <2>1, SeqDef
    <3>2. Len(l) = n
      BY <1>1, <2>1, <3>1
    <3> QED BY <1>1, <3>1, <3>2
  <2>3. \A j \in 1 .. n : QualityOf(input, l[j]) = IF j = k THEN Q ELSE F(j)
    BY <2>1 DEF F, Q
  <2>4. \A j \in 1 .. n : m <= QualityOf(input, l[j])
    BY <1>2, <1>3, <1>6, <2>3
  <2>5. \E j \in 1 .. n : QualityOf(input, l[j]) = m
    <3>1. CASE m = Q
      BY <2>3, <3>1
    <3>2. CASE m # Q
      <4>1. m = q /\ q < Q
        BY <1>2, <1>6, <3>2
      <4>2. PICK j \in 1 .. n : j # k /\ F(j) = q
        <5>1. CASE Q <= F(k)
          <6>1. PICK j \in 1 .. n : F(j) = q
            BY <1>3
          <6>2. F(k) # q
            BY <1>2, <1>6, <4>1, <5>1
          <6> QED BY <6>1, <6>2
        <5> QED BY <1>7, <5>1
      <4> QED BY <2>3, <4>1, <4>2
    <3> QED BY <3>1, <3>2
  <2>6. BestIsKept(input, l, m)
    BY <2>2, <2>4, <2>5 DEF BestIsKept
  <2> QED BY <2>2, <2>6 DEF l, n
\* The worst of two is not the only best.
<1>8. \E j \in 1 .. n : j # Worst /\ F(j) = q
  <2>1. PICK j \in 1 .. n : F(j) = q
    BY <1>3
  <2>2. CASE j # Worst
    BY <2>1, <2>2
  <2>3. CASE j = Worst
    <3>1. \A i \in 1 .. n : F(i) = q
      BY <1>2, <1>3, <1>5, <1>6, <2>1, <2>3
    <3>2. \E i \in 1 .. n : i # Worst
      <4>1. 1 \in 1 .. n /\ 2 \in 1 .. n
        BY <1>1
      <4> QED BY <4>1
    <3> QED BY <3>1, <3>2
  <2> QED BY <2>2, <2>3
<1>9. Quality(p) > Fitness(Worst) <=> ~ Q <= F(Worst)
  BY <1>1, <1>2, <1>4, <1>5
<1>10. CASE input.replace = "worst"
  <2>1. Inserted(p) = [population EXCEPT ![Worst] = p]
    BY <1>10 DEF Inserted, Replaced
  <2> HIDE DEF put, kept
  <2>2. kept(put(Worst))
    BY <1>5, <1>7, <1>8
  <2> QED BY <2>1, <2>2 DEF m, Q, put, kept
<1>11. CASE input.replace # "worst" /\ ~ Q <= F(Worst)
  <2>1. Inserted(p) = population
    BY <1>9, <1>11 DEF Inserted
  <2>2. population \in Seq(S \cup {p})
    BY <1>1, SeqDef
  <2>3. m = q
    BY <1>2, <1>3, <1>5, <1>6, <1>11
  <2> QED BY <2>1, <2>2, <2>3 DEF m, Q
<1>12. CASE input.replace # "worst" /\ Q <= F(Worst)
  <2>1. PICK strong \in BOOLEAN : Inserted(p) = [population EXCEPT ![MostSimilar(p, strong)] = p]
    <3>1. Inserted(p) = [population EXCEPT ![Replaced(p)] = p]
      BY <1>9, <1>12 DEF Inserted
    <3>2. \E strong \in BOOLEAN : Replaced(p) = MostSimilar(p, strong)
      BY <1>12, ReplaceAssumption DEF Replaced
    <3> QED BY <3>1, <3>2
  <2>2. MostSimilar(p, strong) \in 1 .. n /\ Q <= F(MostSimilar(p, strong))
    BY <1>2, <1>5, <1>12
  <2> HIDE DEF put, kept
  <2>3. kept(put(MostSimilar(p, strong)))
    BY <1>7, <2>2
  <2> QED BY <2>1, <2>3 DEF m, Q, put, kept
<1> QED BY <1>10, <1>11, <1>12

LEMMA InsertKeeps == DriverInv /\ Insert => DriverInv'
<1> SUFFICES ASSUME DriverInv, Insert PROVE DriverInv'
  OBVIOUS
<1> DEFINE Q == QualityOf(input, part)
<1>1. /\ input' = input /\ input \in Inputs /\ input.evolutionary /\ ~ input.repeated
      /\ pc' = "decide"
  BY InputsAssumption DEF Insert, inputVars, DriverInv
<1>2. best' = [best EXCEPT !.quality = Min({best.quality, Q})]
  BY QualityOfInput DEF Insert
<1>3. best'.quality = Min({best.quality, Q}) /\ DOMAIN best' = {"part", "quality", "imbalance", "all"}
  BY <1>2 DEF DriverInv
<1>4. PICK S : population \in Seq(S)
  BY DEF DriverInv
<1>5. BestIsKept(input, population, best.quality) /\ Len(population) \in Nat /\ Len(population) <= PopulationSize
  BY <1>1, <1>4 DEF DriverInv
<1>6. /\ population' \in Seq(S \cup {part}) /\ Len(population') <= PopulationSize /\ population' # << >>
      /\ BestIsKept(input, population', best'.quality)
  <2>1. CASE Len(population) < PopulationSize
    <3> DEFINE n == Len(population)
               l == Append(population, part)
               F(j) == QualityOf(input, population[j])
               m == Min({best.quality, Q})
    <3>1. population' = l
      BY <2>1 DEF Insert
    <3>2. l \in Seq(S \cup {part}) /\ Len(l) = n + 1 /\ l # << >> /\ n \in Nat
          /\ \A j \in 1 .. n + 1 : l[j] = IF j = n + 1 THEN part ELSE population[j]
      <4>1. population \in Seq(S \cup {part}) /\ part \in S \cup {part}
        BY <1>4, SeqDef
      <4> QED BY <4>1
    <3>3. (\A j \in 1 .. n : F(j) \in Int) /\ Q \in Int /\ Q < MaxQuality /\ MaxQuality \in Int
      BY <1>1, NumbersOfInput, QualityAssumption
    <3>4. \A j \in 1 .. n + 1 : QualityOf(input, l[j]) = IF j = n + 1 THEN Q ELSE F(j)
      BY <3>2
    <3>5. best.quality \in Int
      <4>1. CASE population = << >>
        BY <1>5, <3>3, <4>1 DEF BestIsKept
      <4>2. CASE population # << >>
        BY <1>5, <3>3, <4>2 DEF BestIsKept
      <4> QED BY <4>1, <4>2
    <3>6. m \in {best.quality, Q} /\ m <= best.quality /\ m <= Q
      BY <3>3, <3>5, LesserOfTwo
    <3> HIDE DEF l, m, F, Q
    <3>7. BestIsKept(input, l, m)
      <4>1. CASE population = << >>
        <5>1. best.quality = MaxQuality /\ n = 0
          BY <1>5, <4>1 DEF BestIsKept
        <5>2. m = Q
          BY <3>3, <3>6, <5>1
        <5> HIDE DEF n
        <5>3. Len(l) = 1 /\ QualityOf(input, l[1]) = Q
          BY <3>2, <3>4, <5>1
        <5>4. 1 \in 1 .. Len(l) /\ \A j \in 1 .. Len(l) : j = 1
          BY <5>3
        <5>5. /\ \E j \in 1 .. Len(l) : QualityOf(input, l[j]) = m
              /\ \A j \in 1 .. Len(l) : m <= QualityOf(input, l[j])
          BY <3>3, <5>2, <5>3, <5>4
        <5> QED BY <3>2, <5>5 DEF BestIsKept
      <4>2. CASE population # << >>
        <5>1. (\E j \in 1 .. n : F(j) = best.quality) /\ \A j \in 1 .. n : best.quality <= F(j)
          BY <1>5, <4>2 DEF BestIsKept, F
        <5> HIDE DEF n
        <5>2. \A j \in 1 .. n + 1 : m <= QualityOf(input, l[j])
          BY <3>2, <3>3, <3>4, <3>5, <3>6, <5>1
        <5>3. \E j \in 1 .. n + 1 : QualityOf(input, l[j]) = m
          <6>1. CASE m = Q
            BY <3>2, <3>4, <6>1
          <6>2. CASE m = best.quality
            <7>1. PICK j \in 1 .. n : F(j) = best.quality
              BY <5>1
            <7>2. j \in 1 .. n + 1 /\ j # n + 1
              BY <3>2
            <7> QED BY <3>4, <6>2, <7>1, <7>2
          <6> QED BY <3>6, <6>1, <6>2
        <5> QED BY <3>2, <5>2, <5>3 DEF BestIsKept
      <4> QED BY <4>1, <4>2
    <3>8. best'.quality = m
      BY <1>3 DEF m
    <3> QED BY <1>5, <2>1, <3>1, <3>2, <3>7, <3>8, PopulationSizeAssumption
  <2>2. CASE ~ Len(population) < PopulationSize
    <3>1. Len(population) = PopulationSize
      BY <1>5, <2>2, PopulationSizeAssumption
    <3>2. population' = Inserted(part)
      BY <2>2 DEF Insert
    <3>3. /\ Inserted(part) \in Seq(S \cup {part}) /\ Len(Inserted(part)) = PopulationSize
          /\ BestIsKept(input, Inserted(part), Min({best.quality, Q}))
      BY <1>1, <1>4, <1>5, <3>1, InsertedKeepsBest
    <3>4. Inserted(part) # << >>
      BY <3>3, PopulationSizeAssumption
    <3> QED BY <1>3, <3>2, <3>3, <3>4, PopulationSizeAssumption
  <2> QED BY <2>1, <2>2
<1> QED BY <1>1, <1>3, <1>6 DEF DriverInv

\* A call leaves the population alone.
LEMMA CallKeeps ==
  ASSUME DriverInv, NEW d, NEW parents, NEW start, Call(d, parents, start)
  PROVE  DriverInv'
<1>1. UNCHANGED <<input, best, population>> /\ pc' = "configure"
  BY DEF Call
<1> QED BY <1>1, QuietStepsKeep DEF QuietStep

LEMMA DeliverKeeps == DriverInv /\ Deliver => DriverInv'
<1> SUFFICES ASSUME DriverInv, Deliver PROVE DriverInv'
  OBVIOUS
<1>1. /\ input' = input /\ best' = best /\ population' = population /\ pc = "decide" /\ pc' = "done"
      /\ part' = population[Best]
  BY DEF Deliver, runVars, inputVars
<1>2. input \in Inputs /\ population # << >> /\ input.evolutionary /\ ~ input.repeated
  BY <1>1, InputsAssumption DEF DriverInv
<1>3. PICK S : population \in Seq(S)
  BY DEF DriverInv
<1>4. Best \in Positions /\ \A j \in Positions : Fitness(Best) <= Fitness(j)
  BY <1>2, <1>3, IndividualsFound
<1>5. Positions = 1 .. Len(population)
  BY <1>3 DEF Positions
<1>6. \A j \in Positions : Fitness(j) = QualityOf(input, population[j]) /\ Fitness(j) \in Int
  BY <1>2, QualityOfInput, NumbersOfInput DEF Fitness
<1>7. /\ \E j \in Positions : Fitness(j) = best.quality
      /\ \A j \in Positions : best.quality <= Fitness(j)
  <2>1. BestIsKept(input, population, best.quality)
    BY <1>2 DEF DriverInv
  <2> QED BY <1>2, <1>5, <1>6, <2>1 DEF BestIsKept
<1>8. QualityOf(input, part') = best.quality
  <2>1. Fitness(Best) = best.quality
    BY <1>4, <1>6, <1>7
  <2> QED BY <1>1, <1>4, <1>6, <2>1
<1> QED BY <1>1, <1>2, <1>8 DEF DriverInv

\* Repeated partitioning delivers the best of all its solutions, and evolutionary
\* partitioning the best individual there ever was, although what it inserts may
\* be worse than what it replaces.
THEOREM BestOfAllDelivered == EvoSpec => []BestOfAll
<1>1. DriverInv /\ [EvoNext]_evoVars => DriverInv'
  <2> SUFFICES ASSUME DriverInv, [EvoNext]_evoVars PROVE DriverInv'
    OBVIOUS
  <2>1. CASE Next /\ UNCHANGED population
    <3>1. CASE Repeat
      BY <2>1, <3>1, RepeatKeeps
    <3>2. CASE ~ Repeat
      BY <2>1, <3>2, PipelineIsQuiet, QuietStepsKeep
    <3> QED BY <3>1, <3>2
  <2>2. CASE Insert
    BY <2>2, InsertKeeps
  <2>3. CASE GenerateIndividual
    BY <2>3, CallKeeps DEF GenerateIndividual
  <2>4. CASE UsingTournamentSelection
    BY <2>4, CallKeeps DEF UsingTournamentSelection
  <2>5. CASE EdgeFrequency
    BY <2>5, CallKeeps DEF EdgeFrequency
  <2>6. CASE VCycleWithNewInitialPartitioning
    BY <2>6, CallKeeps DEF VCycleWithNewInitialPartitioning
  <2>7. CASE VCycle
    BY <2>7, CallKeeps DEF VCycle
  <2>8. CASE Deliver
    BY <2>8, DeliverKeeps
  <2>9. CASE UNCHANGED evoVars
    BY <2>9 DEF evoVars, vars, DriverInv
  <2> QED BY <2>1, <2>2, <2>3, <2>4, <2>5, <2>6, <2>7, <2>8, <2>9 DEF EvoNext
<1> QED BY DriverInit, <1>1, DriverInvImplies, PTL DEF EvoSpec

-----------------------------------------------------------------------------
(* Sets of numbers in their order, and folds over sequences.                 *)

\* Ascending lists each member of a set once.
LEMMA AscendingLists ==
  ASSUME NEW S, IsFiniteSet(S), S \subseteq Nat
  PROVE  /\ Cardinality(S) \in Nat
         /\ Ascending(S) \in [1 .. Cardinality(S) -> S]
         /\ \A i, j \in 1 .. Cardinality(S) : i # j => Ascending(S)[i] # Ascending(S)[j]
         /\ \A x \in S : \E i \in 1 .. Cardinality(S) : Ascending(S)[i] = x
<1> DEFINE n == Cardinality(S)
           Upto(x) == {y \in S : y <= x}
           r == [x \in S |-> Cardinality(Upto(x))]
<1>1. n \in Nat
  BY FS_CardinalityType
<1>2. ASSUME NEW x \in S PROVE IsFiniteSet(Upto(x)) /\ r[x] \in 1 .. n
  <2>1. Upto(x) \in SUBSET S /\ x \in Upto(x)
    OBVIOUS
  <2>2. IsFiniteSet(Upto(x)) /\ Cardinality(Upto(x)) <= n
    BY <2>1, FS_Subset
  <2>3. Cardinality(Upto(x)) \in Nat /\ Cardinality(Upto(x)) # 0
    BY <2>1, <2>2, FS_CardinalityType, FS_EmptySet
  <2> HIDE DEF Upto
  <2> QED BY <1>1, <2>2, <2>3
<1>3. ASSUME NEW x \in S, NEW z \in S, x < z PROVE r[x] # r[z]
  <2>1. Upto(x) \in SUBSET Upto(z) /\ z \in Upto(z) /\ z \notin Upto(x)
    <3>1. x \in Nat /\ z \in Nat /\ \A y \in S : y \in Nat
      OBVIOUS
    <3>2. \A y \in S : y <= x => y <= z
      BY <1>3, <3>1
    <3>3. z <= z /\ ~ z <= x
      BY <1>3, <3>1
    <3> QED BY <3>2, <3>3
  <2>2. Cardinality(Upto(x)) # Cardinality(Upto(z))
    BY <1>2, <2>1, FS_Subset
  <2> QED BY <2>2
<1>4. \A x, z \in S : r[x] = r[z] => x = z
  <2> HIDE DEF r
  <2>1. \A x, z \in S : x # z => x < z \/ z < x
    OBVIOUS
  <2> QED BY <1>3, <2>1
<1>5. r \in [S -> 1 .. n]
  BY <1>2
<1>6. \A i \in 1 .. n : \E x \in S : r[x] = i
  <2>1. IsFiniteSet(1 .. n) /\ Cardinality(1 .. n) = n
    BY <1>1, FS_Interval
  <2> HIDE DEF r
  <2>2. r \in Injection(S, 1 .. n)
    BY <1>4, <1>5 DEF Injection, IsInjective
  <2>3. r \in Surjection(S, 1 .. n)
    BY <2>1, <2>2, FS_Injection
  <2> QED BY <2>3 DEF Surjection
<1>7. ASSUME NEW i \in 1 .. n PROVE Ascending(S)[i] \in S /\ r[Ascending(S)[i]] = i
  <2>1. Ascending(S)[i] = CHOOSE x \in S : r[x] = i
    BY Zenon DEF Ascending
  <2> HIDE DEF r
  <2> QED BY <1>6, <2>1
<1>8. Ascending(S) \in [1 .. n -> S]
  BY <1>7 DEF Ascending
<1> HIDE DEF r, n
<1>9. \A i, j \in 1 .. n : i # j => Ascending(S)[i] # Ascending(S)[j]
  BY <1>7
<1>10. ASSUME NEW x \in S PROVE \E i \in 1 .. n : Ascending(S)[i] = x
  BY <1>4, <1>5, <1>7
<1> QED BY <1>1, <1>8, <1>9, <1>10 DEF n

\* The prefixes of 1 .. n, which a fold from the left goes through.
LEMMA CountedPrefixes ==
  ASSUME NEW n \in Nat
  PROVE  /\ 1 .. 0 = {}
         /\ \A i \in 1 .. n : /\ 1 .. i \in SUBSET (1 .. n) /\ 1 .. i # {} /\ Max(1 .. i) = i
                              /\ (1 .. i) \ {i} = 1 .. i - 1 /\ i - 1 \in 0 .. n
<1> SUFFICES ASSUME NEW i \in 1 .. n
             PROVE  /\ 1 .. i \in SUBSET (1 .. n) /\ 1 .. i # {} /\ Max(1 .. i) = i
                    /\ (1 .. i) \ {i} = 1 .. i - 1 /\ i - 1 \in 0 .. n
  <2>1. 1 .. 0 = {}
    OBVIOUS
  <2> QED BY <2>1
<1>1. IsFiniteSet(1 .. i) /\ i \in 1 .. i /\ \A x \in 1 .. i : x \in Int /\ x <= i
  BY FS_Interval
<1>2. Max(1 .. i) \in 1 .. i /\ Max(1 .. i) >= i
  BY <1>1, Extrema
<1>3. Max(1 .. i) = i
  BY <1>2
<1> QED BY <1>3

\* g maps each set of positions to the fold over the entries at these positions.
IsFoldLeft(g, n, X, base, op) ==
  /\ g \in [SUBSET (1 .. n) -> X]
  /\ g[{}] = base
  /\ \A s \in SUBSET (1 .. n) : s # {} =>
       /\ Max(s) \in 1 .. n /\ s \ {Max(s)} \in SUBSET (1 .. n)
       /\ g[s] = op[<<g[s \ {Max(s)}], Max(s)>>]

\* The recursion that defines a fold from the left has a solution.
LEMMA FoldSolved ==
  ASSUME NEW n \in Nat, NEW X, NEW base \in X, NEW op \in [X \X (1 .. n) -> X]
  PROVE  \E g : IsFoldLeft(g, n, X, base, op)
<1> DEFINE S == 1 .. n
           pick == [s \in SUBSET S |-> Max(s)]
           swapped == [x \in S \X X |-> op[<<x[2], x[1]>>]]
<1>1. IsFiniteSet(S) /\ S \subseteq Int
  BY FS_Interval
<1>2. \A s \in SUBSET S : s # {} => Max(s) \in s
  <2> SUFFICES ASSUME NEW s \in SUBSET S, s # {} PROVE Max(s) \in s
    OBVIOUS
  <2>1. IsFiniteSet(s) /\ \A x \in s : x \in Int
    BY <1>1, FS_Subset
  <2> QED BY <2>1, Extrema
<1>3. Picks(pick, S)
  BY <1>2 DEF Picks
<1> HIDE DEF S
<1>4. swapped \in [S \X X -> X]
  BY DEF S
<1>5. PICK g \in [SUBSET S -> X] : IsFold(g, S, base, swapped, pick)
  <2> HIDE DEF swapped, pick
  <2> QED BY <1>1, <1>3, <1>4, FoldExists
<1>6. g[{}] = base
  BY <1>5 DEF IsFold
<1>7. ASSUME NEW s \in SUBSET S, s # {}
      PROVE  Max(s) \in S /\ s \ {Max(s)} \in SUBSET S /\ g[s] = op[<<g[s \ {Max(s)}], Max(s)>>]
  <2>1. Max(s) \in S /\ s \ {Max(s)} \in SUBSET S
    BY <1>2, <1>7
  <2>2. g[s] = swapped[<<Max(s), g[s \ {Max(s)}]>>]
    BY <1>5, <1>7 DEF IsFold
  <2>3. g[s \ {Max(s)}] \in X
    BY <1>5, <2>1
  <2> QED BY <2>1, <2>2, <2>3
<1> QED BY <1>5, <1>6, <1>7 DEF IsFoldLeft, S
-----------------------------------------------------------------------------
(* The structure of Incidence, of which the proofs about it are used here.   *)

IP == INSTANCE IncidenceProofs WITH InitPins <- [e \in Hyperedge |-> {}], InitNumPins <- 0,
                                    InitWeight <- [v \in Hypernode |-> 0]

\* The operators of the library modules that an instance brings its own copies of.
LEMMA SameLibrary ==
  /\ \A S : IP!IsFiniteSet(S) <=> IsFiniteSet(S)
  /\ \A S : IP!Cardinality(S) = Cardinality(S) /\ I!Cardinality(S) = Cardinality(S)
  /\ \A q : IP!Last(q) = Last(q) /\ I!Last(q) = Last(q)
  /\ \A q : IP!Front(q) = Front(q) /\ I!Front(q) = Front(q)
<1>1. \A S : (IP!IsFiniteSet(S) <=> IsFiniteSet(S)) /\ (I!IsFiniteSet(S) <=> IsFiniteSet(S))
  BY DEF IP!IsFiniteSet, I!IsFiniteSet, IsFiniteSet
<1>2. \A S : IP!Cardinality(S) = Cardinality(S)
  BY <1>1 DEF IP!Cardinality, Cardinality
<1>3. \A S : I!Cardinality(S) = Cardinality(S)
  BY <1>1 DEF I!Cardinality, Cardinality
<1>4. \A q : IP!Last(q) = Last(q) /\ IP!Front(q) = Front(q)
  BY DEF IP!Last, IP!Front, Last, Front
<1>5. \A q : I!Last(q) = Last(q) /\ I!Front(q) = Front(q)
  BY DEF I!Last, I!Front, Last, Front
<1> QED BY <1>1, <1>2, <1>3, <1>4, <1>5

\* The constants satisfy the assumptions of Incidence.
LEMMA IncidenceConstants ==
  /\ IP!IsFiniteSet(Hypernode) /\ IP!IsFiniteSet(Hyperedge)
  /\ [e \in Hyperedge |-> {}] \in [Hyperedge -> SUBSET Hypernode]
  /\ 0 \in Nat
  /\ [v \in Hypernode |-> 0] \in [Hypernode -> Nat]
BY InputsAssumption, SameLibrary

\* The operations on structures are the same in both instances of Incidence.
LEMMA SameOperations ==
  /\ \A s, u, v : I!Contracted(s, u, v) = IP!Contracted(s, u, v)
  /\ \A s, u, v : I!Uncontracted(s, u, v) = IP!Uncontracted(s, u, v)
<1>1. \A s, u, v : I!SharedNets(s, u, v) = IP!SharedNets(s, u, v)
  BY DEF I!SharedNets, IP!SharedNets
<1>2. \A s, u, v : I!Contracted(s, u, v) = IP!Contracted(s, u, v)
  <2> SUFFICES ASSUME NEW s, NEW u, NEW v PROVE I!Contracted(s, u, v) = IP!Contracted(s, u, v)
    OBVIOUS
  <2>1. I!SharedNets(s, u, v) = IP!SharedNets(s, u, v)
    BY <1>1
  <2>2. I!Cardinality(IP!SharedNets(s, u, v)) = IP!Cardinality(IP!SharedNets(s, u, v))
    BY SameLibrary
  <2> QED BY <2>1, <2>2, Zenon DEF I!Contracted, IP!Contracted
<1>3. \A s, u, v : I!CutOffNets(s, u, v) = IP!CutOffNets(s, u, v)
  BY SameLibrary DEF I!CutOffNets, IP!CutOffNets
<1>4. \A s, u, v : I!ReusedNets(s, u, v) = IP!ReusedNets(s, u, v)
  BY <1>3 DEF I!ReusedNets, IP!ReusedNets
<1>5. \A s, u, v : I!Uncontracted(s, u, v) = IP!Uncontracted(s, u, v)
  <2> SUFFICES ASSUME NEW s, NEW u, NEW v PROVE I!Uncontracted(s, u, v) = IP!Uncontracted(s, u, v)
    OBVIOUS
  <2> QED BY <1>3, <1>4, SameLibrary, Zenon DEF I!Uncontracted, IP!Uncontracted
<1> QED BY <1>2, <1>5

\* Every operation leads from structures to structures.
LEMMA StructuresClosed ==
  ASSUME NEW s \in IP!Structure
  PROVE  /\ \A u, v \in Hypernode : /\ I!Contracted(s, u, v) \in IP!Structure
                                    /\ I!Uncontracted(s, u, v) \in IP!Structure
         /\ \A e \in Hyperedge : I!Removed(s, e) \in IP!Structure /\ I!Restored(s, e) \in IP!Structure
<1>1. /\ s.nodes \in SUBSET Hypernode /\ s.edges \in SUBSET Hyperedge
      /\ s.pins \in [Hyperedge -> SUBSET Hypernode] /\ s.cutOff \in [Hyperedge -> Seq(Hypernode)]
      /\ s.nets \in [Hypernode -> SUBSET Hyperedge] /\ s.weight \in [Hypernode -> Int] /\ s.numPins \in Int
  BY DEF IP!Structure
<1>2. \A T : T \in SUBSET Hyperedge \/ T \in SUBSET Hypernode => I!Cardinality(T) \in Nat
  BY InputsAssumption, SameLibrary, FS_Subset, FS_CardinalityType
<1>3. ASSUME NEW u \in Hypernode, NEW v \in Hypernode PROVE I!Contracted(s, u, v) \in IP!Structure
  <2> DEFINE shared == I!SharedNets(s, u, v)
             pins == [e \in Hyperedge |-> IF e \in s.nets[v] THEN (s.pins[e] \ {v}) \cup {u} ELSE s.pins[e]]
             cutOff == [e \in Hyperedge |-> IF e \in shared THEN Append(s.cutOff[e], v) ELSE s.cutOff[e]]
             nets == [s.nets EXCEPT ![u] = @ \cup s.nets[v]]
             weight == [s.weight EXCEPT ![u] = @ + s.weight[v]]
             numPins == s.numPins - I!Cardinality(shared)
  <2>1. shared \in SUBSET Hyperedge
    BY <1>1 DEF I!SharedNets
  <2>2. numPins \in Int
    BY <1>1, <1>2, <2>1
  <2>3. cutOff \in [Hyperedge -> Seq(Hypernode)]
    <3> HIDE DEF shared
    <3> QED BY <1>1
  <2>4. pins \in [Hyperedge -> SUBSET Hypernode]
    BY <1>1
  <2>5. nets \in [Hypernode -> SUBSET Hyperedge] /\ weight \in [Hypernode -> Int]
    BY <1>1
  <2>6. I!Contracted(s, u, v) = [nodes |-> s.nodes \ {v}, edges |-> s.edges, pins |-> pins, cutOff |-> cutOff,
                                 nets |-> nets, weight |-> weight, numPins |-> numPins]
    BY Zenon DEF I!Contracted
  <2> HIDE DEF pins, cutOff, nets, weight, numPins
  <2> QED BY <1>1, <2>2, <2>3, <2>4, <2>5, <2>6 DEF IP!Structure
<1>4. ASSUME NEW u \in Hypernode, NEW v \in Hypernode PROVE I!Uncontracted(s, u, v) \in IP!Structure
  <2> DEFINE cut == I!CutOffNets(s, u, v)
             reused == I!ReusedNets(s, u, v)
             pins == [e \in Hyperedge |-> IF e \in cut THEN s.pins[e] \cup {v}
                                     ELSE IF e \in reused THEN (s.pins[e] \ {u}) \cup {v}
                                     ELSE s.pins[e]]
             cutOff == [e \in Hyperedge |-> IF e \in cut THEN I!Front(s.cutOff[e]) ELSE s.cutOff[e]]
             nets == [s.nets EXCEPT ![u] = @ \ reused]
             weight == [s.weight EXCEPT ![u] = @ - s.weight[v]]
             numPins == s.numPins + I!Cardinality(cut)
  <2>1. cut \in SUBSET Hyperedge /\ \A e \in cut : s.cutOff[e] # << >>
    BY <1>1 DEF I!CutOffNets
  <2>2. numPins \in Int
    BY <1>1, <1>2, <2>1
  <2>3. cutOff \in [Hyperedge -> Seq(Hypernode)]
    <3>1. \A e \in cut : I!Front(s.cutOff[e]) \in Seq(Hypernode)
      <4> SUFFICES ASSUME NEW e \in cut PROVE I!Front(s.cutOff[e]) \in Seq(Hypernode)
        OBVIOUS
      <4>1. s.cutOff[e] \in Seq(Hypernode) /\ s.cutOff[e] # << >>
        BY <1>1, <2>1
      <4>2. IP!Front(s.cutOff[e]) \in Seq(Hypernode)
        BY <4>1, IncidenceConstants, IP!PopBelow
      <4> QED BY <4>2, SameLibrary
    <3> HIDE DEF cut
    <3> QED BY <1>1, <3>1
  <2> HIDE DEF cut, reused
  <2>4. pins \in [Hyperedge -> SUBSET Hypernode]
    BY <1>1
  <2>5. nets \in [Hypernode -> SUBSET Hyperedge] /\ weight \in [Hypernode -> Int]
    BY <1>1
  <2>6. I!Uncontracted(s, u, v) = [nodes |-> s.nodes \cup {v}, edges |-> s.edges, pins |-> pins,
                                   cutOff |-> cutOff, nets |-> nets, weight |-> weight, numPins |-> numPins]
    BY Zenon DEF I!Uncontracted, cut, reused
  <2> HIDE DEF pins, cutOff, nets, weight, numPins
  <2> QED BY <1>1, <2>2, <2>3, <2>4, <2>5, <2>6 DEF IP!Structure
<1>5. ASSUME NEW e \in Hyperedge PROVE I!Removed(s, e) \in IP!Structure /\ I!Restored(s, e) \in IP!Structure
  <2>1. I!Cardinality(s.pins[e]) \in Nat
    BY <1>1, <1>2
  <2> QED BY <1>1, <2>1 DEF I!Removed, I!Restored, IP!Structure
<1> QED BY <1>3, <1>4, <1>5
\* Contracting pairs of hypernodes one after the other.
LEMMA ContractAllTrace ==
  ASSUME NEW n \in Nat, NEW q \in [1 .. n -> Hypernode \X Hypernode], NEW s0 \in IP!Structure,
         \A t \in IP!Structure, i \in 1 .. n : I!Contracted(t, q[i][1], q[i][2]) \in IP!Structure
  PROVE  \E T : /\ T[0] = s0 /\ T[n] = ContractAll(s0, q)
               /\ \A i \in 1 .. n : T[i] = I!Contracted(T[i - 1], q[i][1], q[i][2])
<1> DEFINE S == 1 .. n
           Step(t, i) == I!Contracted(t, q[i][1], q[i][2])
           op == [x \in IP!Structure \X S |-> Step(x[1], x[2])]
           Solves(k) == k = [s \in SUBSET S |-> IF s = {} THEN s0 ELSE Step(k[s \ {Max(s)}], Max(s))]
           h == CHOOSE k : Solves(k)
           T == [i \in 0 .. n |-> h[1 .. i]]
<1>1. ContractAll(s0, q) = h[S]
  BY DOMAIN q = S DEF ContractAll, FoldLeft, MapThenFoldSet
<1> HIDE DEF Step, S
<1>2. op \in [IP!Structure \X S -> IP!Structure]
  BY DEF Step, S
<1>3. PICK g : IsFoldLeft(g, n, IP!Structure, s0, op)
  <2> HIDE DEF op
  <2> QED BY <1>2, FoldSolved DEF S
<1>4. /\ g \in [SUBSET S -> IP!Structure] /\ g[{}] = s0
      /\ \A s \in SUBSET S : s # {} => g[s] = Step(g[s \ {Max(s)}], Max(s))
  BY <1>3 DEF IsFoldLeft, S
<1>5. Solves(h)
  <2>1. Solves(g)
    BY <1>4
  <2> HIDE DEF Solves
  <2> QED BY <2>1
<1> HIDE DEF h
<1>6. h[{}] = s0 /\ \A s \in SUBSET S : s # {} => h[s] = Step(h[s \ {Max(s)}], Max(s))
  BY <1>5
<1>7. T[0] = s0 /\ T[n] = ContractAll(s0, q)
  BY <1>1, <1>6, CountedPrefixes DEF S
<1>8. ASSUME NEW i \in 1 .. n PROVE T[i] = Step(T[i - 1], i)
  <2>1. h[1 .. i] = Step(h[1 .. i - 1], i)
    <3>1. 1 .. i \in SUBSET S /\ 1 .. i # {} /\ Max(1 .. i) = i /\ (1 .. i) \ {i} = 1 .. i - 1
      BY CountedPrefixes DEF S
    <3> QED BY <1>6, <3>1
  <2>2. T[i] = h[1 .. i] /\ T[i - 1] = h[1 .. i - 1]
    BY CountedPrefixes
  <2> QED BY <2>1, <2>2
<1> HIDE DEF T
<1> QED BY <1>7, <1>8 DEF Step

\* Undoing contractions.
LEMMA UncontractAllTrace ==
  ASSUME NEW n \in Nat, NEW q \in [1 .. n -> Hypernode \X Hypernode], NEW s0 \in IP!Structure,
         \A t \in IP!Structure, i \in 1 .. n : I!Uncontracted(t, q[i][1], q[i][2]) \in IP!Structure
  PROVE  \E T : /\ T[0] = s0 /\ T[n] = UncontractAll(s0, q)
               /\ \A i \in 1 .. n : T[i] = I!Uncontracted(T[i - 1], q[i][1], q[i][2])
<1> DEFINE S == 1 .. n
           Step(t, i) == I!Uncontracted(t, q[i][1], q[i][2])
           op == [x \in IP!Structure \X S |-> Step(x[1], x[2])]
           Solves(k) == k = [s \in SUBSET S |-> IF s = {} THEN s0 ELSE Step(k[s \ {Max(s)}], Max(s))]
           h == CHOOSE k : Solves(k)
           T == [i \in 0 .. n |-> h[1 .. i]]
<1>1. UncontractAll(s0, q) = h[S]
  BY DOMAIN q = S DEF UncontractAll, FoldLeft, MapThenFoldSet
<1> HIDE DEF Step, S
<1>2. op \in [IP!Structure \X S -> IP!Structure]
  BY DEF Step, S
<1>3. PICK g : IsFoldLeft(g, n, IP!Structure, s0, op)
  <2> HIDE DEF op
  <2> QED BY <1>2, FoldSolved DEF S
<1>4. /\ g \in [SUBSET S -> IP!Structure] /\ g[{}] = s0
      /\ \A s \in SUBSET S : s # {} => g[s] = Step(g[s \ {Max(s)}], Max(s))
  BY <1>3 DEF IsFoldLeft, S
<1>5. Solves(h)
  <2>1. Solves(g)
    BY <1>4
  <2> HIDE DEF Solves
  <2> QED BY <2>1
<1> HIDE DEF h
<1>6. h[{}] = s0 /\ \A s \in SUBSET S : s # {} => h[s] = Step(h[s \ {Max(s)}], Max(s))
  BY <1>5
<1>7. T[0] = s0 /\ T[n] = UncontractAll(s0, q)
  BY <1>1, <1>6, CountedPrefixes DEF S
<1>8. ASSUME NEW i \in 1 .. n PROVE T[i] = Step(T[i - 1], i)
  <2>1. h[1 .. i] = Step(h[1 .. i - 1], i)
    <3>1. 1 .. i \in SUBSET S /\ 1 .. i # {} /\ Max(1 .. i) = i /\ (1 .. i) \ {i} = 1 .. i - 1
      BY CountedPrefixes DEF S
    <3> QED BY <1>6, <3>1
  <2>2. T[i] = h[1 .. i] /\ T[i - 1] = h[1 .. i - 1]
    BY CountedPrefixes
  <2> QED BY <2>1, <2>2
<1> HIDE DEF T
<1> QED BY <1>7, <1>8 DEF Step

\* Removing nets.
LEMMA RemoveAllTrace ==
  ASSUME NEW n \in Nat, NEW q \in [1 .. n -> Hyperedge], NEW s0 \in IP!Structure,
         \A t \in IP!Structure, i \in 1 .. n : I!Removed(t, q[i]) \in IP!Structure
  PROVE  \E T : /\ T[0] = s0 /\ T[n] = RemoveAll(s0, q)
               /\ \A i \in 1 .. n : T[i] = I!Removed(T[i - 1], q[i])
<1> DEFINE S == 1 .. n
           Step(t, i) == I!Removed(t, q[i])
           op == [x \in IP!Structure \X S |-> Step(x[1], x[2])]
           Solves(k) == k = [s \in SUBSET S |-> IF s = {} THEN s0 ELSE Step(k[s \ {Max(s)}], Max(s))]
           h == CHOOSE k : Solves(k)
           T == [i \in 0 .. n |-> h[1 .. i]]
<1>1. RemoveAll(s0, q) = h[S]
  BY DOMAIN q = S DEF RemoveAll, FoldLeft, MapThenFoldSet
<1> HIDE DEF Step, S
<1>2. op \in [IP!Structure \X S -> IP!Structure]
  BY DEF Step, S
<1>3. PICK g : IsFoldLeft(g, n, IP!Structure, s0, op)
  <2> HIDE DEF op
  <2> QED BY <1>2, FoldSolved DEF S
<1>4. /\ g \in [SUBSET S -> IP!Structure] /\ g[{}] = s0
      /\ \A s \in SUBSET S : s # {} => g[s] = Step(g[s \ {Max(s)}], Max(s))
  BY <1>3 DEF IsFoldLeft, S
<1>5. Solves(h)
  <2>1. Solves(g)
    BY <1>4
  <2> HIDE DEF Solves
  <2> QED BY <2>1
<1> HIDE DEF h
<1>6. h[{}] = s0 /\ \A s \in SUBSET S : s # {} => h[s] = Step(h[s \ {Max(s)}], Max(s))
  BY <1>5
<1>7. T[0] = s0 /\ T[n] = RemoveAll(s0, q)
  BY <1>1, <1>6, CountedPrefixes DEF S
<1>8. ASSUME NEW i \in 1 .. n PROVE T[i] = Step(T[i - 1], i)
  <2>1. h[1 .. i] = Step(h[1 .. i - 1], i)
    <3>1. 1 .. i \in SUBSET S /\ 1 .. i # {} /\ Max(1 .. i) = i /\ (1 .. i) \ {i} = 1 .. i - 1
      BY CountedPrefixes DEF S
    <3> QED BY <1>6, <3>1
  <2>2. T[i] = h[1 .. i] /\ T[i - 1] = h[1 .. i - 1]
    BY CountedPrefixes
  <2> QED BY <2>1, <2>2
<1> HIDE DEF T
<1> QED BY <1>7, <1>8 DEF Step

\* Restoring nets.
LEMMA RestoreAllTrace ==
  ASSUME NEW n \in Nat, NEW q \in [1 .. n -> Hyperedge], NEW s0 \in IP!Structure,
         \A t \in IP!Structure, i \in 1 .. n : I!Restored(t, q[i]) \in IP!Structure
  PROVE  \E T : /\ T[0] = s0 /\ T[n] = RestoreAll(s0, q)
               /\ \A i \in 1 .. n : T[i] = I!Restored(T[i - 1], q[i])
<1> DEFINE S == 1 .. n
           Step(t, i) == I!Restored(t, q[i])
           op == [x \in IP!Structure \X S |-> Step(x[1], x[2])]
           Solves(k) == k = [s \in SUBSET S |-> IF s = {} THEN s0 ELSE Step(k[s \ {Max(s)}], Max(s))]
           h == CHOOSE k : Solves(k)
           T == [i \in 0 .. n |-> h[1 .. i]]
<1>1. RestoreAll(s0, q) = h[S]
  BY DOMAIN q = S DEF RestoreAll, FoldLeft, MapThenFoldSet
<1> HIDE DEF Step, S
<1>2. op \in [IP!Structure \X S -> IP!Structure]
  BY DEF Step, S
<1>3. PICK g : IsFoldLeft(g, n, IP!Structure, s0, op)
  <2> HIDE DEF op
  <2> QED BY <1>2, FoldSolved DEF S
<1>4. /\ g \in [SUBSET S -> IP!Structure] /\ g[{}] = s0
      /\ \A s \in SUBSET S : s # {} => g[s] = Step(g[s \ {Max(s)}], Max(s))
  BY <1>3 DEF IsFoldLeft, S
<1>5. Solves(h)
  <2>1. Solves(g)
    BY <1>4
  <2> HIDE DEF Solves
  <2> QED BY <2>1
<1> HIDE DEF h
<1>6. h[{}] = s0 /\ \A s \in SUBSET S : s # {} => h[s] = Step(h[s \ {Max(s)}], Max(s))
  BY <1>5
<1>7. T[0] = s0 /\ T[n] = RestoreAll(s0, q)
  BY <1>1, <1>6, CountedPrefixes DEF S
<1>8. ASSUME NEW i \in 1 .. n PROVE T[i] = Step(T[i - 1], i)
  <2>1. h[1 .. i] = Step(h[1 .. i - 1], i)
    <3>1. 1 .. i \in SUBSET S /\ 1 .. i # {} /\ Max(1 .. i) = i /\ (1 .. i) \ {i} = 1 .. i - 1
      BY CountedPrefixes DEF S
    <3> QED BY <1>6, <3>1
  <2>2. T[i] = h[1 .. i] /\ T[i - 1] = h[1 .. i - 1]
    BY CountedPrefixes
  <2> QED BY <2>1, <2>2
<1> HIDE DEF T
<1> QED BY <1>7, <1>8 DEF Step

\* The weights of nets, and one step of each.
Weights == [Hyperedge -> Int]
MergedPair(w, p) == [w EXCEPT ![p[1]] = @ + w[p[2]]]
SplitPair(w, p) == [w EXCEPT ![p[1]] = @ - w[p[2]]]

\* Merging weights.
LEMMA MergeWeightsTrace ==
  ASSUME NEW n \in Nat, NEW q \in [1 .. n -> Hyperedge \X Hyperedge], NEW w0 \in Weights,
         \A t \in Weights, i \in 1 .. n : MergedPair(t, q[i]) \in Weights
  PROVE  \E T : /\ T[0] = w0 /\ T[n] = MergeWeights(w0, q)
               /\ \A i \in 1 .. n : T[i] = MergedPair(T[i - 1], q[i])
<1> DEFINE S == 1 .. n
           Step(t, i) == MergedPair(t, q[i])
           op == [x \in Weights \X S |-> Step(x[1], x[2])]
           Solves(k) == k = [s \in SUBSET S |-> IF s = {} THEN w0 ELSE Step(k[s \ {Max(s)}], Max(s))]
           h == CHOOSE k : Solves(k)
           T == [i \in 0 .. n |-> h[1 .. i]]
<1>1. MergeWeights(w0, q) = h[S]
  BY DOMAIN q = S DEF MergeWeights, MergedPair, FoldLeft, MapThenFoldSet
<1> HIDE DEF Step, S
<1>2. op \in [Weights \X S -> Weights]
  BY DEF Step, S
<1>3. PICK g : IsFoldLeft(g, n, Weights, w0, op)
  <2> HIDE DEF op
  <2> QED BY <1>2, FoldSolved DEF S
<1>4. /\ g \in [SUBSET S -> Weights] /\ g[{}] = w0
      /\ \A s \in SUBSET S : s # {} => g[s] = Step(g[s \ {Max(s)}], Max(s))
  BY <1>3 DEF IsFoldLeft, S
<1>5. Solves(h)
  <2>1. Solves(g)
    BY <1>4
  <2> HIDE DEF Solves
  <2> QED BY <2>1
<1> HIDE DEF h
<1>6. h[{}] = w0 /\ \A s \in SUBSET S : s # {} => h[s] = Step(h[s \ {Max(s)}], Max(s))
  BY <1>5
<1>7. T[0] = w0 /\ T[n] = MergeWeights(w0, q)
  BY <1>1, <1>6, CountedPrefixes DEF S
<1>8. ASSUME NEW i \in 1 .. n PROVE T[i] = Step(T[i - 1], i)
  <2>1. h[1 .. i] = Step(h[1 .. i - 1], i)
    <3>1. 1 .. i \in SUBSET S /\ 1 .. i # {} /\ Max(1 .. i) = i /\ (1 .. i) \ {i} = 1 .. i - 1
      BY CountedPrefixes DEF S
    <3> QED BY <1>6, <3>1
  <2>2. T[i] = h[1 .. i] /\ T[i - 1] = h[1 .. i - 1]
    BY CountedPrefixes
  <2> QED BY <2>1, <2>2
<1> HIDE DEF T
<1> QED BY <1>7, <1>8 DEF Step

\* Splitting them again.
LEMMA SplitWeightsTrace ==
  ASSUME NEW n \in Nat, NEW q \in [1 .. n -> Hyperedge \X Hyperedge], NEW w0 \in Weights,
         \A t \in Weights, i \in 1 .. n : SplitPair(t, q[i]) \in Weights
  PROVE  \E T : /\ T[0] = w0 /\ T[n] = SplitWeights(w0, q)
               /\ \A i \in 1 .. n : T[i] = SplitPair(T[i - 1], q[i])
<1> DEFINE S == 1 .. n
           Step(t, i) == SplitPair(t, q[i])
           op == [x \in Weights \X S |-> Step(x[1], x[2])]
           Solves(k) == k = [s \in SUBSET S |-> IF s = {} THEN w0 ELSE Step(k[s \ {Max(s)}], Max(s))]
           h == CHOOSE k : Solves(k)
           T == [i \in 0 .. n |-> h[1 .. i]]
<1>1. SplitWeights(w0, q) = h[S]
  BY DOMAIN q = S DEF SplitWeights, SplitPair, FoldLeft, MapThenFoldSet
<1> HIDE DEF Step, S
<1>2. op \in [Weights \X S -> Weights]
  BY DEF Step, S
<1>3. PICK g : IsFoldLeft(g, n, Weights, w0, op)
  <2> HIDE DEF op
  <2> QED BY <1>2, FoldSolved DEF S
<1>4. /\ g \in [SUBSET S -> Weights] /\ g[{}] = w0
      /\ \A s \in SUBSET S : s # {} => g[s] = Step(g[s \ {Max(s)}], Max(s))
  BY <1>3 DEF IsFoldLeft, S
<1>5. Solves(h)
  <2>1. Solves(g)
    BY <1>4
  <2> HIDE DEF Solves
  <2> QED BY <2>1
<1> HIDE DEF h
<1>6. h[{}] = w0 /\ \A s \in SUBSET S : s # {} => h[s] = Step(h[s \ {Max(s)}], Max(s))
  BY <1>5
<1>7. T[0] = w0 /\ T[n] = SplitWeights(w0, q)
  BY <1>1, <1>6, CountedPrefixes DEF S
<1>8. ASSUME NEW i \in 1 .. n PROVE T[i] = Step(T[i - 1], i)
  <2>1. h[1 .. i] = Step(h[1 .. i - 1], i)
    <3>1. 1 .. i \in SUBSET S /\ 1 .. i # {} /\ Max(1 .. i) = i /\ (1 .. i) \ {i} = 1 .. i - 1
      BY CountedPrefixes DEF S
    <3> QED BY <1>6, <3>1
  <2>2. T[i] = h[1 .. i] /\ T[i - 1] = h[1 .. i - 1]
    BY CountedPrefixes
  <2> QED BY <2>1, <2>2
<1> HIDE DEF T
<1> QED BY <1>7, <1>8 DEF Step
-----------------------------------------------------------------------------
(* What is done in an order is undone in the reverse one.                     *)

\* A sequence and its reverse.
LEMMA Reversed ==
  ASSUME NEW n \in Nat, NEW X, NEW q \in [1 .. n -> X]
  PROVE  /\ Len(q) = n /\ Reverse(q) \in [1 .. n -> X]
         /\ \A i \in 1 .. n : Reverse(q)[i] = q[(n - i) + 1] /\ (n - i) + 1 \in 1 .. n
<1>1. Len(q) = n
  BY q \in Seq(X), LenProperties
<1>2. \A i \in 1 .. n : (n - i) + 1 \in 1 .. n
  OBVIOUS
<1> QED BY <1>1, <1>2 DEF Reverse

\* Pairs of different hypernodes, none of which is contracted before its turn.
Contractible(s, n, q) ==
  /\ q \in [1 .. n -> Hypernode \X Hypernode]
  /\ \A i \in 1 .. n : /\ q[i][1] \in s.nodes /\ q[i][2] \in s.nodes
                       /\ \A j \in 1 .. n : q[j][2] # q[i][1]
                       /\ \A j \in 1 .. n : i # j => q[j][2] # q[i][2]

\* Contractions, one after the other, lead from well-formed structures to
\* well-formed ones, with the same nets, and each of them can be undone.
LEMMA ContractionsUndone ==
  ASSUME NEW s, IP!WellFormed(s), NEW n \in Nat, NEW q, Contractible(s, n, q)
  PROVE  /\ IP!WellFormed(ContractAll(s, q))
         /\ ContractAll(s, q).edges = s.edges
         /\ UncontractAll(ContractAll(s, q), Reverse(q)) = s
<1> DEFINE C(t, i) == I!Contracted(t, q[i][1], q[i][2])
           U(t, i) == I!Uncontracted(t, q[i][1], q[i][2])
           Gone(i) == {q[j][2] : j \in 1 .. i}
<1>1. /\ q \in [1 .. n -> Hypernode \X Hypernode]
      /\ \A i \in 1 .. n : q[i][1] \in Hypernode /\ q[i][2] \in Hypernode
  BY DEF Contractible
<1>2. s \in IP!Structure
  BY DEF IP!WellFormed
<1>3. PICK T : T[0] = s /\ T[n] = ContractAll(s, q) /\ \A i \in 1 .. n : T[i] = C(T[i - 1], i)
  <2>1. \A t \in IP!Structure, i \in 1 .. n : C(t, i) \in IP!Structure
    BY <1>1, StructuresClosed
  <2> QED BY <1>1, <1>2, <2>1, ContractAllTrace
<1> DEFINE Good == {i \in 0 .. n : /\ IP!WellFormed(T[i]) /\ T[i].edges = s.edges
                                   /\ T[i].nodes = s.nodes \ Gone(i)
                                   /\ i > 0 => U(T[i], i) = T[i - 1]}
<1>4. 0 \in Good
  BY <1>3
<1>5. ASSUME NEW i \in 1 .. n, i - 1 \in Good PROVE i \in Good
  <2> DEFINE t == T[i - 1]
             u == q[i][1]
             v == q[i][2]
  <2>1. IP!WellFormed(t) /\ t.edges = s.edges /\ t.nodes = s.nodes \ Gone(i - 1)
    BY <1>5
  <2>2. u \in t.nodes /\ v \in t.nodes /\ u # v
    <3>1. \A j \in 1 .. i - 1 : j \in 1 .. n /\ j # i
      OBVIOUS
    <3> QED BY <2>1, <3>1 DEF Contractible
  <2>3. T[i] = IP!Contracted(t, u, v)
    BY <1>3, SameOperations
  <2> HIDE DEF t, u, v
  <2>4. IP!WellFormed(T[i])
    BY <2>1, <2>2, <2>3, IncidenceConstants, IP!ContractedWellFormed
  <2>5. IP!Uncontracted(T[i], u, v) = t
    BY <2>1, <2>2, <2>3, IncidenceConstants, IP!UncontractUndoesContract
  <2>6. T[i].edges = t.edges /\ T[i].nodes = t.nodes \ {v}
    BY <2>3 DEF IP!Contracted
  <2>7. Gone(i) = Gone(i - 1) \cup {v}
    <3>1. 1 .. i = (1 .. i - 1) \cup {i}
      OBVIOUS
    <3> QED BY <3>1 DEF v
  <2>8. U(T[i], i) = t
    BY <2>5, SameOperations DEF u, v
  <2> HIDE DEF Gone
  <2>9. T[i].nodes = s.nodes \ Gone(i)
    BY <2>1, <2>6, <2>7
  <2> QED BY <2>1, <2>4, <2>6, <2>8, <2>9 DEF t
<1>6. \A i \in 0 .. n : i \in Good
  <2> SUFFICES ASSUME NEW m \in 0 .. n PROVE m \in Good
    OBVIOUS
  <2>1. m \in Nat /\ \A i \in 1 .. m : i - 1 \in Good => i \in Good
    BY <1>5
  <2> HIDE DEF Good
  <2> QED BY <1>4, <2>1, CountInduction
<1>7. \A i \in 0 .. n : IP!WellFormed(T[i]) /\ T[i].edges = s.edges
  BY <1>6
<1>8. \A i \in 1 .. n : U(T[i], i) = T[i - 1]
  BY <1>6
<1> HIDE DEF Good
<1>9. UncontractAll(T[n], Reverse(q)) = s
  <2> DEFINE r == Reverse(q)
             D(t, i) == I!Uncontracted(t, r[i][1], r[i][2])
  <2>1. /\ r \in [1 .. n -> Hypernode \X Hypernode]
        /\ \A i \in 1 .. n : r[i] = q[(n - i) + 1] /\ (n - i) + 1 \in 1 .. n
    BY <1>1, Reversed
  <2> HIDE DEF r
  <2>2. PICK B : B[0] = T[n] /\ B[n] = UncontractAll(T[n], r) /\ \A i \in 1 .. n : B[i] = D(B[i - 1], i)
    <3>1. T[n] \in IP!Structure
      BY <1>7 DEF IP!WellFormed
    <3>2. \A t \in IP!Structure, i \in 1 .. n : D(t, i) \in IP!Structure
      BY <2>1, StructuresClosed
    <3> QED BY <2>1, <3>1, <3>2, UncontractAllTrace
  <2> DEFINE Back == {i \in 0 .. n : B[i] = T[n - i]}
  <2>3. 0 \in Back
    BY <2>2
  <2>4. ASSUME NEW i \in 1 .. n, i - 1 \in Back PROVE i \in Back
    <3>1. B[i - 1] = T[(n - i) + 1] /\ n - (i - 1) = (n - i) + 1
      BY <2>4
    <3>2. B[i] = U(T[(n - i) + 1], (n - i) + 1)
      BY <2>1, <2>2, <3>1
    <3>3. ((n - i) + 1) - 1 = n - i
      OBVIOUS
    <3>4. B[i] = T[n - i]
      BY <1>8, <2>1, <3>2, <3>3
    <3> QED BY <3>4
  <2>5. n \in Back
    <3> HIDE DEF Back
    <3> QED BY <2>3, <2>4, CountInduction
  <2>6. B[n] = T[0]
    BY <2>5
  <2> QED BY <1>3, <2>2, <2>6 DEF r
<1> QED BY <1>3, <1>7, <1>9

\* So are mergers of weights.
LEMMA MergersUndone ==
  ASSUME NEW w \in Weights, NEW n \in Nat, NEW q \in [1 .. n -> Hyperedge \X Hyperedge],
         \A i \in 1 .. n : q[i][1] # q[i][2]
  PROVE  SplitWeights(MergeWeights(w, q), Reverse(q)) = w
<1> DEFINE M(t, i) == MergedPair(t, q[i])
           U(t, i) == SplitPair(t, q[i])
<1>1. \A i \in 1 .. n : q[i][1] \in Hyperedge /\ q[i][2] \in Hyperedge
  OBVIOUS
<1>2. \A t \in Weights, i \in 1 .. n : M(t, i) \in Weights
  BY <1>1 DEF MergedPair, Weights
<1>3. PICK T : T[0] = w /\ T[n] = MergeWeights(w, q) /\ \A i \in 1 .. n : T[i] = M(T[i - 1], i)
  <2> HIDE DEF M
  <2>2. \A t \in Weights, i \in 1 .. n : MergedPair(t, q[i]) \in Weights
    BY <1>2 DEF M
  <2>3. \E T : /\ T[0] = w /\ T[n] = MergeWeights(w, q)
               /\ \A i \in 1 .. n : T[i] = MergedPair(T[i - 1], q[i])
    BY <2>2, MergeWeightsTrace, ZenonT(60)
  <2> QED BY <2>3, Zenon DEF M
<1>4. \A t \in Weights, i \in 1 .. n : U(M(t, i), i) = t
  <2> SUFFICES ASSUME NEW t \in Weights, NEW i \in 1 .. n PROVE U(M(t, i), i) = t
    OBVIOUS
  <2> DEFINE a == q[i][1]
             b == q[i][2]
  <2>1. a \in Hyperedge /\ b \in Hyperedge /\ a # b
    BY <1>1
  <2> HIDE DEF a, b
  <2>2. \A e \in Hyperedge : [[t EXCEPT ![a] = @ + t[b]] EXCEPT ![a] = @ - [t EXCEPT ![a] = @ + t[b]][b]][e] = t[e]
    BY <2>1 DEF Weights
  <2>3. [[t EXCEPT ![a] = @ + t[b]] EXCEPT ![a] = @ - [t EXCEPT ![a] = @ + t[b]][b]] = t
    BY <2>2 DEF Weights
  <2> QED BY <2>3 DEF a, b, MergedPair, SplitPair
<1>5. \A i \in 0 .. n : T[i] \in Weights
  <2> DEFINE Good == {i \in 0 .. n : T[i] \in Weights}
  <2> SUFFICES ASSUME NEW m \in 0 .. n PROVE m \in Good
    OBVIOUS
  <2>1. 0 \in Good
    BY <1>3
  <2>2. ASSUME NEW i \in 1 .. m, i - 1 \in Good PROVE i \in Good
    <3>1. i \in 1 .. n /\ T[i - 1] \in Weights
      BY <2>2
    <3> HIDE DEF M
    <3> QED BY <1>2, <1>3, <3>1
  <2> HIDE DEF Good
  <2> QED BY <2>1, <2>2, CountInduction
<1> HIDE DEF M, U
<1>6. \A i \in 1 .. n : U(T[i], i) = T[i - 1]
  <2> SUFFICES ASSUME NEW i \in 1 .. n PROVE U(T[i], i) = T[i - 1]
    OBVIOUS
  <2>1. T[i - 1] \in Weights
    BY <1>5
  <2> QED BY <1>3, <1>4, <2>1
<1> DEFINE r == Reverse(q)
           D(t, i) == SplitPair(t, r[i])
<1>7. /\ r \in [1 .. n -> Hyperedge \X Hyperedge]
      /\ \A i \in 1 .. n : r[i] = q[(n - i) + 1] /\ (n - i) + 1 \in 1 .. n
  BY Reversed
<1> HIDE DEF r
<1>8. PICK B : B[0] = T[n] /\ B[n] = SplitWeights(T[n], r) /\ \A i \in 1 .. n : B[i] = D(B[i - 1], i)
  <2>1. T[n] \in Weights
    BY <1>5
  <2>2. \A t \in Weights, i \in 1 .. n : D(t, i) \in Weights
    BY <1>7 DEF Weights, SplitPair
  <2>3. r \in [1 .. n -> Hyperedge \X Hyperedge]
    BY <1>7
  <2>4. \E B : /\ B[0] = T[n] /\ B[n] = SplitWeights(T[n], r)
               /\ \A i \in 1 .. n : B[i] = SplitPair(B[i - 1], r[i])
    BY <2>1, <2>2, <2>3, SplitWeightsTrace, ZenonT(60)
  <2> QED BY <2>4, Zenon
<1> DEFINE Back == {i \in 0 .. n : B[i] = T[n - i]}
<1>9. 0 \in Back
  BY <1>8
<1>10. ASSUME NEW i \in 1 .. n, i - 1 \in Back PROVE i \in Back
  <2>1. B[i - 1] = T[(n - i) + 1] /\ n - (i - 1) = (n - i) + 1
    BY <1>10
  <2>2. B[i] = U(T[(n - i) + 1], (n - i) + 1)
    BY <1>7, <1>8, <2>1 DEF U
  <2>3. ((n - i) + 1) - 1 = n - i
    OBVIOUS
  <2>4. B[i] = T[n - i]
    BY <1>6, <1>7, <2>2, <2>3
  <2> QED BY <2>4
<1>11. n \in Back
  <2> HIDE DEF Back
  <2> QED BY <1>9, <1>10, CountInduction
<1> QED BY <1>3, <1>8, <1>11 DEF r
-----------------------------------------------------------------------------
(* Nets that are taken out of a structure, and put back.                     *)

\* The structure s without the nets R.
Sizes(s) == [e \in Hyperedge |-> Cardinality(s.pins[e])]
Without(s, R) ==
  [nodes   |-> s.nodes,
   edges   |-> s.edges \ R,
   pins    |-> s.pins,
   cutOff  |-> s.cutOff,
   nets    |-> [v \in Hypernode |-> s.nets[v] \ {e \in R : v \in s.pins[e]}],
   weight  |-> s.weight,
   numPins |-> s.numPins - Total(Sizes(s), R)]

\* What is known of a structure, and of its nets.
LEMMA StructureTyped ==
  ASSUME NEW s \in IP!Structure
  PROVE  /\ s = [nodes |-> s.nodes, edges |-> s.edges, pins |-> s.pins, cutOff |-> s.cutOff,
                 nets |-> s.nets, weight |-> s.weight, numPins |-> s.numPins]
         /\ s.nodes \in SUBSET Hypernode /\ s.edges \in SUBSET Hyperedge
         /\ s.pins \in [Hyperedge -> SUBSET Hypernode] /\ s.nets \in [Hypernode -> SUBSET Hyperedge]
         /\ s.weight \in [Hypernode -> Int] /\ s.numPins \in Int
         /\ \A e \in Hyperedge : Sizes(s)[e] \in Nat /\ Sizes(s)[e] = Cardinality(s.pins[e])
         /\ \A R \in SUBSET Hyperedge : IsFiniteSet(R) /\ Total(Sizes(s), R) \in Int /\ Total(Sizes(s), {}) = 0
<1>1. /\ s = [nodes |-> s.nodes, edges |-> s.edges, pins |-> s.pins, cutOff |-> s.cutOff,
              nets |-> s.nets, weight |-> s.weight, numPins |-> s.numPins]
      /\ s.nodes \in SUBSET Hypernode /\ s.edges \in SUBSET Hyperedge
      /\ s.pins \in [Hyperedge -> SUBSET Hypernode] /\ s.nets \in [Hypernode -> SUBSET Hyperedge]
      /\ s.weight \in [Hypernode -> Int] /\ s.numPins \in Int
  BY DEF IP!Structure
<1>2. \A e \in Hyperedge : Sizes(s)[e] \in Nat /\ Sizes(s)[e] = Cardinality(s.pins[e])
  BY <1>1, InputsAssumption, FS_Subset, FS_CardinalityType DEF Sizes
<1>3. ASSUME NEW R \in SUBSET Hyperedge
      PROVE  IsFiniteSet(R) /\ Total(Sizes(s), R) \in Int /\ Total(Sizes(s), {}) = 0
  <2>1. IsFiniteSet(R)
    BY InputsAssumption, FS_Subset
  <2>2. \A e \in R : Sizes(s)[e] \in Int
    BY <1>2
  <2> QED BY <2>1, <2>2, TotalStep
<1> QED BY <1>1, <1>2, <1>3

\* What is left is a structure.
LEMMA WithoutTyped ==
  ASSUME NEW s \in IP!Structure, NEW R \in SUBSET Hyperedge
  PROVE  Without(s, R) \in IP!Structure
<1>1. s.numPins - Total(Sizes(s), R) \in Int
  BY StructureTyped
<1> QED BY <1>1 DEF Without, IP!Structure

\* Nothing is taken out.
LEMMA WithoutNothing ==
  ASSUME NEW s \in IP!Structure
  PROVE  Without(s, {}) = s
<1>1. s.nets = [v \in Hypernode |-> s.nets[v] \ {e \in {} : v \in s.pins[e]}]
  BY StructureTyped
<1>2. s.numPins - Total(Sizes(s), {}) = s.numPins
  BY StructureTyped
<1>3. s.edges \ {} = s.edges
  OBVIOUS
<1> QED BY <1>1, <1>2, <1>3, StructureTyped, Zenon DEF Without

\* One more net is taken out, or put back.
LEMMA OneNet ==
  ASSUME NEW s, IP!WellFormed(s), s.nodes \in SUBSET Hypernode, NEW R \in SUBSET s.edges, NEW e \in s.edges \ R
  PROVE  /\ I!Removed(Without(s, R), e) = Without(s, R \cup {e})
         /\ I!Restored(Without(s, R \cup {e}), e) = Without(s, R)
<1> DEFINE Re == R \cup {e}
<1>1. s \in IP!Structure /\ R \in SUBSET Hyperedge /\ e \in Hyperedge /\ Re \in SUBSET Hyperedge
  BY DEF IP!WellFormed, IP!Structure
<1>2. \A f \in s.edges : /\ \A v \in Hypernode : v \in s.pins[f] => f \in s.nets[v]
  BY <1>1 DEF IP!WellFormed, IP!Dual, IP!Structure
<1>3. Total(Sizes(s), Re) = Cardinality(s.pins[e]) + Total(Sizes(s), R)
  <2>1. Re \ {e} = R /\ e \in Re
    OBVIOUS
  <2>2. IsFiniteSet(Re) /\ \A f \in Re : Sizes(s)[f] \in Int
    BY <1>1, StructureTyped
  <2> HIDE DEF Re
  <2>3. Total(Sizes(s), Re) = Sizes(s)[e] + Total(Sizes(s), Re \ {e})
    BY <2>1, <2>2, TotalRemove
  <2> QED BY <1>1, <2>1, <2>3, StructureTyped
<1>4. Cardinality(s.pins[e]) \in Int /\ Total(Sizes(s), R) \in Int /\ s.numPins \in Int
  BY <1>1, StructureTyped
<1>5. /\ (s.numPins - Total(Sizes(s), R)) - Cardinality(s.pins[e]) = s.numPins - Total(Sizes(s), Re)
      /\ (s.numPins - Total(Sizes(s), Re)) + Cardinality(s.pins[e]) = s.numPins - Total(Sizes(s), R)
  <2> HIDE DEF Re
  <2> QED BY <1>3, <1>4
<1>6. (s.edges \ R) \ {e} = s.edges \ Re /\ (s.edges \ Re) \cup {e} = s.edges \ R
  OBVIOUS
<1> DEFINE nets(T) == [v \in Hypernode |-> s.nets[v] \ {f \in T : v \in s.pins[f]}]
<1>7. [v \in Hypernode |-> IF v \in s.pins[e] THEN nets(R)[v] \ {e} ELSE nets(R)[v]] = nets(Re)
  OBVIOUS
<1>8. [v \in Hypernode |-> IF v \in s.pins[e] THEN nets(Re)[v] \cup {e} ELSE nets(Re)[v]] = nets(R)
  BY <1>2
<1>9. I!Cardinality(s.pins[e]) = Cardinality(s.pins[e])
  BY SameLibrary
<1>10. I!Removed(Without(s, R), e) =
         [nodes |-> s.nodes, edges |-> (s.edges \ R) \ {e}, pins |-> s.pins, cutOff |-> s.cutOff,
          nets |-> [v \in Hypernode |-> IF v \in s.pins[e] THEN nets(R)[v] \ {e} ELSE nets(R)[v]],
          weight |-> s.weight, numPins |-> (s.numPins - Total(Sizes(s), R)) - Cardinality(s.pins[e])]
  BY <1>9 DEF I!Removed, Without
<1>11. I!Restored(Without(s, Re), e) =
         [nodes |-> s.nodes, edges |-> (s.edges \ Re) \cup {e}, pins |-> s.pins, cutOff |-> s.cutOff,
          nets |-> [v \in Hypernode |-> IF v \in s.pins[e] THEN nets(Re)[v] \cup {e} ELSE nets(Re)[v]],
          weight |-> s.weight, numPins |-> (s.numPins - Total(Sizes(s), Re)) + Cardinality(s.pins[e])]
  <2> HIDE DEF Re
  <2> QED BY <1>9 DEF I!Restored, Without
<1>12. I!Removed(Without(s, R), e) = Without(s, Re)
  <2>1. Without(s, Re) =
         [nodes |-> s.nodes, edges |-> s.edges \ Re, pins |-> s.pins, cutOff |-> s.cutOff,
          nets |-> nets(Re), weight |-> s.weight, numPins |-> s.numPins - Total(Sizes(s), Re)]
    BY Zenon DEF Without
  <2> HIDE DEF Re, nets
  <2> QED BY <1>5, <1>6, <1>7, <1>10, <2>1, Zenon
<1>13. I!Restored(Without(s, Re), e) = Without(s, R)
  <2>1. Without(s, R) =
         [nodes |-> s.nodes, edges |-> s.edges \ R, pins |-> s.pins, cutOff |-> s.cutOff,
          nets |-> nets(R), weight |-> s.weight, numPins |-> s.numPins - Total(Sizes(s), R)]
    BY Zenon DEF Without
  <2> HIDE DEF Re, nets
  <2> QED BY <1>5, <1>6, <1>8, <1>11, <2>1, Zenon
<1> QED BY <1>12, <1>13

\* Different nets, one after the other.
Distinct(n, q, E) == q \in [1 .. n -> E] /\ \A i, j \in 1 .. n : i # j => q[i] # q[j]
Listed(q) == {q[i] : i \in DOMAIN q}

\* All of them are taken out, or put back.
LEMMA NetsOut ==
  ASSUME NEW s, IP!WellFormed(s), NEW R \in SUBSET s.edges, NEW n \in Nat, NEW q, Distinct(n, q, s.edges \ R)
  PROVE  RemoveAll(Without(s, R), q) = Without(s, R \cup Listed(q))
<1> DEFINE Out(i) == R \cup {q[j] : j \in 1 .. i}
<1>1. s \in IP!Structure /\ s.nodes \in SUBSET Hypernode /\ s.edges \in SUBSET Hyperedge /\ R \in SUBSET Hyperedge
  BY DEF IP!WellFormed, IP!Structure
<1>2. q \in [1 .. n -> Hyperedge] /\ \A i \in 1 .. n : q[i] \in s.edges \ R
  BY <1>1 DEF Distinct
<1>3. PICK T : /\ T[0] = Without(s, R) /\ T[n] = RemoveAll(Without(s, R), q)
               /\ \A i \in 1 .. n : T[i] = I!Removed(T[i - 1], q[i])
  <2>1. Without(s, R) \in IP!Structure
    BY <1>1, WithoutTyped
  <2>2. \A t \in IP!Structure, i \in 1 .. n : I!Removed(t, q[i]) \in IP!Structure
    BY <1>2, StructuresClosed
  <2> QED BY <1>2, <2>1, <2>2, RemoveAllTrace
<1> DEFINE Good == {i \in 0 .. n : T[i] = Without(s, Out(i))}
<1>4. 0 \in Good
  <2>1. Out(0) = R
    OBVIOUS
  <2> HIDE DEF Out
  <2> QED BY <1>3, <2>1
<1>5. ASSUME NEW i \in 1 .. n, i - 1 \in Good PROVE i \in Good
  <2>1. Out(i) = Out(i - 1) \cup {q[i]}
    <3>1. 1 .. i = (1 .. i - 1) \cup {i}
      OBVIOUS
    <3> QED BY <3>1
  <2>2. \A j \in 1 .. i - 1 : j \in 1 .. n /\ j # i
    OBVIOUS
  <2>3. Out(i - 1) \in SUBSET s.edges /\ q[i] \in s.edges \ Out(i - 1)
    BY <1>2, <2>2 DEF Distinct
  <2> HIDE DEF Out
  <2>4. I!Removed(Without(s, Out(i - 1)), q[i]) = Without(s, Out(i - 1) \cup {q[i]})
    BY <1>1, <2>3, OneNet
  <2> QED BY <1>3, <1>5, <2>1, <2>4
<1>6. n \in Good
  <2> HIDE DEF Good
  <2> QED BY <1>4, <1>5, CountInduction
<1>7. Out(n) = R \cup Listed(q)
  BY <1>2 DEF Listed
<1> HIDE DEF Out
<1> QED BY <1>3, <1>6, <1>7

LEMMA NetsBack ==
  ASSUME NEW s, IP!WellFormed(s), NEW R \in SUBSET s.edges, NEW n \in Nat, NEW q, Distinct(n, q, s.edges \ R)
  PROVE  RestoreAll(Without(s, R \cup Listed(q)), q) = Without(s, R)
<1> DEFINE Out(i) == R \cup {q[j] : j \in i + 1 .. n}
<1>1. s \in IP!Structure /\ s.nodes \in SUBSET Hypernode /\ s.edges \in SUBSET Hyperedge /\ R \in SUBSET Hyperedge
  BY DEF IP!WellFormed, IP!Structure
<1>2. q \in [1 .. n -> Hyperedge] /\ \A i \in 1 .. n : q[i] \in s.edges \ R
  BY <1>1 DEF Distinct
<1>3. Out(0) = R \cup Listed(q) /\ Out(n) = R
  BY <1>2 DEF Listed
<1>4. PICK T : /\ T[0] = Without(s, Out(0)) /\ T[n] = RestoreAll(Without(s, Out(0)), q)
               /\ \A i \in 1 .. n : T[i] = I!Restored(T[i - 1], q[i])
  <2>1. Out(0) \in SUBSET Hyperedge
    BY <1>1, <1>2
  <2> HIDE DEF Out
  <2>2. Without(s, Out(0)) \in IP!Structure
    BY <1>1, <2>1, WithoutTyped
  <2>3. \A t \in IP!Structure, i \in 1 .. n : I!Restored(t, q[i]) \in IP!Structure
    BY <1>2, StructuresClosed
  <2> QED BY <1>2, <2>2, <2>3, RestoreAllTrace
<1> DEFINE Good == {i \in 0 .. n : T[i] = Without(s, Out(i))}
<1>5. 0 \in Good
  <2> HIDE DEF Out
  <2> QED BY <1>4
<1>6. ASSUME NEW i \in 1 .. n, i - 1 \in Good PROVE i \in Good
  <2>1. Out(i - 1) = Out(i) \cup {q[i]}
    <3>1. (i - 1) + 1 .. n = (i + 1 .. n) \cup {i}
      OBVIOUS
    <3> QED BY <3>1
  <2>2. \A j \in i + 1 .. n : j \in 1 .. n /\ j # i
    OBVIOUS
  <2>3. Out(i) \in SUBSET s.edges /\ q[i] \in s.edges \ Out(i)
    BY <1>2, <2>2 DEF Distinct
  <2> HIDE DEF Out
  <2>4. I!Restored(Without(s, Out(i) \cup {q[i]}), q[i]) = Without(s, Out(i))
    BY <1>1, <2>3, OneNet
  <2> QED BY <1>4, <1>6, <2>1, <2>4
<1>7. n \in Good
  <2> HIDE DEF Good
  <2> QED BY <1>5, <1>6, CountInduction
<1> HIDE DEF Out
<1> QED BY <1>3, <1>4, <1>7
-----------------------------------------------------------------------------
(* What the deduplicator and the removers find.                              *)

\* Each number has a representative, the first with the same value, which
\* represents itself.
Eldest(f, N, v) == Min({w \in N : f[w] = f[v]})

LEMMA Representatives ==
  ASSUME NEW N, IsFiniteSet(N), N \subseteq Nat, NEW f, NEW v \in N
  PROVE  Eldest(f, N, v) \in N /\ Eldest(f, N, Eldest(f, N, v)) = Eldest(f, N, v)
<1> DEFINE S == {w \in N : f[w] = f[v]}
           u == Eldest(f, N, v)
<1>1. v \in S /\ S \in SUBSET N /\ \A w \in S : w \in Int
  OBVIOUS
<1>2. IsFiniteSet(S)
  BY <1>1, FS_Subset
<1>3. u = Min(S) /\ Eldest(f, N, u) = Min({w \in N : f[w] = f[u]})
  BY Zenon DEF Eldest
<1>4. u \in S
  <2> HIDE DEF S, u
  <2> QED BY <1>1, <1>2, <1>3, Extrema
<1> HIDE DEF u
<1>5. {w \in N : f[w] = f[u]} = S /\ u \in N
  BY <1>4
<1> HIDE DEF S
<1> QED BY <1>3, <1>5 DEF u

\* Pairs of different members of N: the second ones differ from each other and
\* from all first ones.
Paired(n, q, N) ==
  /\ n \in Nat /\ q \in [1 .. n -> N \X N]
  /\ \A i, j \in 1 .. n : q[j][2] # q[i][1] /\ (i # j => q[j][2] # q[i][2])

\* The pairs of a number that is not its own representative, with it.
LEMMA PairsFound ==
  ASSUME NEW N, IsFiniteSet(N), N \subseteq Nat, NEW first, \A v \in N : first[v] \in N /\ first[first[v]] = first[v],
         NEW r, r = Ascending({v \in N : first[v] # v})
  PROVE  \E n : /\ Paired(n, [i \in DOMAIN r |-> << first[r[i]], r[i] >>], N) /\ DOMAIN r = 1 .. n
<1> DEFINE S == {v \in N : first[v] # v}
           n == Cardinality(S)
           q == [i \in DOMAIN r |-> << first[r[i]], r[i] >>]
<1>1. IsFiniteSet(S) /\ S \subseteq Nat /\ S \in SUBSET N
  BY FS_Subset
<1>2. n \in Nat /\ r \in [1 .. n -> S] /\ \A i, j \in 1 .. n : i # j => r[i] # r[j]
  <2>1. r = Ascending(S)
    OBVIOUS
  <2> HIDE DEF S
  <2>2. /\ Cardinality(S) \in Nat /\ Ascending(S) \in [1 .. Cardinality(S) -> S]
        /\ \A i, j \in 1 .. Cardinality(S) : i # j => Ascending(S)[i] # Ascending(S)[j]
    BY <1>1, AscendingLists, Zenon
  <2> QED BY <2>1, <2>2
<1>3. \A i \in 1 .. n : r[i] \in N /\ first[r[i]] \in N /\ first[r[i]] # r[i] /\ first[first[r[i]]] = first[r[i]]
  <2>1. \A i \in 1 .. n : r[i] \in S
    BY <1>2
  <2> QED BY <2>1
<1> HIDE DEF n
<1>4. DOMAIN r = 1 .. n
  BY <1>2
<1> HIDE DEF S
<1>5. \A i \in 1 .. n : q[i] = << first[r[i]], r[i] >> /\ q[i][1] = first[r[i]] /\ q[i][2] = r[i]
  BY <1>4
<1>6. q \in [1 .. n -> N \X N]
  BY <1>3, <1>4
<1> HIDE DEF q
<1>7. \A i, j \in 1 .. n : q[j][2] # q[i][1] /\ (i # j => q[j][2] # q[i][2])
  <2> SUFFICES ASSUME NEW i \in 1 .. n, NEW j \in 1 .. n PROVE r[j] # first[r[i]] /\ (i # j => r[j] # r[i])
    BY <1>5
  <2> QED BY <1>2, <1>3
<1> QED BY <1>2, <1>4, <1>6, <1>7 DEF Paired, q

\* So the deduplicator finds such pairs of hypernodes, and of nets.
LEMMA IdenticalNodesPaired ==
  ASSUME NEW s \in IP!Structure
  PROVE  \E n : Paired(n, IdenticalNodes(s), s.nodes)
<1> DEFINE N == s.nodes
           first == [v \in N |-> IdenticalNode(s, v)]
           r == Ascending({v \in N : first[v] # v})
<1>1. IsFiniteSet(N) /\ N \subseteq Nat
  BY StructureTyped, InputsAssumption, FS_Subset
<1>2. \A v \in N : first[v] \in N /\ first[first[v]] = first[v]
  <2>1. \A v \in N : first[v] = Eldest(s.nets, N, v)
    BY Zenon DEF IdenticalNode, Eldest
  <2> HIDE DEF N, first
  <2>2. \A v \in N : Eldest(s.nets, N, v) \in N /\ Eldest(s.nets, N, Eldest(s.nets, N, v)) = Eldest(s.nets, N, v)
    BY <1>1, Representatives, Zenon
  <2> QED BY <2>1, <2>2
<1>3. {v \in N : first[v] # v} = {v \in N : IdenticalNode(s, v) # v}
  OBVIOUS
<1>4. \E n : Paired(n, [i \in DOMAIN r |-> << first[r[i]], r[i] >>], N) /\ DOMAIN r = 1 .. n
  <2> HIDE DEF N, first
  <2> QED BY <1>1, <1>2, PairsFound
<1>5. \A i \in DOMAIN r : r[i] \in N
  <2>1. IsFiniteSet({v \in N : first[v] # v}) /\ {v \in N : first[v] # v} \subseteq Nat
    BY <1>1, FS_Subset
  <2>2. r \in [1 .. Cardinality({v \in N : first[v] # v}) -> {v \in N : first[v] # v}]
    <3> DEFINE S == {v \in N : first[v] # v}
    <3> HIDE DEF S
    <3> QED BY <2>1, AscendingLists DEF S
  <2> QED BY <2>2
<1>6. IdenticalNodes(s) = [i \in DOMAIN r |-> << first[r[i]], r[i] >>]
  BY <1>3, <1>5 DEF IdenticalNodes
<1> QED BY <1>4, <1>6

LEMMA ParallelNetsPaired ==
  ASSUME NEW s \in IP!Structure
  PROVE  \E n : Paired(n, ParallelNets(s), s.edges)
<1> DEFINE N == s.edges
           first == [e \in N |-> ParallelNet(s, e)]
           r == Ascending({e \in N : first[e] # e})
<1>1. IsFiniteSet(N) /\ N \subseteq Nat
  BY StructureTyped, InputsAssumption, FS_Subset
<1>2. \A e \in N : first[e] \in N /\ first[first[e]] = first[e]
  <2>1. \A e \in N : first[e] = Eldest(s.pins, N, e)
    BY Zenon DEF ParallelNet, Eldest
  <2> HIDE DEF N, first
  <2>2. \A e \in N : Eldest(s.pins, N, e) \in N /\ Eldest(s.pins, N, Eldest(s.pins, N, e)) = Eldest(s.pins, N, e)
    BY <1>1, Representatives, Zenon
  <2> QED BY <2>1, <2>2
<1>3. {e \in N : first[e] # e} = {e \in N : ParallelNet(s, e) # e}
  OBVIOUS
<1>4. \E n : Paired(n, [i \in DOMAIN r |-> << first[r[i]], r[i] >>], N) /\ DOMAIN r = 1 .. n
  <2> HIDE DEF N, first
  <2> QED BY <1>1, <1>2, PairsFound
<1>5. \A i \in DOMAIN r : r[i] \in N
  <2>1. IsFiniteSet({e \in N : first[e] # e}) /\ {e \in N : first[e] # e} \subseteq Nat
    BY <1>1, FS_Subset
  <2>2. r \in [1 .. Cardinality({e \in N : first[e] # e}) -> {e \in N : first[e] # e}]
    <3> DEFINE S == {e \in N : first[e] # e}
    <3> HIDE DEF S
    <3> QED BY <2>1, AscendingLists DEF S
  <2> QED BY <2>2
<1>6. ParallelNets(s) = [i \in DOMAIN r |-> << first[r[i]], r[i] >>]
  BY <1>3, <1>5 DEF ParallelNets
<1> QED BY <1>4, <1>6

\* A set of nets in their order, and in the reverse one.
LEMMA NetsListed ==
  ASSUME NEW S \in SUBSET Hyperedge
  PROVE  \E n \in Nat : /\ Distinct(n, Ascending(S), S) /\ Distinct(n, Reverse(Ascending(S)), S)
                        /\ Listed(Ascending(S)) = S /\ Listed(Reverse(Ascending(S))) = S
                        /\ Ascending(S) \in Seq(Hyperedge)
<1> DEFINE n == Cardinality(S)
           q == Ascending(S)
           r == Reverse(q)
<1>1. IsFiniteSet(S) /\ S \subseteq Nat
  BY InputsAssumption, FS_Subset
<1>2. /\ n \in Nat /\ q \in [1 .. n -> S] /\ \A i, j \in 1 .. n : i # j => q[i] # q[j]
      /\ \A x \in S : \E i \in 1 .. n : q[i] = x
  BY <1>1, AscendingLists
<1> HIDE DEF n, q
<1>3. r \in [1 .. n -> S] /\ \A i \in 1 .. n : r[i] = q[(n - i) + 1] /\ (n - i) + 1 \in 1 .. n
  BY <1>2, Reversed
<1>4. \A i, j \in 1 .. n : i # j => r[i] # r[j]
  <2> SUFFICES ASSUME NEW i \in 1 .. n, NEW j \in 1 .. n, i # j PROVE r[i] # r[j]
    OBVIOUS
  <2>1. (n - i) + 1 # (n - j) + 1
    BY <1>2
  <2> QED BY <1>2, <1>3, <2>1
<1>5. Listed(q) = S
  BY <1>2 DEF Listed
<1>6. \A x \in S : \E i \in 1 .. n : r[i] = x
  <2> SUFFICES ASSUME NEW i \in 1 .. n PROVE \E j \in 1 .. n : r[j] = q[i]
    BY <1>2
  <2>1. (n - i) + 1 \in 1 .. n /\ (n - ((n - i) + 1)) + 1 = i
    BY <1>2
  <2> QED BY <1>3, <2>1
<1> HIDE DEF r
<1>7. Listed(r) = S
  BY <1>3, <1>6 DEF Listed
<1>8. q \in Seq(Hyperedge)
  BY <1>2
<1> QED BY <1>2, <1>3, <1>4, <1>5, <1>7, <1>8 DEF Distinct, q, r
-----------------------------------------------------------------------------
(* The stages a hypergraph goes through on its way into the partitioner and  *)
(* back, as functions of the input.                                          *)

Identical(i) == IF i.deduplicate THEN IdenticalNodes(Read(i)) ELSE << >>
Contracted(i) == ContractAll(Read(i), Identical(i))
Parallel(i) == IF i.deduplicate THEN ParallelNets(Contracted(i)) ELSE << >>
Seconds(q) == [j \in DOMAIN q |-> q[j][2]]
Merged(i) == MergeWeights(i.netWeight, Parallel(i))
Simple(i) == Without(Contracted(i), Listed(Seconds(Parallel(i))))
Single(i) == SingleNodeNets(Simple(i))
Multiple(i) == Without(Contracted(i), Listed(Seconds(Parallel(i))) \cup Listed(Single(i)))
Threshold(i) == Max({Cardinality(Hypernode) * i.largeFactor, i.smallestThreshold})
Large(i) == LargeNets(Multiple(i), Threshold(i))
Reduced(i) == Without(Contracted(i), (Listed(Seconds(Parallel(i))) \cup Listed(Single(i))) \cup Listed(Large(i)))
NoneLarge(i) == Without(Contracted(i), Listed(Seconds(Parallel(i))) \cup Listed(Large(i)))

\* Without pairs nothing happens.
LEMMA NoPairs ==
  /\ \A s \in IP!Structure : ContractAll(s, << >>) = s /\ UncontractAll(s, << >>) = s
  /\ \A w \in Weights : MergeWeights(w, << >>) = w
  /\ \A X : Paired(0, << >>, X)
  /\ Reverse(<< >>) = << >>
<1>1. \A X : << >> \in [1 .. 0 -> X]
  OBVIOUS
<1>2. ASSUME NEW s \in IP!Structure PROVE ContractAll(s, << >>) = s /\ UncontractAll(s, << >>) = s
  <2>1. /\ << >> \in [1 .. 0 -> Hypernode \X Hypernode] /\ 0 \in Nat
        /\ \A t \in IP!Structure, i \in 1 .. 0 : I!Contracted(t, << >>[i][1], << >>[i][2]) \in IP!Structure
        /\ \A t \in IP!Structure, i \in 1 .. 0 : I!Uncontracted(t, << >>[i][1], << >>[i][2]) \in IP!Structure
    <3>1. \A i \in 1 .. 0 : FALSE
      OBVIOUS
    <3> QED BY <1>1, <3>1
  <2>2. \E T : /\ T[0] = s /\ T[0] = ContractAll(s, << >>)
               /\ \A i \in 1 .. 0 : T[i] = I!Contracted(T[i - 1], << >>[i][1], << >>[i][2])
    BY <2>1, ContractAllTrace, ZenonT(60)
  <2>3. \E T : /\ T[0] = s /\ T[0] = UncontractAll(s, << >>)
               /\ \A i \in 1 .. 0 : T[i] = I!Uncontracted(T[i - 1], << >>[i][1], << >>[i][2])
    BY <2>1, UncontractAllTrace, ZenonT(60)
  <2> QED BY <2>2, <2>3
<1>3. ASSUME NEW w \in Weights PROVE MergeWeights(w, << >>) = w
  <2>1. /\ << >> \in [1 .. 0 -> Hyperedge \X Hyperedge] /\ 0 \in Nat
        /\ \A t \in Weights, i \in 1 .. 0 : MergedPair(t, << >>[i]) \in Weights
    <3>1. \A i \in 1 .. 0 : FALSE
      OBVIOUS
    <3> QED BY <1>1, <3>1
  <2>2. \E T : /\ T[0] = w /\ T[0] = MergeWeights(w, << >>)
               /\ \A i \in 1 .. 0 : T[i] = MergedPair(T[i - 1], << >>[i])
    BY <2>1, MergeWeightsTrace, ZenonT(60)
  <2> QED BY <2>2
<1>4. \A X : Paired(0, << >>, X)
  BY <1>1 DEF Paired
<1>5. Reverse(<< >>) = << >>
  BY DEF Reverse
<1> QED BY <1>2, <1>3, <1>4, <1>5

\* The structure an input is read into is well-formed.
LEMMA ReadWellFormed ==
  ASSUME NEW i \in Inputs
  PROVE  IP!WellFormed(Read(i)) /\ Read(i).edges = Hyperedge /\ i.netWeight \in Weights
<1> DEFINE s == Read(i)
           size == [e \in Hyperedge |-> Cardinality(i.pins[e])]
<1>1. i.pins \in [Hyperedge -> SUBSET Hypernode] /\ i.netWeight \in [Hyperedge -> Nat] /\ i.weight \in [Hypernode -> Nat]
  BY InputsAssumption
<1>2. SumFunction(size) \in Int
  <2>1. \A e \in Hyperedge : size[e] \in Int
    BY <1>1, InputsAssumption, FS_Subset, FS_CardinalityType
  <2>2. SumFunction(size) = Total(size, Hyperedge)
    BY SumIsTotal, Zenon DEF SumFunction, SumFunctionOnSet, FoldFunction, FoldFunctionOnSet
  <2> HIDE DEF size
  <2> QED BY <2>1, <2>2, InputsAssumption, TotalStep
<1>3. s.cutOff = [e \in Hyperedge |-> << >>] /\ s.cutOff \in [Hyperedge -> Seq(Hypernode)]
  BY EmptySeq DEF Read
<1>4. i.weight \in [Hypernode -> Int]
  BY <1>1
<1>5. s \in IP!Structure
  <2> HIDE DEF size
  <2> QED BY <1>1, <1>2, <1>3, <1>4 DEF Read, IP!Structure, size
<1>6. IP!Dual(s)
  BY <1>1 DEF Read, IP!Dual
<1>7. IP!OnlyContracted(s)
  BY DEF Read, IP!OnlyContracted
<1>8. i.netWeight \in Weights
  BY <1>1 DEF Weights
<1> QED BY <1>5, <1>6, <1>7, <1>8 DEF IP!WellFormed, Read

\* The pairs of identical hypernodes are contracted, and uncontracted again.
LEMMA ContractedFacts ==
  ASSUME NEW i \in Inputs
  PROVE  /\ IP!WellFormed(Contracted(i)) /\ Contracted(i).edges = Hyperedge
         /\ UncontractAll(Contracted(i), Reverse(Identical(i))) = Read(i)
         /\ ~ i.deduplicate => Contracted(i) = Read(i)
<1>1. IP!WellFormed(Read(i)) /\ Read(i).edges = Hyperedge /\ Read(i) \in IP!Structure
  BY ReadWellFormed DEF IP!WellFormed
<1>2. PICK n : Paired(n, Identical(i), Read(i).nodes)
  BY <1>1, IdenticalNodesPaired, NoPairs DEF Identical
<1>3. Contractible(Read(i), n, Identical(i)) /\ n \in Nat
  <2> DEFINE q == Identical(i)
             N == Read(i).nodes
  <2>1. N \in SUBSET Hypernode
    BY <1>1, StructureTyped
  <2>2. n \in Nat /\ q \in [1 .. n -> N \X N] /\ \A k, j \in 1 .. n : q[j][2] # q[k][1] /\ (k # j => q[j][2] # q[k][2])
    BY <1>2 DEF Paired
  <2> HIDE DEF q, N
  <2>3. q \in [1 .. n -> Hypernode \X Hypernode] /\ \A k \in 1 .. n : q[k][1] \in N /\ q[k][2] \in N
    BY <2>1, <2>2
  <2> QED BY <2>2, <2>3 DEF q, N, Contractible
<1>4. ~ i.deduplicate => Contracted(i) = Read(i)
  BY <1>1, NoPairs DEF Contracted, Identical
<1> QED BY <1>1, <1>3, <1>4, ContractionsUndone DEF Contracted

\* The second ones of pairs of nets, in their order and in the reverse one.
LEMMA SecondsListed ==
  ASSUME NEW n, NEW q, NEW N, Paired(n, q, N)
  PROVE  /\ Distinct(n, Seconds(q), N)
         /\ Distinct(n, [j \in DOMAIN q |-> Reverse(q)[j][2]], N)
         /\ Listed([j \in DOMAIN q |-> Reverse(q)[j][2]]) = Listed(Seconds(q))
<1> DEFINE r == [j \in DOMAIN q |-> Reverse(q)[j][2]]
           s == Seconds(q)
<1>1. n \in Nat /\ q \in [1 .. n -> N \X N] /\ \A k, j \in 1 .. n : k # j => q[j][2] # q[k][2]
  BY DEF Paired
<1>2. s \in [1 .. n -> N] /\ \A j \in 1 .. n : s[j] = q[j][2]
  BY <1>1 DEF Seconds
<1>3. \A j \in 1 .. n : Reverse(q)[j] = q[(n - j) + 1] /\ (n - j) + 1 \in 1 .. n
  BY <1>1, Reversed
<1>4. \A j \in 1 .. n : r[j] = s[(n - j) + 1] /\ (n - j) + 1 \in 1 .. n
  BY <1>1, <1>2, <1>3
<1>5. DOMAIN r = 1 .. n /\ r = [j \in 1 .. n |-> r[j]]
  BY <1>1
<1>6. DOMAIN s = 1 .. n /\ \A k, j \in 1 .. n : k # j => s[j] # s[k]
  BY <1>1, <1>2
<1> HIDE DEF r, s
<1>7. r \in [1 .. n -> N]
  BY <1>2, <1>4, <1>5
<1>8. \A k, j \in 1 .. n : k # j => r[j] # r[k]
  <2> SUFFICES ASSUME NEW k \in 1 .. n, NEW j \in 1 .. n, k # j PROVE r[j] # r[k]
    OBVIOUS
  <2>1. (n - k) + 1 # (n - j) + 1
    BY <1>1
  <2> QED BY <1>4, <1>6, <2>1
<1>9. \A k \in 1 .. n : \E j \in 1 .. n : r[j] = s[k]
  <2> SUFFICES ASSUME NEW k \in 1 .. n PROVE \E j \in 1 .. n : r[j] = s[k]
    OBVIOUS
  <2>1. (n - k) + 1 \in 1 .. n /\ (n - ((n - k) + 1)) + 1 = k
    BY <1>1
  <2> QED BY <1>4, <2>1
<1>10. Listed(r) = Listed(s)
  BY <1>4, <1>5, <1>6, <1>9 DEF Listed
<1> QED BY <1>2, <1>6, <1>7, <1>8, <1>10 DEF Distinct, r, s

\* The nets that are parallel to others are merged into them, and split off again.
LEMMA ParallelFacts ==
  ASSUME NEW i \in Inputs
  PROVE  /\ RemoveAll(Contracted(i), Seconds(Parallel(i))) = Simple(i)
         /\ RestoreAll(Simple(i), [j \in DOMAIN Parallel(i) |-> Reverse(Parallel(i))[j][2]]) = Contracted(i)
         /\ SplitWeights(Merged(i), Reverse(Parallel(i))) = i.netWeight
         /\ Listed(Seconds(Parallel(i))) \in SUBSET Hyperedge
         /\ ~ i.deduplicate => Simple(i) = Contracted(i) /\ Merged(i) = i.netWeight
<1> DEFINE s == Contracted(i)
           q == Parallel(i)
           r == [j \in DOMAIN q |-> Reverse(q)[j][2]]
<1>1. IP!WellFormed(s) /\ s.edges = Hyperedge /\ s \in IP!Structure
  BY ContractedFacts DEF IP!WellFormed
<1>2. PICK n : Paired(n, q, Hyperedge)
  <2> HIDE DEF s
  <2> QED BY <1>1, ParallelNetsPaired, NoPairs DEF Parallel, s
<1>3. Without(s, {}) = s
  BY <1>1, WithoutNothing
<1>4. n \in Nat /\ q \in [1 .. n -> Hyperedge \X Hyperedge] /\ \A j \in 1 .. n : q[j][1] # q[j][2]
  BY <1>2 DEF Paired
<1>5. SplitWeights(Merged(i), Reverse(q)) = i.netWeight
  BY <1>4, ReadWellFormed, MergersUndone DEF Merged
<1>6. ASSUME ~ i.deduplicate PROVE Simple(i) = s /\ Merged(i) = i.netWeight
  <2>1. q = << >>
    BY <1>6 DEF Parallel
  <2>2. Merged(i) = i.netWeight
    BY <2>1, NoPairs, ReadWellFormed DEF Merged
  <2>3. Listed(Seconds(q)) = {}
    BY <2>1 DEF Listed, Seconds
  <2> QED BY <1>3, <2>2, <2>3 DEF Simple
<1> HIDE DEF s, q
<1>7. /\ Distinct(n, Seconds(q), Hyperedge) /\ Distinct(n, r, Hyperedge) /\ Listed(r) = Listed(Seconds(q))
  BY <1>2, SecondsListed
<1> HIDE DEF r
<1>8. s.edges \ {} = Hyperedge /\ {} \in SUBSET s.edges
  BY <1>1
<1>9. RemoveAll(s, Seconds(q)) = Without(s, Listed(Seconds(q)))
  <2>1. RemoveAll(Without(s, {}), Seconds(q)) = Without(s, {} \cup Listed(Seconds(q)))
    BY <1>1, <1>4, <1>7, <1>8, NetsOut
  <2> QED BY <1>3, <2>1
<1>10. RestoreAll(Without(s, Listed(r)), r) = s
  <2>1. RestoreAll(Without(s, {} \cup Listed(r)), r) = Without(s, {})
    BY <1>1, <1>4, <1>7, <1>8, NetsBack
  <2>2. {} \cup Listed(r) = Listed(r)
    OBVIOUS
  <2> QED BY <1>3, <2>1, <2>2
<1>11. Listed(Seconds(q)) \in SUBSET Hyperedge
  BY <1>7 DEF Distinct, Listed
<1> QED BY <1>5, <1>6, <1>7, <1>9, <1>10, <1>11 DEF Simple, s, q, r

\* Then the nets with one pin and the large nets are taken out.  The former are
\* put back first.
LEMMA SanitizedFacts ==
  ASSUME NEW i \in Inputs
  PROVE  /\ RemoveAll(Simple(i), Single(i)) = Multiple(i)
         /\ RemoveAll(Multiple(i), Large(i)) = Reduced(i)
         /\ RestoreAll(Reduced(i), Reverse(Single(i))) = NoneLarge(i)
         /\ RestoreAll(NoneLarge(i), Large(i)) = Simple(i)
         /\ Single(i) \in Seq(Hyperedge)
<1> DEFINE s == Contracted(i)
           R == Listed(Seconds(Parallel(i)))
           A == {e \in Simple(i).edges : Cardinality(Simple(i).pins[e]) = 1}
           B == {e \in Multiple(i).edges : Cardinality(Multiple(i).pins[e]) > Threshold(i)}
<1>1. IP!WellFormed(s) /\ s.edges = Hyperedge /\ R \in SUBSET Hyperedge
  BY ContractedFacts, ParallelFacts
<1>2. Simple(i).edges = Hyperedge \ R
  BY <1>1 DEF Simple, Without
<1>3. A \in SUBSET (Hyperedge \ R) /\ A \in SUBSET Hyperedge
  BY <1>2
<1>4. Single(i) = Ascending(A)
  BY DEF Single, SingleNodeNets
<1> HIDE DEF A
<1>5. PICK a \in Nat : /\ Distinct(a, Single(i), A) /\ Distinct(a, Reverse(Single(i)), A)
                       /\ Listed(Single(i)) = A /\ Listed(Reverse(Single(i))) = A /\ Single(i) \in Seq(Hyperedge)
  BY <1>3, <1>4, NetsListed
<1>6. Multiple(i) = Without(s, R \cup A) /\ Multiple(i).edges = Hyperedge \ (R \cup A)
  BY <1>1, <1>5 DEF Multiple, Without
<1>7. B \in SUBSET (Hyperedge \ (R \cup A)) /\ B \in SUBSET Hyperedge
  BY <1>6
<1>8. Large(i) = Ascending(B)
  BY DEF Large, LargeNets
<1> HIDE DEF B
<1>9. PICK b \in Nat : Distinct(b, Large(i), B) /\ Listed(Large(i)) = B
  BY <1>7, <1>8, NetsListed
<1>10. /\ Simple(i) = Without(s, R) /\ Reduced(i) = Without(s, (R \cup A) \cup B) /\ NoneLarge(i) = Without(s, R \cup B)
  BY <1>5, <1>9 DEF Simple, Reduced, NoneLarge
<1> HIDE DEF s, R
<1>11. /\ Distinct(a, Single(i), s.edges \ R) /\ Distinct(a, Reverse(Single(i)), s.edges \ (R \cup B))
       /\ Distinct(b, Large(i), s.edges \ (R \cup A)) /\ Distinct(b, Large(i), s.edges \ R)
  BY <1>1, <1>3, <1>5, <1>7, <1>9 DEF Distinct
<1>12. RemoveAll(Simple(i), Single(i)) = Multiple(i)
  BY <1>1, <1>5, <1>6, <1>10, <1>11, NetsOut
<1>13. RemoveAll(Multiple(i), Large(i)) = Reduced(i)
  <2>1. R \cup A \in SUBSET s.edges
    BY <1>1, <1>3
  <2> QED BY <1>1, <1>6, <1>9, <1>10, <1>11, <2>1, NetsOut
<1>14. RestoreAll(Reduced(i), Reverse(Single(i))) = NoneLarge(i)
  <2>1. R \cup B \in SUBSET s.edges
    BY <1>1, <1>7
  <2>2. (R \cup A) \cup B = (R \cup B) \cup A
    OBVIOUS
  <2>3. RestoreAll(Without(s, (R \cup B) \cup A), Reverse(Single(i))) = Without(s, R \cup B)
    BY <1>1, <1>5, <1>11, <2>1, NetsBack
  <2> QED BY <1>10, <2>2, <2>3
<1>15. RestoreAll(NoneLarge(i), Large(i)) = Simple(i)
  BY <1>1, <1>9, <1>10, <1>11, NetsBack
<1> QED BY <1>5, <1>12, <1>13, <1>14, <1>15
-----------------------------------------------------------------------------
(* The invariant of the pipeline: what the hypergraph is before each step.   *)

Whole(i) == AsHypergraph(Reduced(i), Merged(i), i.fixed)

\* The steps from the removal of single-node nets to their restoration, and so on.
Outside == {"configure", "identical", "partitioned", "decide", "done"}
WithSingle == {"large", "sparsify", "partition", "restore_single"}
WithLarge == {"sparsify", "partition", "restore_single", "restore_large"}
WithParallel == {"single", "restore_parallel"} \cup WithSingle \cup WithLarge
WithIdentical == {"parallel", "restore_identical"} \cup WithParallel

HypergraphAt ==
  /\ pc \in Outside => hg = Read(input)
  /\ pc \in {"parallel", "restore_identical"} => hg = Contracted(input)
  /\ pc \in {"single", "restore_parallel"} => hg = Simple(input)
  /\ pc = "large" => hg = Multiple(input)
  /\ pc \in {"sparsify", "partition", "restore_single"} => hg = Reduced(input)
  /\ pc = "restore_large" => hg = NoneLarge(input)

WeightsAt ==
  /\ pc \in WithParallel => edgeWeight = Merged(input)
  /\ pc \notin WithParallel => edgeWeight = input.netWeight

ListsAt ==
  /\ removed = [identical |-> removed.identical, parallel |-> removed.parallel,
                single |-> removed.single, large |-> removed.large]
  /\ pc \in WithIdentical => removed.identical = Identical(input)
  /\ pc \in WithParallel => removed.parallel = Parallel(input)
  /\ pc \in WithSingle => removed.single = Single(input)
  /\ pc \notin WithSingle => removed.single = << >>
  /\ pc \in WithLarge => removed.large = Large(input)
  /\ pc \in {"identical", "parallel"} => input.deduplicate
  /\ ~ input.deduplicate => removed.identical = << >> /\ removed.parallel = << >>

\* Communities that are kept are those of the reduced hypergraph, which is the
\* same one each time.
CommunitiesAt ==
  /\ communities # None => input.detect /\ input.mode = "direct_kway" /\ communities.of = Whole(input)
  /\ CommunitiesFit

PipelineInv ==
  /\ input \in Inputs
  /\ pc \in Outside \cup WithIdentical
  /\ HypergraphAt /\ WeightsAt /\ ListsAt /\ CommunitiesAt
\* The facts about an input that the steps rely on.
LEMMA StagesOfInput ==
  ASSUME NEW i \in Inputs
  PROVE  /\ ~ i.deduplicate => /\ Identical(i) = << >> /\ Parallel(i) = << >>
                               /\ Read(i) = Simple(i) /\ Merged(i) = i.netWeight
         /\ i.deduplicate => Identical(i) = IdenticalNodes(Read(i)) /\ Parallel(i) = ParallelNets(Contracted(i))
         /\ Single(i) = << >> \o SingleNodeNets(Simple(i))
<1>1. ~ i.deduplicate => Read(i) = Simple(i) /\ Merged(i) = i.netWeight
  BY ContractedFacts, ParallelFacts
<1>2. Single(i) = << >> \o SingleNodeNets(Simple(i))
  <2>1. Single(i) \in Seq(Hyperedge) /\ Single(i) = SingleNodeNets(Simple(i))
    BY SanitizedFacts DEF Single
  <2>2. \A q \in Seq(Hyperedge) : << >> \o q = q
    OBVIOUS
  <2> QED BY <2>1, <2>2
<1> QED BY <1>1, <1>2 DEF Identical, Parallel

\* The steps before the partitioning.
LEMMA StepsInKeep ==
  ASSUME PipelineInv,
         \/ Configure \/ RemoveIdenticalVertices \/ RemoveParallelHyperedges
         \/ RemoveSingleNodeHyperedges \/ RemoveLargeHyperedges \/ SparsifyRound
  PROVE  PipelineInv'
<1> USE DEF runVars, inputVars, partitionVars, PipelineInv, Outside, WithSingle, WithLarge, WithParallel, WithIdentical
<1>1. input' = input /\ input \in Inputs /\ communities' = communities /\ partitioned' = partitioned
  BY DEF Configure, RemoveIdenticalVertices, RemoveParallelHyperedges, RemoveSingleNodeHyperedges,
         RemoveLargeHyperedges, SparsifyRound
<1>2. CommunitiesAt'
  <2>1. pc' # "restore_single"
    BY DEF Configure, RemoveIdenticalVertices, RemoveParallelHyperedges, RemoveSingleNodeHyperedges,
           RemoveLargeHyperedges, SparsifyRound
  <2> QED BY <1>1, <2>1 DEF CommunitiesAt, CommunitiesFit
<1>3. CASE Configure
  <2>1. hg = Read(input) /\ edgeWeight = input.netWeight /\ removed.single = << >>
    BY <1>3 DEF Configure, HypergraphAt, WeightsAt, ListsAt
  <2>2. CASE input.deduplicate
    BY <1>1, <1>2, <1>3, <2>1, <2>2 DEF Configure, HypergraphAt, WeightsAt, ListsAt
  <2>3. CASE ~ input.deduplicate
    BY <1>1, <1>2, <1>3, <2>1, <2>3, StagesOfInput DEF Configure, HypergraphAt, WeightsAt, ListsAt
  <2> QED BY <2>2, <2>3
<1>4. CASE RemoveIdenticalVertices
  <2>1. hg = Read(input) /\ edgeWeight = input.netWeight /\ removed.single = << >> /\ input.deduplicate
    BY <1>4 DEF RemoveIdenticalVertices, HypergraphAt, WeightsAt, ListsAt
  <2>2. removed'.identical = Identical(input)
    BY <1>1, <1>4, <2>1, StagesOfInput DEF RemoveIdenticalVertices, ListsAt
  <2>3. hg' = Contracted(input)
    BY <1>4, <2>1, <2>2 DEF RemoveIdenticalVertices, Contracted
  <2> QED BY <1>1, <1>2, <1>4, <2>1, <2>2, <2>3 DEF RemoveIdenticalVertices, HypergraphAt, WeightsAt, ListsAt
<1>5. CASE RemoveParallelHyperedges
  <2>1. /\ hg = Contracted(input) /\ edgeWeight = input.netWeight /\ removed.single = << >> /\ input.deduplicate
        /\ removed.identical = Identical(input)
    BY <1>5 DEF RemoveParallelHyperedges, HypergraphAt, WeightsAt, ListsAt
  <2>2. removed'.parallel = Parallel(input)
    BY <1>1, <1>5, <2>1, StagesOfInput DEF RemoveParallelHyperedges, ListsAt
  <2>3. hg' = Simple(input)
    <3>1. hg' = RemoveAll(hg, Seconds(removed'.parallel))
      BY <1>5, Zenon DEF RemoveParallelHyperedges, Seconds
    <3> QED BY <1>1, <2>1, <2>2, <3>1, ParallelFacts
  <2>4. edgeWeight' = Merged(input)
    BY <1>5, <2>1, <2>2 DEF RemoveParallelHyperedges, Merged
  <2> QED BY <1>1, <1>2, <1>5, <2>1, <2>2, <2>3, <2>4 DEF RemoveParallelHyperedges, HypergraphAt, WeightsAt, ListsAt
<1>6. CASE RemoveSingleNodeHyperedges
  <2>1. /\ hg = Simple(input) /\ edgeWeight = Merged(input) /\ removed.single = << >>
        /\ removed.identical = Identical(input) /\ removed.parallel = Parallel(input)
    BY <1>6 DEF RemoveSingleNodeHyperedges, HypergraphAt, WeightsAt, ListsAt
  <2>2. removed'.single = Single(input)
    BY <1>1, <1>6, <2>1, StagesOfInput DEF RemoveSingleNodeHyperedges, ListsAt
  <2>3. hg' = Multiple(input)
    BY <1>1, <1>6, <2>1, SanitizedFacts DEF RemoveSingleNodeHyperedges, Single
  <2> QED BY <1>1, <1>2, <1>6, <2>1, <2>2, <2>3 DEF RemoveSingleNodeHyperedges, HypergraphAt, WeightsAt, ListsAt
<1>7. CASE RemoveLargeHyperedges
  <2>1. /\ hg = Multiple(input) /\ edgeWeight = Merged(input) /\ removed.single = Single(input)
        /\ removed.identical = Identical(input) /\ removed.parallel = Parallel(input)
    BY <1>7 DEF RemoveLargeHyperedges, HypergraphAt, WeightsAt, ListsAt
  <2>2. removed'.large = Large(input)
    BY <1>7, <2>1 DEF RemoveLargeHyperedges, ListsAt, Large, Threshold, MaxSizeThreshold
  <2>3. hg' = Reduced(input)
    BY <1>1, <1>7, <2>2, <2>1, SanitizedFacts DEF RemoveLargeHyperedges
  <2> QED BY <1>1, <1>2, <1>7, <2>1, <2>2, <2>3 DEF RemoveLargeHyperedges, HypergraphAt, WeightsAt, ListsAt
<1>8. CASE SparsifyRound
  BY <1>1, <1>2, <1>8 DEF SparsifyRound, HypergraphAt, WeightsAt, ListsAt
<1> QED BY <1>3, <1>4, <1>5, <1>6, <1>7, <1>8

\* The partitioning: what it was given is what the communities are of.
LEMMA PartitionKeeps ==
  ASSUME PipelineInv, Partition
  PROVE  PipelineInv'
<1> USE DEF PipelineInv, Outside, WithSingle, WithLarge, WithParallel, WithIdentical
<1>1. /\ input \in Inputs /\ pc \in {"partition", "sparsify"} /\ pc' = "restore_single"
      /\ input' = input /\ hg' = hg /\ edgeWeight' = edgeWeight /\ removed' = removed
  BY DEF Partition, runVars, inputVars
<1>2. hg = Reduced(input) /\ edgeWeight = Merged(input)
  BY <1>1 DEF HypergraphAt, WeightsAt
<1>3. Current = Whole(input)
  BY <1>2 DEF Current, Whole
<1>4. PICK h, used :
        /\ partitioned'.h = h /\ partitioned'.communities = used /\ communities' = CommunitiesAfter(used)
        /\ used = IF input.detect /\ input.mode = "direct_kway" THEN Communities(h) ELSE communities
        /\ ~ sparsify => h = Current
  BY DEF Partition
<1>5. CASE input.detect /\ input.mode = "direct_kway"
  <2>1. CASE communities = None \/ sparsify
    <3>1. used.of = h
      BY <1>4, <1>5, <2>1 DEF Communities
    <3>2. communities' # None => communities'.of = Whole(input)
      BY <1>3, <1>4, <3>1 DEF CommunitiesAfter
    <3> QED BY <1>1, <1>2, <1>4, <1>5, <3>1, <3>2
              DEF CommunitiesAt, CommunitiesFit, HypergraphAt, WeightsAt, ListsAt
  <2>2. CASE communities # None /\ ~ sparsify
    <3>1. used = communities /\ used.of = Whole(input) /\ h = Whole(input)
      BY <1>3, <1>4, <1>5, <2>2 DEF Communities, CommunitiesAt
    <3>2. communities' = used
      BY <1>4, <2>2 DEF CommunitiesAfter
    <3> QED BY <1>1, <1>2, <1>4, <1>5, <3>1, <3>2
              DEF CommunitiesAt, CommunitiesFit, HypergraphAt, WeightsAt, ListsAt
  <2> QED BY <2>1, <2>2
<1>6. CASE ~ (input.detect /\ input.mode = "direct_kway")
  <2>1. used = None
    BY <1>4, <1>6 DEF CommunitiesAt
  <2>2. communities' = None
    BY <1>4, <2>1 DEF CommunitiesAfter
  <2> QED BY <1>1, <1>2, <1>4, <2>1, <2>2
            DEF CommunitiesAt, CommunitiesFit, HypergraphAt, WeightsAt, ListsAt
<1> QED BY <1>5, <1>6

\* The steps after it, and the end of a call.
LEMMA StepsOutKeep ==
  ASSUME PipelineInv,
         \/ RestoreSingleNodeHyperedges \/ RestoreLargeHyperedges \/ RestoreParallelHyperedges
         \/ RestoreIdenticalVertices \/ FinishSingle \/ Repeat
  PROVE  PipelineInv'
<1> USE DEF runVars, inputVars, partitionVars, PipelineInv, Outside, WithSingle, WithLarge, WithParallel, WithIdentical
<1>1. input' = input /\ input \in Inputs /\ communities' = communities /\ partitioned' = partitioned
  BY DEF RestoreSingleNodeHyperedges, RestoreLargeHyperedges, RestoreParallelHyperedges, RestoreIdenticalVertices,
         FinishSingle, Repeat
<1>2. CommunitiesAt'
  <2>1. pc' # "restore_single"
    BY DEF RestoreSingleNodeHyperedges, RestoreLargeHyperedges, RestoreParallelHyperedges, RestoreIdenticalVertices,
           FinishSingle, Repeat
  <2> QED BY <1>1, <2>1 DEF CommunitiesAt, CommunitiesFit
<1>3. CASE RestoreSingleNodeHyperedges
  <2>1. hg = Reduced(input) /\ edgeWeight = Merged(input) /\ removed.single = Single(input)
    BY <1>3 DEF RestoreSingleNodeHyperedges, HypergraphAt, WeightsAt, ListsAt
  <2>2. hg' = NoneLarge(input)
    BY <1>1, <1>3, <2>1, SanitizedFacts DEF RestoreSingleNodeHyperedges
  <2> QED BY <1>1, <1>2, <1>3, <2>1, <2>2 DEF RestoreSingleNodeHyperedges, HypergraphAt, WeightsAt, ListsAt
<1>4. CASE RestoreLargeHyperedges
  <2>1. hg = NoneLarge(input) /\ edgeWeight = Merged(input) /\ removed.large = Large(input)
    BY <1>4 DEF RestoreLargeHyperedges, HypergraphAt, WeightsAt, ListsAt
  <2>2. hg' = Simple(input)
    BY <1>1, <1>4, <2>1, SanitizedFacts DEF RestoreLargeHyperedges
  <2> QED BY <1>1, <1>2, <1>4, <2>1, <2>2 DEF RestoreLargeHyperedges, HypergraphAt, WeightsAt, ListsAt
<1>5. CASE RestoreParallelHyperedges
  <2>1. hg = Simple(input) /\ edgeWeight = Merged(input) /\ removed.parallel = Parallel(input)
    BY <1>5 DEF RestoreParallelHyperedges, HypergraphAt, WeightsAt, ListsAt
  <2>2. hg' = Contracted(input) /\ edgeWeight' = input.netWeight
    BY <1>1, <1>5, <2>1, ParallelFacts DEF RestoreParallelHyperedges
  <2> QED BY <1>1, <1>2, <1>5, <2>1, <2>2 DEF RestoreParallelHyperedges, HypergraphAt, WeightsAt, ListsAt
<1>6. CASE RestoreIdenticalVertices
  <2>1. hg = Contracted(input) /\ edgeWeight = input.netWeight /\ removed.identical = Identical(input)
    BY <1>6 DEF RestoreIdenticalVertices, HypergraphAt, WeightsAt, ListsAt
  <2>2. hg' = Read(input)
    BY <1>1, <1>6, <2>1, ContractedFacts DEF RestoreIdenticalVertices, UndoOrder
  <2> QED BY <1>1, <1>2, <1>6, <2>1, <2>2 DEF RestoreIdenticalVertices, HypergraphAt, WeightsAt, ListsAt
<1>7. CASE FinishSingle
  BY <1>1, <1>2, <1>7 DEF FinishSingle, HypergraphAt, WeightsAt, ListsAt
<1>8. CASE Repeat
  <2>1. /\ pc = "partitioned" /\ pc' \in {"configure", "done"}
        /\ hg' = hg /\ edgeWeight' = edgeWeight /\ removed' = removed
    BY <1>8 DEF Repeat
  <2> QED BY <1>1, <1>2, <2>1 DEF HypergraphAt, WeightsAt, ListsAt
<1> QED BY <1>3, <1>4, <1>5, <1>6, <1>7, <1>8

\* The steps of the evolutionary algorithm leave the hypergraph alone.
LEMMA DriverStepsKeep ==
  ASSUME PipelineInv,
         \/ Insert \/ Deliver
         \/ \E decision, parents, start : Call(decision, parents, start)
  PROVE  PipelineInv'
<1> USE DEF runVars, inputVars, partitionVars, PipelineInv, Outside, WithSingle, WithLarge, WithParallel, WithIdentical
<1>1. /\ pc \in {"partitioned", "decide"} /\ pc' \in {"configure", "decide", "done"}
      /\ input' = input /\ hg' = hg /\ edgeWeight' = edgeWeight /\ removed' = removed
      /\ communities' = communities /\ partitioned' = partitioned
  <2>1. CASE Insert
    BY <2>1 DEF Insert
  <2>2. CASE Deliver
    BY <2>2 DEF Deliver
  <2>3. ASSUME NEW decision, NEW parents, NEW start, Call(decision, parents, start)
        PROVE  /\ pc \in {"partitioned", "decide"} /\ pc' \in {"configure", "decide", "done"}
               /\ input' = input /\ hg' = hg /\ edgeWeight' = edgeWeight /\ removed' = removed
               /\ communities' = communities /\ partitioned' = partitioned
    BY <2>3 DEF Call
  <2> QED BY <2>1, <2>2, <2>3
<1>2. HypergraphAt' /\ WeightsAt'
  BY <1>1 DEF HypergraphAt, WeightsAt
<1>3. ListsAt'
  BY <1>1 DEF ListsAt
<1>4. CommunitiesAt'
  BY <1>1 DEF CommunitiesAt, CommunitiesFit
<1> QED BY <1>1, <1>2, <1>3, <1>4

LEMMA PipelineInvInit == EvoInit => PipelineInv
<1> SUFFICES ASSUME EvoInit PROVE PipelineInv
  OBVIOUS
<1>1. /\ input \in Inputs /\ pc = "configure" /\ hg = Read(input) /\ edgeWeight = input.netWeight
      /\ removed = [identical |-> << >>, parallel |-> << >>, single |-> << >>, large |-> << >>]
      /\ communities = None
  BY DEF EvoInit, Init
<1> QED BY <1>1 DEF PipelineInv, Outside, WithSingle, WithLarge, WithParallel, WithIdentical,
                    HypergraphAt, WeightsAt, ListsAt, CommunitiesAt, CommunitiesFit

LEMMA PipelineInvariant == EvoSpec => []PipelineInv
<1>1. PipelineInv /\ [EvoNext]_evoVars => PipelineInv'
  <2> SUFFICES ASSUME PipelineInv, [EvoNext]_evoVars PROVE PipelineInv'
    OBVIOUS
  <2>1. CASE Next
    BY <2>1, StepsInKeep, PartitionKeeps, StepsOutKeep DEF Next
  <2>2. CASE Insert \/ Deliver
    BY <2>2, DriverStepsKeep
  <2>3. CASE GenerateIndividual \/ UsingTournamentSelection \/ EdgeFrequency \/ VCycleWithNewInitialPartitioning \/ VCycle
    <3>1. \E decision, parents, start : Call(decision, parents, start)
      BY <2>3 DEF GenerateIndividual, UsingTournamentSelection, EdgeFrequency, VCycleWithNewInitialPartitioning, VCycle
    <3> QED BY <3>1, DriverStepsKeep
  <2>4. CASE UNCHANGED evoVars
    BY <2>4 DEF evoVars, vars, PipelineInv, HypergraphAt, WeightsAt, ListsAt, CommunitiesAt, CommunitiesFit
  <2> QED BY <2>1, <2>2, <2>3, <2>4 DEF EvoNext
<1> QED BY <1>1, PipelineInvInit, PTL DEF EvoSpec

\* Whatever was contracted, merged and put aside, when the partitioner returns, once
\* or for the hundredth time, the hypergraph is the input: with incidences, weights
\* of hypernodes and nets and counters.
THEOREM InputIsRestored == EvoSpec => []InputRestored
<1>1. PipelineInv => InputRestored
  BY DEF PipelineInv, HypergraphAt, WeightsAt, InputRestored, Outside, WithSingle, WithLarge, WithParallel, WithIdentical
<1> QED BY <1>1, PipelineInvariant, PTL

\* Communities are those of the hypergraph that is coarsened, also when they are taken
\* over from an earlier call.
THEOREM CommunitiesAlwaysFit == EvoSpec => []CommunitiesFit
<1>1. PipelineInv => CommunitiesFit
  BY DEF PipelineInv, CommunitiesAt
<1> QED BY <1>1, PipelineInvariant, PTL

-----------------------------------------------------------------------------
(* The scheduler of the flow refinement: any moves, and any list looked at.  *)

CONSTANT Block
VARIABLE lists

QG == INSTANCE QuotientGraph

USE DEF QG!Pairs, QG!PinsOf, QG!BlocksOf, QG!CutNets

\* The library that the instance of QuotientGraph brings is the one used here.
LEMMA SameCardinality == \A S : QG!Cardinality(S) = Cardinality(S)
<1>1. \A S : QG!IsFiniteSet(S) <=> IsFiniteSet(S)
  BY DEF QG!IsFiniteSet, IsFiniteSet
<1> QED BY <1>1 DEF QG!Cardinality, Cardinality

\* The types of the scheduler's state: what every other step relies on.
LEMMA ListsTyped == QG!Spec => []QG!TypeOK
<1>1. QG!Init => QG!TypeOK
  BY DEF QG!Init, QG!TypeOK, QG!Built
<1>2. QG!TypeOK /\ [QG!Next]_(QG!vars) => QG!TypeOK'
  <2> SUFFICES ASSUME QG!TypeOK, [QG!Next]_(QG!vars) PROVE QG!TypeOK'
    OBVIOUS
  <2>1. ASSUME NEW v \in Hypernode, NEW to \in Block, QG!ChangeNodePart(v, to) PROVE QG!TypeOK'
    <3>1. QG!Appended(lists, part', v, part[v], to) \in [QG!Pairs -> [Hyperedge -> Nat]]
      <4> HIDE DEF QG!Pairs, QG!PinsOf, QG!BlocksOf
      <4>1. \A p \in QG!Pairs, e \in Hyperedge : lists[p][e] \in Nat /\ lists[p][e] + 1 \in Nat
        BY DEF QG!TypeOK
      <4> QED BY <4>1, Zenon DEF QG!Appended
    <3> QED BY <2>1, <3>1 DEF QG!TypeOK, QG!ChangeNodePart, QG!Incident
  <2>2. ASSUME NEW p \in QG!Pairs, QG!BlockPairCutHyperedges(p) PROVE QG!TypeOK'
    BY <2>2 DEF QG!TypeOK, QG!BlockPairCutHyperedges, QG!Updated, QG!Incident
  <2>3. CASE UNCHANGED QG!vars
    BY <2>3 DEF QG!TypeOK, QG!vars, QG!Incident
  <2> QED
    BY <2>1, <2>2, <2>3 DEF QG!Next
<1> QED
  BY <1>1, <1>2, PTL DEF QG!Spec

\* A net that has no pin in the block `to` before v moves there has one pin in
\* it afterwards, if v is a pin of it.
LEMMA FirstPin ==
  ASSUME QG!TypeOK, NEW v \in Hypernode, NEW to \in Block, NEW e \in Hyperedge,
         v \in hg.pins[e], QG!PinsOf(part, e, to) = {}
  PROVE  Cardinality(QG!PinsOf([part EXCEPT ![v] = to], e, to)) = 1
<1>1. QG!PinsOf([part EXCEPT ![v] = to], e, to) = {v}
  BY DEF QG!TypeOK, QG!Incident
<1> QED
  BY <1>1, FS_Singleton

\* One move keeps the lists complete: a pair of blocks that a net connects only
\* after the move is a pair with the block that has got its first pin.
LEMMA MoveKeepsComplete ==
  ASSUME QG!TypeOK, QG!CutListsComplete, NEW v \in Hypernode, NEW to \in Block, QG!ChangeNodePart(v, to)
  PROVE  QG!CutListsComplete'
<1> DEFINE f == [part EXCEPT ![v] = to]
<1>1. part' = f /\ hg' = hg /\ lists' = QG!Appended(lists, f, v, part[v], to)
  BY DEF QG!ChangeNodePart
<1> SUFFICES ASSUME NEW p \in QG!Pairs, NEW e \in hg'.edges, \A b \in p : QG!PinsOf(part, e, b)' # {}
             PROVE  lists'[p][e] > 0
  BY DEF QG!CutListsComplete
<1>2. e \in QG!CutNets(f, p)
  BY <1>1
<1>3. e \in hg.edges /\ e \in Hyperedge /\ lists[p][e] \in Nat
  BY <1>1 DEF QG!TypeOK, QG!Incident
<1>4. QG!Appended(lists, f, v, part[v], to)[p][e] >= lists[p][e]
  BY <1>3 DEF QG!Appended
<1>5. CASE e \in QG!CutNets(part, p)
  <2>1. lists[p][e] > 0
    BY <1>5 DEF QG!CutListsComplete
  <2>2. QG!Appended(lists, f, v, part[v], to)[p][e] \in Nat
    BY <1>3 DEF QG!Appended
  <2> QED
    BY <1>1, <1>3, <1>4, <2>1, <2>2
<1>6. CASE e \notin QG!CutNets(part, p)
  <2>1. PICK b \in p : QG!PinsOf(part, e, b) = {} /\ QG!PinsOf(f, e, b) # {}
    BY <1>3, <1>6, <1>2
  <2>2. v \in hg.pins[e] /\ b = to /\ e \in hg.nets[v]
    BY <1>3, <2>1 DEF QG!TypeOK, QG!Incident
  <2>3. Cardinality(QG!PinsOf(f, e, to)) = 1
    BY <1>3, <2>1, <2>2, FirstPin
  <2>4. PICK c \in QG!BlocksOf(f, e) \ {to} : p = {c, to}
    <3>1. PICK c \in p : c # to /\ p = {c, to}
      BY <2>2
    <3>2. c \in QG!BlocksOf(f, e)
      BY <1>2, <3>1
    <3> QED
      BY <3>1, <3>2
  <2>5. QG!Appended(lists, f, v, part[v], to)[p][e] = lists[p][e] + 1
    BY <1>3, <2>2, <2>3, <2>4, SameCardinality DEF QG!Appended
  <2> QED
    BY <1>1, <1>3, <2>5
<1> QED
  BY <1>5, <1>6

\* The lists of the scheduler: no net that connects two blocks is ever missing
\* in their list, although changeNodePart looks only at nets that got their
\* first pin in a block and at no net that lost its last one.
THEOREM ListsStayComplete == QG!Spec => []QG!CutListsComplete
<1>1. QG!Init => QG!CutListsComplete
  <2> SUFFICES ASSUME QG!Init, NEW p \in QG!Pairs, NEW e \in QG!CutNets(part, p) PROVE lists[p][e] > 0
    BY DEF QG!CutListsComplete
  <2>1. e \in Hyperedge
    BY DEF QG!Init, QG!Incident
  <2> QED
    BY <2>1 DEF QG!Init, QG!Built
<1>2. QG!TypeOK /\ QG!CutListsComplete /\ [QG!Next]_(QG!vars) => QG!CutListsComplete'
  <2> SUFFICES ASSUME QG!TypeOK, QG!CutListsComplete, [QG!Next]_(QG!vars) PROVE QG!CutListsComplete'
    OBVIOUS
  <2>1. ASSUME NEW v \in Hypernode, NEW to \in Block, QG!ChangeNodePart(v, to) PROVE QG!CutListsComplete'
    BY <2>1, MoveKeepsComplete
  <2>2. ASSUME NEW q \in QG!Pairs, QG!BlockPairCutHyperedges(q) PROVE QG!CutListsComplete'
    <3> SUFFICES ASSUME NEW p \in QG!Pairs, NEW e \in QG!CutNets(part, p) PROVE lists'[p][e] > 0
      BY <2>2 DEF QG!BlockPairCutHyperedges, QG!CutListsComplete
    <3>1. e \in Hyperedge /\ lists[p][e] > 0
      BY DEF QG!TypeOK, QG!Incident, QG!CutListsComplete
    <3> QED
      BY <2>2, <3>1 DEF QG!BlockPairCutHyperedges, QG!Updated, QG!TypeOK
  <2>3. CASE UNCHANGED QG!vars
    BY <2>3 DEF QG!CutListsComplete, QG!vars
  <2> QED
    BY <2>1, <2>2, <2>3 DEF QG!Next
<1> QED
  BY <1>1, <1>2, ListsTyped, PTL DEF QG!Spec

\* The assertion of blockPairCutHyperedges: what an access hands out is exact,
\* duplicates and entries that have become wrong are gone, nothing is missing.
THEOREM ExposedListsExact == QG!Spec => QG!ListHandedOutExact
<1>1. QG!TypeOK /\ QG!CutListsComplete =>
        \A p \in QG!Pairs :
          QG!BlockPairCutHyperedges(p) =>
            \A e \in Hyperedge : lists'[p][e] = IF e \in QG!CutNets(part, p) THEN 1 ELSE 0
  <2> SUFFICES ASSUME QG!TypeOK, QG!CutListsComplete, NEW p \in QG!Pairs, QG!BlockPairCutHyperedges(p),
                      NEW e \in Hyperedge
               PROVE  lists'[p][e] = IF e \in QG!CutNets(part, p) THEN 1 ELSE 0
    OBVIOUS
  <2>1. lists'[p][e] = IF e \in QG!CutNets(part, p) /\ lists[p][e] > 0 THEN 1 ELSE 0
    BY DEF QG!BlockPairCutHyperedges, QG!Updated, QG!TypeOK
  <2>2. e \in QG!CutNets(part, p) => lists[p][e] > 0
    BY DEF QG!CutListsComplete
  <2> QED
    BY <2>1, <2>2
<1> QED
  BY <1>1, ListsTyped, ListsStayComplete, PTL DEF QG!ListHandedOutExact
=============================================================================
