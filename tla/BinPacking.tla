----------------------------- MODULE BinPacking -----------------------------
(***************************************************************************)
(* Bin packing (kahypar/partition/bin_packing): the packers WorstFit and   *)
(* FirstFit, the packer of two levels that packs bins into the blocks of a *)
(* bisection, and the prepacking of heavy hypernodes that is meant to make *)
(* every balanced bisection one whose blocks can be partitioned further.   *)
(*                                                                         *)
(* A packer is a record: the weights of its bins 1 .. n, the locked bins,  *)
(* its maximum weight, and the algorithm.  Where the order of a sort or of *)
(* a heap is open between elements of equal weight, the lower index comes  *)
(* first.  A record `ctx` holds the fields of the Context that are read:   *)
(*   bins       num_bins_per_part                                          *)
(*   perfect    perfect_balance_partition_weight                           *)
(*   upper      upper_allowed_partition_weight                             *)
(*   maxBin     max_allowed_bin_weight                                     *)
(*   individual use_individual_part_weights                                *)
(*   maxBins    max_bins_for_individual_part_weights                       *)
(*   currentBin current_max_bin_weight                                     *)
(***************************************************************************)
EXTENDS Integers, FiniteSets, SequencesExt

CONSTANTS Algorithm     \* "worst_fit" or "first_fit"
ASSUME AlgorithmAssumption == Algorithm \in {"worst_fit", "first_fit"}

Sum(s) == SumFunction(s)
Largest(s) == Max(Range(s))

-----------------------------------------------------------------------------
(***************************************************************************)
(* The packers.                                                            *)
(***************************************************************************)
Packer(n, max) == [weight |-> [b \in 1 .. n |-> 0], locked |-> {}, max |-> max]
NumBins(p) == Len(p.weight)
AddWeight(p, b, w) == [p EXCEPT !.weight[b] = @ + w]
LockBin(p, b) == [p EXCEPT !.locked = @ \cup {b}]

\* The unlocked bin of the lowest weight.
LightestBin(p) ==
  LET open == (1 .. NumBins(p)) \ p.locked
  IN  CHOOSE b \in open : \A c \in open : p.weight[b] < p.weight[c] \/ (p.weight[b] = p.weight[c] /\ b <= c)

\* The first bin that an element of weight w fits into, or else the lightest.
FirstFittingBin(p, w) ==
  LET fitting == {b \in (1 .. NumBins(p)) \ p.locked : p.weight[b] + w <= p.max}
  IN  IF fitting = {} THEN LightestBin(p) ELSE Min(fitting)

\* insertElement: the bin that takes the element
BinFor(p, w) == IF Algorithm = "worst_fit" THEN LightestBin(p) ELSE FirstFittingBin(p, w)
Inserted(p, w) == AddWeight(p, BinFor(p, w), w)

\* nodesInDescendingWeightOrder
Descending(weight) ==
  LET notAfter(v) == {u \in DOMAIN weight : weight[u] > weight[v] \/ (weight[u] = weight[v] /\ u <= v)}
  IN  [i \in DOMAIN weight |-> CHOOSE v \in DOMAIN weight : Cardinality(notAfter(v)) = i]

\* A packer whose bins are filled up to different capacities.
FilledPacker(capacities, max) ==
  [Packer(Len(capacities), max) EXCEPT !.weight = [b \in DOMAIN capacities |-> max - capacities[b]]]

\* currentBinImbalance: by how much the fullest bin exceeds the largest capacity
CurrentBinImbalance(weight, capacities) ==
  LET max == Largest(capacities)
      packed == FoldLeft(LAMBDA p, v : Inserted(p, weight[v]), FilledPacker(capacities, max), Descending(weight))
  IN  Max({0, Largest(packed.weight) - max})

\* The bins of block i of a bisection among those of both.
BinRange(bins, i) == IF i = 1 THEN 1 .. bins[1] ELSE bins[1] + 1 .. bins[1] + bins[2]
PartOfBin(bins, b) == IF b <= bins[1] THEN 1 ELSE 2

\* partitionIsDeeplyBalanced: the hypernodes of each block fit into its bins.
DeeplyBalanced(weight, part, bins, capacities) ==
  LET max == Largest(capacities)
      Fits(i) ==
        LET own == SelectSeq(Descending(weight), LAMBDA v : part[v] = i)
            empty == FilledPacker([b \in 1 .. bins[i] |-> capacities[b + IF i = 1 THEN 0 ELSE bins[1]]], max)
            packed == FoldLeft(LAMBDA p, v : Inserted(p, weight[v]), empty, own)
            \* insertElement never lowers a weight: a bin that was too full stays so
            used == {b \in 1 .. bins[i] : packed.weight[b] > empty.weight[b]}
        IN  \A b \in used : packed.weight[b] <= max
  IN  \A i \in 1 .. Len(bins) : Fits(i)
-----------------------------------------------------------------------------
(***************************************************************************)
(* The second level: bins are packed into blocks.                          *)
(***************************************************************************)

\* applySecondLevel.  Bins with fixed vertices have a block in `mapping` (0: none)
\* already; for the others a block is locked when it got its number of bins.
SecondLevel(p, mapping, upper, bins) ==
  LET fixedWeight(i) == SumFunctionOnSet(p.weight, {b \in DOMAIN mapping : mapping[b] = i})
      start == [Packer(Len(upper), Largest(upper)) EXCEPT
                  !.weight = [i \in DOMAIN upper |-> Largest(upper) - upper[i] + fixedWeight(i)]]
      step(s, b) ==
        LET i == BinFor(s.blocks, p.weight[b])
            added == AddWeight(s.blocks, i, p.weight[b])
            full == s.count[i] + 1 >= bins[i]
        IN  [blocks |-> IF full THEN LockBin(added, i) ELSE added,
             count  |-> [s.count EXCEPT ![i] = @ + 1],
             part   |-> [s.part EXCEPT ![b] = i]]
      done == FoldLeft(step, [blocks |-> start, count |-> [i \in DOMAIN upper |-> 0], part |-> mapping],
                       SelectSeq(Descending(p.weight), LAMBDA b : mapping[b] = 0))
  IN  [part |-> done.part,
       weight |-> [i \in DOMAIN upper |-> done.blocks.weight[i] + upper[i] - Largest(upper)]]

\* secondLevelWithFixedBins
SecondLevelFixed(p, bins) ==
  [part |-> [b \in DOMAIN p.weight |-> PartOfBin(bins, b)],
   weight |-> [i \in 1 .. 2 |-> SumFunctionOnSet(p.weight, BinRange(bins, i))]]
NoBlocks(p) == [b \in DOMAIN p.weight |-> 0]

\* preassignFixedVertices: a fixed vertex goes to the first bin of its block
\* (blocks get equally many, up to rounding) that it fits into, or else to the
\* lightest of them.
FixedBin(p, i, w, average, perBlock) ==
  LET own == ((i - 1) * perBlock + 1) .. Min({i * perBlock, NumBins(p)})
      fitting == {b \in own : p.weight[b] + w <= average}
  IN  IF fitting # {} THEN Min(fitting)
      ELSE CHOOSE b \in own : \A c \in own : p.weight[b] < p.weight[c] \/ (p.weight[b] = p.weight[c] /\ b <= c)

\* twoLevelPacking: the block of every hypernode.  fixed[v] is its block, or 0.
TwoLevelPacking(weight, fixed, nodes, ctx, maxBins) ==
  LET n == Len(maxBins)
      average == (SumFunction(weight) + n - 1) \div n
      isFixed(v) == fixed[v] # 0
      preassign(s, v) ==
        LET b == FixedBin(s.packer, fixed[v], weight[v], average, (n + 1) \div 2)
        IN  [packer |-> AddWeight(s.packer, b, weight[v]), mapping |-> [s.mapping EXCEPT ![b] = fixed[v]],
             bin |-> [s.bin EXCEPT ![v] = b]]
      insert(s, v) ==
        LET b == BinFor(s.packer, weight[v])
        IN  [s EXCEPT !.packer = AddWeight(@, b, weight[v]), !.bin[v] = b]
      empty == FilledPacker(maxBins, Largest(maxBins))
      first == FoldLeft(insert,
                        FoldLeft(preassign, [packer |-> empty, mapping |-> NoBlocks(empty), bin |-> fixed],
                                 SelectSeq(nodes, isFixed)),
                        SelectSeq(nodes, LAMBDA v : ~ isFixed(v)))
      second == IF ctx.individual THEN SecondLevelFixed(first.packer, ctx.bins)
                ELSE SecondLevel(first.packer, first.mapping, ctx.upper, ctx.bins)
  IN  [v \in DOMAIN weight |-> second.part[first.bin[v]]]
-----------------------------------------------------------------------------
(***************************************************************************)
(* The segment tree over the sequence w with suffix sums: the largest      *)
(* balance value of positions i .. j.                                      *)
(***************************************************************************)

\* balance_base: maxK times the weight at a position and the sum before it
Balance(w, maxK) == [t \in DOMAIN w |-> maxK * w[t] + SumFunctionOnSet(w, 1 .. t - 1)]

\* query_rec over [lo, hi] restricted to [i, j], with the midpoint of the code.
QueryMid(lo, hi) == (lo + hi) \div 2
Query(base, i, j) ==
  LET rec[lo \in DOMAIN base, hi \in DOMAIN base] ==
        LET m == QueryMid(lo, hi)
            left == lo <= j /\ m >= i
            right == m + 1 <= j /\ hi >= i
        IN  IF lo = hi THEN base[lo]
            ELSE IF left /\ right THEN Max({rec[lo, m], rec[m + 1, hi]})
            ELSE IF left THEN rec[lo, m]
            ELSE rec[m + 1, hi]
  IN  rec[1, Len(base)]
-----------------------------------------------------------------------------
(***************************************************************************)
(* Prepacking.  The result is the block (1 or 2) of every hypernode that   *)
(* becomes fixed, and 0 for the others.                                    *)
(***************************************************************************)

\* prepackingImpl: the most that each block may be given so that the bound of
\* the algorithm is of use
UpperOfBins(ctx, i) ==
  IF ctx.individual THEN SumFunctionOnSet(ctx.maxBins, BinRange(ctx.bins, i)) ELSE ctx.bins[i] * ctx.maxBin
Border(ctx, i) ==
  LET lower == ctx.perfect[i]
      upper == UpperOfBins(ctx, i)
      border == ctx.upper[i]
  IN  IF upper - border < (border - lower) \div 10 THEN (lower + upper) \div 2 ELSE border
AdjustedUpper(ctx) ==
  [i \in 1 .. 2 |-> Border(ctx, i)
                    + IF ctx.individual
                      THEN SumFunctionOnSet([b \in DOMAIN ctx.maxBins |-> ctx.maxBin - ctx.maxBins[b]], BinRange(ctx.bins, i))
                      ELSE 0]

\* getMaxPartIndex: of the blocks that are not validly full the one with the
\* least weight left
MaxPartIndex(upper, weight, bins, next, maxBin) ==
  LET left(i) == upper[i] - weight[i]
      skipped(i) == next > left(i) /\ (bins[i] - 1) * left(i) <= bins[i] * maxBin - upper[i]
  IN  IF skipped(1) THEN (IF skipped(2) THEN 1 ELSE 2)
      ELSE IF skipped(2) \/ left(1) <= left(2) THEN 1 ELSE 2

\* The test that ends the loop: whatever is added to the block up to its upper
\* weight, starting with the heaviest hypernode left, its bins can take it.
EnoughPacked(w, i, upper, second, bins, maxBin) ==
  LET b == MaxPartIndex(upper, second.weight, bins, w[i], maxBin)
      before(t) == SumFunctionOnSet(w, 1 .. t - 1)
      searched == before(i) + upper[b] - second.weight[b]
      later == {t \in i .. Len(w) : before(t) >= searched}
      j == IF later = {} THEN Len(w) + 1 ELSE Min(later)
  IN  /\ j > i
      /\ second.weight[b] + Query(Balance(w, Largest(bins)), i, j - 1) - before(i) <= bins[b] * maxBin

\* calculateExactPrepacking
ExactPrepacking(weight, ctx) ==
  LET nodes == Descending(weight)
      upper == AdjustedUpper(ctx)
      w == [t \in 1 .. Len(nodes) + 1 |-> IF t <= Len(nodes) THEN weight[nodes[t]] ELSE 0]
      n == Sum(ctx.bins)
      start == IF ctx.individual THEN FilledPacker(ctx.maxBins, ctx.maxBin) ELSE Packer(n, ctx.maxBin)
      step(s, i) ==
        IF s.done \/ EnoughPacked(w, i, upper, s.second, ctx.bins, ctx.maxBin)
        THEN [s EXCEPT !.done = TRUE]
        ELSE LET bin == BinFor(s.packer, w[i])
                 packer == AddWeight(s.packer, bin, w[i])
             IN  [done   |-> FALSE,
                  packer |-> packer,
                  bin    |-> Append(s.bin, bin),
                  second |-> IF ctx.individual THEN SecondLevelFixed(packer, ctx.bins)
                             ELSE SecondLevel(packer, NoBlocks(packer), upper, ctx.bins)]
      end == FoldLeft(step, [done |-> FALSE, packer |-> start, bin |-> << >>, second |-> SecondLevelFixed(start, ctx.bins)],
                      [i \in 1 .. Len(nodes) |-> i])
      position == [v \in DOMAIN weight |-> CHOOSE i \in DOMAIN nodes : nodes[i] = v]
  IN  [v \in DOMAIN weight |-> IF position[v] <= Len(end.bin) THEN end.second.part[end.bin[position[v]]] ELSE 0]

\* calculateHeuristicPrepacking: the heavy hypernodes, those up to the lightest
\* one that exceeds its share of the lighter ones by more than what is allowed,
\* are packed
HeuristicPrepacking(weight, ctx) ==
  LET nodes == Descending(weight)
      n == Sum(ctx.bins)
      from(i) == SumFunctionOnSet([t \in DOMAIN nodes |-> weight[nodes[t]]], i .. Len(nodes))
      heavy == {i \in DOMAIN nodes : weight[nodes[i]] - (from(i) \div n) > ctx.maxBin - ctx.currentBin}
      threshold == IF heavy = {} THEN 0 ELSE Max(heavy)
      start == IF ctx.individual THEN FilledPacker(ctx.maxBins, ctx.maxBin) ELSE Packer(n, ctx.maxBin)
      step(s, i) == LET bin == BinFor(s.packer, weight[nodes[i]])
                    IN  [packer |-> AddWeight(s.packer, bin, weight[nodes[i]]), bin |-> Append(s.bin, bin)]
      end == FoldLeft(step, [packer |-> start, bin |-> << >>], [i \in 1 .. threshold |-> i])
      second == IF ctx.individual THEN SecondLevelFixed(end.packer, ctx.bins)
                ELSE SecondLevel(end.packer, NoBlocks(end.packer), ctx.upper, ctx.bins)
      position == [v \in DOMAIN weight |-> CHOOSE i \in DOMAIN nodes : nodes[i] = v]
  IN  [v \in DOMAIN weight |-> IF position[v] <= threshold THEN second.part[end.bin[position[v]]] ELSE 0]

\* increaseBalancingRestrictions
NextLevel(level, heuristic) ==
  CASE level = "none" -> IF heuristic THEN "heuristic" ELSE "guaranteed"
    [] level = "heuristic" -> "guaranteed"
    [] level = "guaranteed" -> "STOP"

Prepacked(weight, ctx, level) ==
  CASE level = "none" -> [v \in DOMAIN weight |-> 0]
    [] level = "heuristic" -> HeuristicPrepacking(weight, ctx)
    [] level = "guaranteed" -> ExactPrepacking(weight, ctx)
=============================================================================
