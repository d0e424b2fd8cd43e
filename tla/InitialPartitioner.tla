------------------------- MODULE InitialPartitioner -------------------------
(***************************************************************************)
(* What all initial partitioners share                                     *)
(* (kahypar/partition/initial_partitioning/initial_partitioner_base.h and  *)
(* the selection of start nodes): the assignment of hypernodes within the  *)
(* allowed weights, the list of hypernodes that may still be unassigned,   *)
(* and the choice of the best of several runs.                             *)
(*                                                                         *)
(* Randomness is a choice: a shuffle may give any order, a random pick any *)
(* element.  Two-way and k-way FM, which end a run, are modelled by what   *)
(* they promise: a partition no worse, with the fixed vertices in place.   *)
(***************************************************************************)
EXTENDS Extraction, BinPacking

CONSTANTS Inputs,          \* the inputs, records as in MCInitialPartitioning
          EpsNum, EpsDen   \* context.partition.epsilon

ASSUME EpsAssumption == EpsNum \in Nat \ {0} /\ EpsDen \in Nat \ {0}

VARIABLES input,     \* the hypergraph to partition, and the configuration
          hg,        \* init_hg, the same without its disabled hypernodes and nets
          mapping,   \* from its hypernodes to those of the input
          part,      \* the partition of init_hg
          nodes,     \* _unassigned_nodes: the list, and how much of it is in use
          upper,     \* upper_allowed_partition_weight
          alg,       \* the algorithm at work: its phase, its unassigned part, its data
          runs,      \* the algorithms to run, the runs left, the best partitions
          result     \* the partition of the input

vars == <<input, hg, mapping, part, nodes, upper, alg, runs, result>>
setting == <<input, hg, mapping, result>>

Blocks == 0 .. input.k - 1
IsFixed(v) == hg.fixed[v] # Unassigned
Weight(p, b) == BlockWeight(hg, p, b)
Small(e) == Cardinality(hg.pins[e]) <= input.threshold
NetsOf(v) == {e \in EdgesOf(hg) : v \in hg.pins[e]}
PinCount(p, e, b) == Cardinality(PinsIn(hg, p, e, b))
Connectivity(p, e) == Cardinality(ConnectivitySet(hg, p, e))

\* recalculateBalanceConstraints
Bounds(num) ==
  [b \in Blocks |-> IF input.individual THEN input.perfect[b] ELSE (input.perfect[b] * (EpsDen + num)) \div EpsDen]

\* resetPartitioning, with the part u that the algorithm counts as unassigned
ResetPart(u) == [v \in NodesOf(hg) |-> IF IsFixed(v) THEN hg.fixed[v] ELSE u]
Shuffled == {[list |-> o, bound |-> Len(o)] : o \in SetToSeqs(NodesOf(hg))}

\* (The variant takes the part for -1, whatever the algorithm uses.)
IsUnassignedAnyway(p, v, u) == p[v] = Unassigned /\ ~ IsFixed(v)
IsUnassigned(p, v, u) == p[v] = u /\ ~ IsFixed(v)

\* getUnassignedNode: the head of the list (0: none), when the hypernodes that
\* are assigned have been swapped behind the bound.
Pruned(list, p, u) ==
  FoldLeft(LAMBDA s, i : IF s.bound = 0 \/ IsUnassigned(p, s.list[1], u) THEN s
                         ELSE [list |-> [s.list EXCEPT ![1] = s.list[s.bound], ![s.bound] = s.list[1]],
                               bound |-> s.bound - 1],
           list, [i \in 1 .. list.bound |-> i])
UnassignedNode(list, p, u) ==
  LET s == Pruned(list, p, u) IN IF s.bound = 0 THEN 0 ELSE s.list[1]

\* Whether assignHypernodeToPartition assigns.
Assignable(p, v, b) ==
  /\ Weight(p, b) + hg.weight[v] <= upper[b]
  /\ p[v] = Unassigned \/ (p[v] # b /\ Cardinality({w \in NodesOf(hg) : p[w] = p[v]}) > 1)
-----------------------------------------------------------------------------
(***************************************************************************)
(* BFSStartNodeSelectionPolicy: a block without start node gets one that   *)
(* is far from those of the blocks before it.                              *)
(***************************************************************************)

\* Breadth-first search: the last hypernode visited, or any that was not reached.
Furthest(starts) ==
  LET visit(s, i) ==
        IF s.queue = << >> THEN s
        ELSE LET v == Head(s.queue)
                 nets == Ascending({e \in NetsOf(v) \ s.nets : Small(e)})
                 push(q, e) == q \o SelectSeq(Ascending(hg.pins[e]), LAMBDA w : w \notin Range(q) \cup s.seen)
                 queue == FoldLeft(push, Tail(s.queue), nets)
             IN  [queue |-> queue, seen |-> s.seen \cup Range(queue), nets |-> s.nets \cup NetsOf(v), last |-> v]
      all == FoldLeft(visit, [queue |-> starts, seen |-> Range(starts), nets |-> {}, last |-> 0],
                      [i \in 1 .. Cardinality(NodesOf(hg)) |-> i])
  IN  IF all.seen = NodesOf(hg) THEN {all.last} ELSE NodesOf(hg) \ all.seen

\* The start nodes that calculateStartNodes may choose, beginning with the fixed
\* vertices of each block.
StartNodes ==
  LET fixed == [b \in Blocks |-> Ascending({v \in NodesOf(hg) : hg.fixed[v] = b})]
      begin == IF \E b \in Blocks : fixed[b] # << >> THEN {fixed}
               ELSE {[fixed EXCEPT ![0] = << v >>] : v \in NodesOf(hg)}
      chain(s) == FoldLeft(LAMBDA q, b : q \o s[b - 1], << >>, [b \in 1 .. input.k |-> b])
      fill(S, b) == UNION {IF s[b - 1] # << >> THEN {s}
                           ELSE {[s EXCEPT ![b - 1] = << v >>] : v \in Furthest(chain(s))} : s \in S}
  IN  FoldLeft(fill, begin, [b \in 1 .. input.k |-> b])
-----------------------------------------------------------------------------
(***************************************************************************)
(* Runs.                                                                   *)
(***************************************************************************)
Quality(p) == Objective(hg, p, input.objective)

\* metrics::imbalance: the largest ratio of a block's weight to its perfect
\* weight, times the product of those
Perfects == FoldFunction(LAMBDA x, y : x * y, 1, input.perfect)
Imbalance(p) == Max({(Weight(p, b) * Perfects) \div input.perfect[b] : b \in Blocks})
IsFeasible(imbalance) == imbalance * EpsDen <= (EpsDen + EpsNum) * Perfects

\* Whether multipleRunsInitialPartitioning and the pool prefer the new result.
\* (The variant does not ask whether the best is feasible.)
PrefersAnyFeasible(q, imbalance, best) ==
  \/ best = << >>
  \/ q < best.quality /\ (IsFeasible(imbalance) \/ imbalance < best.imbalance)
  \/ q = best.quality /\ imbalance < best.imbalance
  \/ IsFeasible(imbalance)

Prefers(q, imbalance, best) ==
  \/ best = << >>
  \/ q < best.quality /\ (IsFeasible(imbalance) \/ imbalance < best.imbalance)
  \/ q = best.quality /\ imbalance < best.imbalance
  \/ IsFeasible(imbalance) /\ ~ IsFeasible(best.imbalance)

Best(best) ==
  IF Prefers(Quality(part), Imbalance(part), best)
  THEN [quality |-> Quality(part), imbalance |-> Imbalance(part), part |-> part] ELSE best

Idle(phase) == [phase |-> phase, unassigned |-> 1]
NoList == [list |-> << >>, bound |-> 0]
Starts(algorithm) == alg.phase = "start" /\ Head(runs.todo) = algorithm

\* The hypernodes that performFMRefinement hands to the refiner.
Refinable(p) == {v \in NodesOf(hg) : ~ IsFixed(v) /\ \E e \in NetsOf(v) : Connectivity(p, e) > 1}

\* performFMRefinement
Refine ==
  /\ alg.phase = "refine"
  /\ \E q \in [NodesOf(hg) -> Blocks] :
       /\ \A v \in NodesOf(hg) : IsFixed(v) => q[v] = part[v]
       /\ Quality(q) <= Quality(part)
       /\ q # part => /\ input.refines /\ Cardinality(Refinable(part)) >= 2
                      /\ \A b \in Blocks : Weight(q, b) <= Max({Weight(part, b), upper[b] + Largest(hg.weight)})
       /\ part' = q
  /\ alg' = Idle("select")
  /\ nodes' = NoList
  /\ UNCHANGED <<setting, upper, runs>>

\* The end of a run; after the last, the best partition is restored.
SelectBest ==
  /\ alg.phase = "select"
  /\ LET best == Best(runs.best)
         over == runs.left = 1
     IN  /\ runs' = [runs EXCEPT !.best = best, !.left = @ - 1,
                                 !.produced = @ \cup {<<Quality(part), Imbalance(part)>>}]
         /\ part' = IF over THEN best.part ELSE part
         /\ alg' = Idle(IF ~ over THEN "start" ELSE IF input.pool THEN "pool" ELSE "partitioned")
  /\ UNCHANGED <<setting, nodes, upper>>

\* The pool compares the result of an algorithm with those before it.
PoolSelect ==
  /\ alg.phase = "pool"
  /\ LET best == Best(runs.poolBest)
         over == Len(runs.todo) = 1
     IN  /\ runs' = [runs EXCEPT !.poolBest = best, !.todo = Tail(@), !.best = << >>, !.left = input.nruns]
         /\ part' = IF over THEN [v \in NodesOf(hg) |-> IF IsFixed(v) THEN hg.fixed[v] ELSE best.part[v]] ELSE part
         /\ alg' = Idle(IF over THEN "partitioned" ELSE "start")
  /\ UNCHANGED <<setting, nodes, upper>>
=============================================================================
