------------------------------- MODULE Pipeline -------------------------------
(***************************************************************************)
(* Partitioner::partition (kahypar/partition/partitioner.h) and two of the *)
(* drivers around it: one call, or repeated calls until the time is over   *)
(* (performTimeLimitedRepeatedPartitioning of partitioner_facade.h).  The  *)
(* third one is module Evolution.                                          *)
(*                                                                         *)
(* Everything that is taken out of the hypergraph or merged in it before   *)
(* it is partitioned has to be put back before anyone looks at the result, *)
(* and the same object is partitioned again and again.  What lies between, *)
(* the partitioning proper, is any complete partition that respects the    *)
(* fixed vertices it is told of.                                           *)
(***************************************************************************)
EXTENDS Preprocessing

CONSTANTS Inputs,          \* hypergraphs with a configuration
          MaxQuality,      \* the largest HyperedgeWeight: the quality while there is no solution
          MaxIterations    \* bound: partitionings before the time is over

\* Vectors of the input, and which of the drivers is called: one of them.
ASSUME InputsAssumption ==
  /\ IsFiniteSet(Hypernode) /\ Hypernode \subseteq Nat
  /\ IsFiniteSet(Hyperedge) /\ Hyperedge \subseteq Nat
  /\ \A i \in Inputs :
       /\ i.pins \in [Hyperedge -> SUBSET Hypernode] /\ i.netWeight \in [Hyperedge -> Nat]
       /\ i.weight \in [Hypernode -> Nat]
       /\ i.k \in Nat \ {0}
       /\ ~ (i.repeated /\ i.evolutionary)

\* No objective exceeds its type, even if every pin were in a block of its own.
ASSUME QualityAssumption ==
  /\ MaxQuality \in Nat
  /\ \A i \in Inputs : SumFunction([e \in Hyperedge |-> i.netWeight[e] * Cardinality(i.pins[e])]) < MaxQuality

VARIABLES input,
          part,          \* the partition of the hypergraph
          pc,            \* the next step of Partitioner::partition
          removed,       \* the lists of the deduplicator and of the removers
          lsh,           \* the clusters of the sparsifier
          sparsify,      \* min_hash_sparsifier.is_active
          weighting,     \* community_detection.edge_weight
          communities,   \* context.evolutionary.communities: what they are communities of
          partitioned,   \* what partition::partition was given, its partition and communities
          best,          \* best_solution with its quality, and all results, for the properties
          iteration,
          action         \* context.evolutionary.action, with the parents

vars == <<hg, edgeWeight, log, input, part, pc, removed, lsh, sparsify, weighting, communities, partitioned,
          best, iteration, action>>
inputVars == <<log, input, action>>
runVars == <<inputVars, best, iteration>>
partitionVars == <<part, partitioned, communities>>

None == [none |-> TRUE]
NoPart == [v \in Hypernode |-> Unassigned]
Blocks == 0 .. input.k - 1

\* The structure an input is read into.
Read(i) ==
  [nodes |-> Hypernode, edges |-> Hyperedge, pins |-> i.pins,
   cutOff |-> [e \in Hyperedge |-> << >>],
   nets |-> [v \in Hypernode |-> {e \in Hyperedge : v \in i.pins[e]}],
   weight |-> i.weight,
   numPins |-> SumFunction([e \in Hyperedge |-> Cardinality(i.pins[e])])]

\* A partition from nothing: EvoDecision::normal.
Normal == [decision |-> "normal", parents |-> << >>]

Original == AsHypergraph(Read(input), input.netWeight, input.fixed)
Current == AsHypergraph(hg, edgeWeight, input.fixed)

\* Twice the median of the net sizes.
DoubledMedian(s) ==
  LET sizes == SortSeq([i \in 1 .. Cardinality(s.edges) |-> Cardinality(s.pins[Ascending(s.edges)[i]])], <)
      n == Len(sizes)
  IN  sizes[(n + 1) \div 2] + sizes[(n + 2) \div 2]

\* A net is large if it has more pins than this: setupContext.
MaxSizeThreshold == Max({Cardinality(Hypernode) * input.largeFactor, input.smallestThreshold})

\* hybrid: by the density of the hypergraph.
EdgeWeighting(s) ==
  IF 4 * Cardinality(Hyperedge) < 3 * Cardinality(Hypernode) THEN "degree"
  ELSE IF /\ Cardinality(Hyperedge) < 2 * Cardinality(Hypernode)
          /\ \E e \in s.edges : Cardinality(s.pins[e]) > input.largeForCommunities
       THEN "non_uniform" ELSE "uniform"

Init ==
  /\ input \in Inputs
  /\ hg = Read(input) /\ edgeWeight = input.netWeight /\ log = << >>
  \* setupVcycleRefinement: a partition of the input to improve
  /\ part = input.part
  /\ pc = "configure"
  /\ removed = [identical |-> << >>, parallel |-> << >>, single |-> << >>, large |-> << >>]
  /\ lsh = None /\ sparsify = FALSE /\ weighting = "hybrid"
  /\ communities = None /\ partitioned = None
  /\ best = [part |-> [v \in Hypernode |-> 0], quality |-> MaxQuality, imbalance |-> MaxQuality, all |-> {}]
  /\ iteration = 0 /\ action = Normal

\* configurePreprocessing and setupContext.  In the evolutionary algorithm, whose
\* individuals are made by calls of partition, only those that are made from
\* nothing may use the sparsifier.
Configure ==
  /\ pc = "configure"
  /\ sparsify' = (/\ action.decision = "normal"
                   /\ input.sparsifier /\ input.part = NoPart
                   /\ DoubledMedian(hg) >= 2 * input.minMedian)
  /\ weighting' = IF input.detect /\ weighting = "hybrid" THEN EdgeWeighting(hg) ELSE weighting
  /\ pc' = IF input.deduplicate THEN "identical" ELSE "single"
  /\ UNCHANGED <<runVars, partitionVars, hg, edgeWeight, removed, lsh>>

RemoveIdenticalVertices ==
  /\ pc = "identical" /\ pc' = "parallel"
  /\ removed' = [removed EXCEPT !.identical = IdenticalNodes(hg)]
  /\ hg' = ContractAll(hg, removed'.identical)
  /\ UNCHANGED <<runVars, partitionVars, edgeWeight, lsh, sparsify, weighting>>

RemoveParallelHyperedges ==
  /\ pc = "parallel" /\ pc' = "single"
  /\ removed' = [removed EXCEPT !.parallel = ParallelNets(hg)]
  /\ edgeWeight' = MergeWeights(edgeWeight, removed'.parallel)
  /\ hg' = RemoveAll(hg, [i \in DOMAIN removed'.parallel |-> removed'.parallel[i][2]])
  /\ UNCHANGED <<runVars, partitionVars, lsh, sparsify, weighting>>

RemoveSingleNodeHyperedges ==
  /\ pc = "single" /\ pc' = "large"
  /\ removed' = [removed EXCEPT !.single = @ \o SingleNodeNets(hg)]
  /\ hg' = RemoveAll(hg, SingleNodeNets(hg))
  /\ UNCHANGED <<runVars, partitionVars, edgeWeight, lsh, sparsify, weighting>>

RemoveLargeHyperedges ==
  /\ pc = "large"
  /\ removed' = [removed EXCEPT !.large = LargeNets(hg, MaxSizeThreshold)]
  /\ hg' = RemoveAll(hg, removed'.large)
  /\ pc' = IF sparsify THEN "sparsify" ELSE "partition"
  /\ lsh' = IF sparsify THEN NoClusters(hg, input.fixed) ELSE lsh
  /\ UNCHANGED <<runVars, partitionVars, edgeWeight, sparsify, weighting>>

\* One more hash function of the sparsifier.
SparsifyRound ==
  /\ pc = "sparsify" /\ Goes(lsh, hg, input.fixed)
  /\ \E bucket \in Hashes(hg) : lsh' = Round(lsh, hg, input.fixed, bucket)
  /\ UNCHANGED <<runVars, partitionVars, hg, edgeWeight, pc, removed, sparsify, weighting>>

\* preprocess: communities are computed once and used again, but for a sparsified
\* hypergraph.
Communities(h) == IF communities = None \/ sparsify THEN [of |-> h, weighting |-> weighting] ELSE communities

\* What local search makes of the partition p of h, see SearchNeverWorse of module
\* TwoWayFM: of one within the weight limit no worse one, of another one any.
Within(h, p) == \A b \in Blocks : BlockWeight(h, p, b) <= input.maxPart
Searched(h, p, all) ==
  IF Within(h, p) THEN {q \in all : Within(h, q) /\ Objective(h, q, input.objective) <= Objective(h, p, input.objective)}
                  ELSE all

\* The parent that a combination starts from on the coarsest hypergraph, where both
\* parents have the objective they have on h: only hypernodes that are together in
\* both are contracted.
BetterParent(h, parents) ==
  IF Objective(h, parents[1], input.objective) < Objective(h, parents[2], input.objective) THEN parents[1] ELSE parents[2]

\* The result of partition::partition for the hypergraph h: with a partition to
\* start from V-cycles only, otherwise also an initial partition.  Without any
\* assigned hypernode there is no border, and V-cycles move nothing.  A mutation by
\* a V-cycle improves an individual, a combination one of the parents.
Results(h, start) ==
  LET complete == {p \in [NodesOf(h) -> Blocks] : \A v \in FixedVertices(h) : p[v] = h.fixed[v]}
      on(p) == [v \in NodesOf(h) |-> p[v]]
  IN  IF input.part # NoPart /\ (\A v \in NodesOf(h) : start[v] = Unassigned) THEN {on(NoPart)}
      ELSE CASE action.decision = "vcycle"  -> Searched(h, on(start), complete)
             [] action.decision = "combine" -> Searched(h, on(BetterParent(h, action.parents)), complete)
             [] OTHER -> complete

\* (The variant does not forget the communities of a sparsified hypergraph.)
CommunitiesKept(used) == used
CommunitiesAfter(used) == IF sparsify THEN None ELSE used

\* preprocess, partition::partition and, for a sparsified hypergraph, applyPartition.
\* In recursive bisection communities are detected for each bisection instead.
Partition ==
  /\ pc = "partition" \/ (pc = "sparsify" /\ ~ Goes(lsh, hg, input.fixed))
  /\ \E found \in IF sparsify THEN {{}, hg.edges} ELSE {{}} :
       LET cluster == IF sparsify THEN Renumbered(lsh.cluster) ELSE [v \in hg.nodes |-> v]
           h == IF sparsify THEN Sparsified(Current, cluster, found) ELSE Current
           used == IF input.detect /\ input.mode = "direct_kway" THEN Communities(h) ELSE communities
       IN  \E p \in Results(h, part) :
             /\ partitioned' = [h |-> h, part |-> p, communities |-> used]
             /\ communities' = CommunitiesAfter(used)
             /\ part' = [v \in Hypernode |-> IF v \in hg.nodes THEN p[cluster[v]] ELSE part[v]]
  /\ pc' = "restore_single"
  /\ UNCHANGED <<runVars, hg, edgeWeight, removed, lsh, sparsify, weighting>>

\* postprocess
RestoreSingleNodeHyperedges ==
  /\ pc = "restore_single" /\ pc' = "restore_large"
  /\ hg' = RestoreAll(hg, Reverse(removed.single))
  /\ removed' = [removed EXCEPT !.single = << >>]
  /\ UNCHANGED <<runVars, partitionVars, edgeWeight, lsh, sparsify, weighting>>

RestoreLargeHyperedges ==
  /\ pc = "restore_large"
  /\ hg' = RestoreAll(hg, removed.large)
  /\ pc' = "restore_parallel"
  /\ UNCHANGED <<runVars, partitionVars, edgeWeight, removed, lsh, sparsify, weighting>>

\* restoreRedundancy.  Its lists are not cleared: without deduplication they are
\* empty.
RestoreParallelHyperedges ==
  /\ pc = "restore_parallel" /\ pc' = "restore_identical"
  /\ hg' = RestoreAll(hg, [i \in DOMAIN removed.parallel |-> Reverse(removed.parallel)[i][2]])
  /\ edgeWeight' = SplitWeights(edgeWeight, Reverse(removed.parallel))
  /\ UNCHANGED <<runVars, partitionVars, removed, lsh, sparsify, weighting>>

\* (The variant undoes the contractions in the order they were made.)
UndoOrderForward(pairs) == pairs
UndoOrder(pairs) == Reverse(pairs)

RestoreIdenticalVertices ==
  /\ pc = "restore_identical" /\ pc' = "partitioned"
  /\ hg' = UncontractAll(hg, UndoOrder(removed.identical))
  /\ part' = InheritAll(part, UndoOrder(removed.identical))
  /\ UNCHANGED <<runVars, edgeWeight, removed, lsh, sparsify, weighting, communities, partitioned>>

\* A single call of the partitioner.
FinishSingle ==
  /\ pc = "partitioned" /\ ~ input.repeated /\ ~ input.evolutionary
  /\ pc' = "done"
  /\ UNCHANGED <<runVars, partitionVars, hg, edgeWeight, removed, lsh, sparsify, weighting>>

\* The weight of the heaviest block stands for the imbalance.
Quality(p) == Objective(Original, p, input.objective)
Imbalance(p) == Max({BlockWeight(Original, p, b) : b \in Blocks})

Improves(quality, imbalance) ==
  \/ quality < best.quality
  \/ quality = best.quality /\ imbalance < best.imbalance

\* The time is not over after the first partitioning; then it may be any time.
Repeat ==
  /\ pc = "partitioned" /\ input.repeated
  /\ LET q == Quality(part)
         i == Imbalance(part)
         all == best.all \cup {<< q, i >>}
     IN  best' = IF Improves(q, i) THEN [part |-> part, quality |-> q, imbalance |-> i, all |-> all]
                 ELSE [best EXCEPT !.all = all]
  /\ iteration' = iteration + 1
  /\ \/ iteration' < MaxIterations /\ pc' = "configure" /\ part' = NoPart
     \/ pc' = "done" /\ part' = best'.part
  /\ UNCHANGED <<inputVars, hg, edgeWeight, removed, lsh, sparsify, weighting, communities, partitioned>>

Next == \/ Configure
        \/ RemoveIdenticalVertices
        \/ RemoveParallelHyperedges
        \/ RemoveSingleNodeHyperedges
        \/ RemoveLargeHyperedges
        \/ SparsifyRound
        \/ Partition
        \/ RestoreSingleNodeHyperedges
        \/ RestoreLargeHyperedges
        \/ RestoreParallelHyperedges
        \/ RestoreIdenticalVertices
        \/ FinishSingle
        \/ Repeat

Spec == Init /\ [][Next]_vars
-----------------------------------------------------------------------------
\* After each partitioning the hypergraph is the input again: incidences, weights
\* of vertices and nets, and no slot left behind the pins of a net.
InputRestored == pc \in {"partitioned", "done"} => hg = Read(input) /\ edgeWeight = input.netWeight

\* What was optimized is what is delivered: up to the large nets that were put
\* aside, the result has the objective of the partition of the reduced hypergraph,
\* and every block has the weight it had there.
ResultProjected ==
  pc = "partitioned" =>
    LET aside == [Original EXCEPT !.pins = [e \in ToSet(removed.large) |-> input.pins[e]],
                                  !.netWeight = [e \in ToSet(removed.large) |->
                                     input.netWeight[e] + SumFunctionOnSet(input.netWeight,
                                       {removed.parallel[i][2] : i \in {j \in DOMAIN removed.parallel : removed.parallel[j][1] = e}})]]
    IN  /\ Quality(part) = Objective(partitioned.h, partitioned.part, input.objective)
                           + Objective(aside, part, input.objective)
        /\ \A b \in Blocks : BlockWeight(Original, part, b) = BlockWeight(partitioned.h, partitioned.part, b)

\* Coarsening is guided by communities of the very hypergraph that is coarsened,
\* also when they are taken over from an earlier call.
CommunitiesFit ==
  pc = "restore_single" /\ partitioned.communities # None /\ input.mode = "direct_kway"
    => partitioned.communities.of = partitioned.h

\* Fixed vertices are in their blocks when partition returns: the assertion at its
\* end.  Deduplication does not look at fixed vertices, so this is stated for the
\* configurations without it.
FixedVerticesAssigned == pc = "partitioned" => \A v \in Hypernode : input.fixed[v] \in {Unassigned, part[v]}
FixedUnlessDeduplicated == ~ input.deduplicate => FixedVerticesAssigned

=============================================================================
