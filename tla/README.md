# KaHyPar in TLA+

A verification project for KaHyPar, the n-level hypergraph partitioner: TLA+
modules translated from `src/kahypar`, TLC configurations that check them on
small instances, and theorems that TLAPS checks for every instance.

KaHyPar assigns the hypernodes of a hypergraph to `k` blocks of bounded weight
so that few (weighted) hyperedges, "nets" below, connect several blocks.  It
contracts the hypergraph one pair of hypernodes at a time, partitions the
smallest hypergraph, undoes the contractions one by one in reverse order, and
improves the partition by local search after each of them.  The program is
sequential.  What is hard in it is not concurrency but *incremental,
redundant state*: contraction forgets what it did and uncontraction infers it
from the data it left behind; pin counts, connectivity sets, border counters,
block weights, edge hashes and gain caches are never recomputed but corrected
by differences, over thousands of levels and through V-cycles; and a wrong
difference shows up, if ever, as a slightly worse partition.

## Components

State, operations, interaction, what is hard, and what makes it correct.

**Dynamic hypergraph** (`datastructure/hypergraph.h`).  One array of pins with
a stretch per net, a vector of incident nets per hypernode; blocks, pin
counts, connectivity, connectivity sets, cut counters, `PartInfo`; weights,
hashes, fixed vertices; activity states.  Operations: `contract`,
`uncontract`, `removeEdge`, `restoreEdge` (two forms), `setNodePart`,
`changeNodePart`, `resetPartitioning`, `initializeNumCutHyperedges`,
`resetEdgeHashes`, `restoreMemento`, `activate`/`mark`/`resetHypernodeState`,
extraction of subhypergraphs.  Everything below calls it.  Hard: the memento
of a contraction is only `(u, v)`; which nets `v` had, and in which form, is
read off the slot behind the last pin of each net, so undoing is only right in
exactly reverse order; a V-cycle contracts a *partitioned* hypergraph.
Correct when: pins and incident nets agree; undo restores the exact
structure; all incremental data equal what a recomputation gives.

**Coarsening and uncoarsening** (`partition/coarsening`).  Three coarseners: one
keeps all ratings current, one marks those that are outdated, one makes passes.
`_history` (stack of
mementos), the pruner's two vectors of removed nets, the stack
`_max_hn_weights`, a priority queue of rated pairs.  A contraction is followed
by the removal of single-pin and parallel nets around `u`; `uncontract`
restores them by index ranges kept in the memento.  Calls the hypergraph and,
at each level, a refiner; may stop half-way at a soft time limit.  Correct
when: a rating that counts as current is current; nets come back in reverse order
and with their weights; no parallel or
single-pin net is left when the rater runs; the metrics of a level are those of
the input; uncoarsening reaches the input.

**Multilevel driver and V-cycles** (`partition/multilevel.h`,
`partition/direct_kway.h`, `utils/time_limit.h`).  Order of coarsening,
initial partitioning and uncoarsening; repeats them on the partitioned
hypergraph.  Correct when: what a cycle leaves behind is what the next one
assumes.

**Two-way FM refinement** (`refinement/2way_fm_refiner.h`,
`2way_fm_gain_cache.h`, `fm_refiner_base.h`).  A gain cache that lives across
levels, a priority queue per block, the list of performed moves, a state
free/loose/locked per net.  One call: activate the uncontracted pair, move the
best hypernode again and again, update the gains around it, roll back to the
best prefix.  Hard: the cache is corrected by moves, by the rollback (through
recorded deltas) and by uncontractions; the queue misses some of these updates
on purpose (locked nets).  Correct when: cache = gain computed from scratch,
queue = cache, the cut only improves.

**k-way FM refinement** (`refinement/kway_fm_*`, `gain_cache_element.h`).  As
above with an entry per adjacent block: entries appear and disappear with
connectivity; a net skips work for blocks that hold a moved hypernode; moves of
the flow refiner are performed a second time to correct the cache.  Correct
when: an entry exists exactly for adjacent blocks and is the gain; queue =
cache; the metric only improves; no block is emptied.

**Flow refinement** (`refinement/flow`).  Active-block scheduling on the
quotient graph: pairs of adjacent blocks are refined until a round improves
nothing; for every pair a list of the nets that connect it, extended by moves and
repaired only when it is read; a flow hypergraph around the cut, whose size is
bounded so that no result can overload a block; maximum flows by the external
library WHFC.  Hard: the objective is corrected by a difference of two cuts of
flow hypergraphs, in which nets have been dropped or counted in advance.
Correct when: no cut net is missing, the objective stays exact, blocks stay
within their limit, the rounds end.

**Initial partitioning** (`partition/initial_partition.h`,
`initial_partitioning/`).  Renumbers the coarsest hypergraph, runs a pool of flat
algorithms (greedy growing in nine variants, breadth-first search, label
propagation, random, bin packing), keeps the best result and maps it back.  Hard:
a queue per block whose keys are corrected by differences, in three gain
functions; blocks that are full, or an "unassigned" block that is one of the k.
Correct when: keys are gains, no hypernode is left over, the best run is applied.

**Recursive bisection** (`partition/recursive_bisection.h`), **bin packing**
(`bin_packing/`), **fixed vertices** (`partition/fixed_vertices.h`).  A stack of
extracted subhypergraphs with mappings back to the input; bisections that are
repeated, with heavy hypernodes packed in advance, until their blocks can be
split further, and a late restart when a final block is too heavy; at the end a
maximum weighted matching that decides which free block joins which fixed one.
Correct when: hypernodes come back to where they belong, the objectives of the
bisections add up, limits of bisections guarantee those of the blocks, restarts
end, the matching is optimal.

**Preprocessing and pipeline** (`partition/preprocessing`,
`partition/partitioner.h`, `partitioner_facade.h`).  Deduplication of nets and
hypernodes, removal of single-pin and large nets, sparsification by hashed
clusters, communities by the Louvain method; undone in reverse order after
partitioning; called once, repeatedly within a time limit, or by the evolutionary
framework.  Correct when: the input comes back as it was, the result is a
partition of the input with the reported quality, communities belong to the
hypergraph they are used for.

**Evolutionary framework** (`partition/evolutionary`,
`partition/evo_partitioner.h`).  A population with replacement by quality and
difference, combination and mutation operators that drive V-cycles.  Correct when: offspring
is no worse than what it was made from, and the best individual survives.

**Containers** (`datastructure/`): resettable arrays, sparse sets and maps,
connectivity sets, bucket queue, hash table.  **Context, registries, metrics,
utilities, input and output, application, C and Python interfaces**:
configuration, formatting, bindings.

`PROJECT.json` lists every component with its sources and status, the hazards
of the code with the properties that cover them, and the line range that each
definition translates.

## Modules

Three families.  The dynamic hypergraph and what works on it level by level:

```
Incidence  <--implements-- IncidenceArray          pins, incident nets, undo
    ^
Hypergraph            adds blocks, pin counts, cut counters, PartInfo
    ^
NLevel                adds history, pruner, hashes, max weights, loops, V-cycles
    ^        ^
TwoWayFM    KWayFM    add gain cache, queues, locks, moves, metrics
               ^
           KWayFMCut  the same for the cut metric
```

Hypergraphs as values, and what builds new ones:

```
Extraction            subhypergraphs, blocks, objectives
    ^   ^   ^   \___________________________________
    |   |   |                                       |
    |   | InitialPartitioner  (with BinPacking)   Preprocessing
    |   |     ^                                     ^
    |   |   GreedyGrowing <- InitialPartitioning  Pipeline <- Evolution
    | RecursiveBisection  (with BinPacking)
    |     ^
    |   FixedVertices
    |
  Louvain <- Coarsening <- Flow
```

And the scheduler of flow refinement, `QuotientGraph`, which `Flow` instantiates.

In the first picture an arrow is an `INSTANCE`: the upper module's action is a
conjunct of the lower module's one, so a step of `TwoWayFM` is a step of the
hypergraph data structure with everything that the callers add to it
(`KWayFMCut` extends `KWayFM`).  In the second one an arrow is an `EXTENDS`.
`MC*` modules give the constants small values.  The theorems are in modules of
their own.  Most follow the first picture from below; `DriverProofs` is about the
partitioner, the drivers around it and about the scheduler:

```
IncidenceProofs <-INSTANCE- HypergraphProofs <---INSTANCE--- NLevelProofs
                              | EXTENDS                        | EXTENDS
                              v                                v
                            SetSums <------EXTENDS------- NLevelStacks
                              ^
                              | EXTENDS
                          TwoWayFMGains <--EXTENDS-- TwoWayFMProofs
                                                       | INSTANCE
                                                       v
                                                     NLevelProofs

Evolution <-EXTENDS- DriverProofs -INSTANCE-> QuotientGraph
                          |
                          +-------INSTANCE-> IncidenceProofs
```

**Incidence.**  `hg` is what the hypergraph stores: enabled nodes and nets,
`pins` (a set, as no operation depends on their order inside a net), `cutOff`
(the slots behind the pins, the one that `uncontract` peeks at last), `nets`
(incident nets), `weight`, `numPins`.  `log` is the stack of operations not yet
undone: the protocol of the caller, not a variable of the program; the
structure `before` that an entry carries is a history variable, read by
properties and by no action.  `Contract`, `RemoveEdge`,
`Uncontract`, `RestoreEdge` are the four functions of that name.
`Uncontract` uses nothing of the log but the pair `(u, v)`.

**IncidenceArray.**  The same operations on the array itself: stretches with
`firstEntry` and `firstInvalidEntry`, pins swapped to the end of their stretch,
slots reused for `u`, the linear walk of `uncontract` over the incident nets of
`u` with its swap-with-last removals, and the sentinel behind the last net.
`View` maps it to `Incidence`.

**Hypergraph.**  `part`, `netPart` (pin counts, connectivity and connectivity
set of a net), `cutNets` (`num_incident_cut_hes`), `block` (`PartInfo`),
`fixedVertices`.  Every function that changes them is an action, with all its
corrections by difference: `Contract` and `Uncontract` of a hypergraph that may
be partitioned, `RemoveEdge`, both forms of `RestoreEdge`, `SetNodePart`,
`ResetPartitioning`, `InitializeNumCutHyperedges`, `ChangeNodePart`.
`phase` and `vcycle` say where the partitioner is, since contraction and moves
do not interleave.

**NLevel.**  `PerformContraction`, `RemoveSingle`, `RemoveParallel` are
`performContraction` and the loops of the pruner it calls, one net per step;
`BeginLevel`, `RestoreParallel`, `ParallelRestored`, `RestoreSingle`,
`Uncontract` are one iteration of `doUncoarsen`; `ChangeNodePart` is a move of
any refiner; `SoftTimeLimit` is the branch that only calls `restoreMemento`;
`StartVCycle` is the loop of `direct_kway::partition`.  The guard `Rated` says
what the rater may propose.  Hashes are multisets of hypernodes (no collisions).

**TwoWayFM.**  `cache` and `delta` are the gain cache with its rollback deltas,
`key` and `enabled` the queues, `locks` and `fullyActive` the states of nets,
`changes` the gain changes an uncontraction computes.  `DictatedMove` is one
iteration of `performMovesAndUpdateCache`, behind a flow refiner that improves
the partition (`EndDictated`); it takes over `changes`, so that FM does not apply
them twice.  `Refine` is `refineImpl` up to its loop, `Move` one iteration with `updateNeighbours`, its activations
and removals, `Rollback` one iteration of the rollback, `EndSearch` the rest and
the decision for another iteration.

**KWayFM.**  The same for the connectivity metric and any number of blocks, with
`unremovable` (blocks of a net in which hypernodes have been moved or rejected),
`Reject` (a move that is not feasible) and the flow refiner in front of it:
`DictatedMove` is one iteration of `performMovesAndUpdateCache`.  Operations on
cache entries (`Op`: add, update, remove) are computed once per move; the cache
and the list of rollback elements are both derived from them, as
`KwayGainCache` does entry by entry.

**KWayFMCut.**  The k-way refiner for the cut metric: its gain function, the
states of nets (free, loose, locked) and the cases of `updateNeighbours`.  A
behaviour runs one of the two refiners, so that both are checked by one run.

**Extraction.**  `reindex`, `removeFixedVertices`,
`extractPartAsUnpartitionedHypergraphForBisection` (with and without net
splitting) and the objectives, as functions on hypergraphs.

**BinPacking, RecursiveBisection.**  `stack` is `hypergraph_stack` with the
context and mapping of each entry; `Leaf`, `CreateContext`, `Prepack`, `Bisect`,
`Retry`, `ExtractPart0`, `Finish`, `LateRestart` are the branches of the loop of
`partition` and of `partitionRepeatedOnInfeasible`.  Packers, the segment tree and
both prepackings are functions.  A bisection is any one that leaves prepacked
hypernodes alone and respects its limits if any does.

**FixedVertices.**  The rest of `partition` behind recursive bisection:
`SetUpMatching`, `Augment`, `AdjustCover`, `ApplyMatching` are the steps of the
Hungarian method, with cover and matching as variables.

**InitialPartitioner, GreedyGrowing, InitialPartitioning.**  `alg` is the state of
the flat algorithm that runs, `nodes` the list of hypernodes that may be
unassigned, `runs` what is still to run and the best so far.  The greedy
partitioner's queues are one function from pairs of hypernode and block to
gains; each step assigns one hypernode with all the updates that follow.

**Preprocessing, Pipeline.**  One action per step of `Partitioner::partition`,
`preprocess` and `postprocess` (`pc` is the next one) and of the loops around it.
Deduplication, removal and sparsification are functions on the structure of
`Incidence`.  What the partitioner returns is any complete partition that
respects the fixed vertices it is told of.

**Evolution.**  The population on top of `Pipeline`: `Insert` with the three
replacement strategies, then `GenerateIndividual`, `UsingTournamentSelection`,
`EdgeFrequency`, `VCycle` or `VCycleWithNewInitialPartitioning` start the next
call, whose `action` restricts what `Results` of `Pipeline` may be: local search
makes a partition within the weight limit no worse, as `TwoWayFM` and `KWayFM`
check.

**Louvain.**  The graph of a hypergraph (star or clique expansion), passes over
the nodes in any order, moves with `Stamped` time stamps and their skipping rule,
contraction, mapping back.

**Coarsening.**  Exact ratings (in multiples of 1/`Unit`), the queue, and the
coarseners: `RateTop` and `ContractLazily`, `ContractFully`,
`BeginCoarseningPass` and `VisitHypernode`.  One contraction with its pruning is
one step; `NLevel` has the steps in it.

**Flow.**  `BeginFlow`, `RefinePair`, `UpdatePartition`, `GiveUp`, `EndPair`,
`NextRound`, `EndFlow` are the two loops of active block scheduling;
`Regions` is the breadth-first search with its size limit, `Cutter` what WHFC may
return for a region.  Uncoarsening, execution levels, time limit and V-cycles
around it.

**QuotientGraph.**  The lists of cut nets with their lazy repair; `Appended` and
`Updated` are the only places that change them.

## What is left open, and what is abstracted

Left open, so that every choice is checked: in `NLevel` ratings and the order in
which parallel nets are found (`Coarsening` has the ratings); the initial
partition of the refinement modules (`InitialPartitioning` has the algorithms);
ties between moves, the order of the nets of a moved hypernode (where the result
depends on it), random shuffles and picks, hash values of identical hypernodes'
clusters, the stopping policies of local search, the result of a maximum flow,
when the soft time limit strikes.

Abstracted: the priority queue `KWayPriorityQueue` is not in the repository; it
is modelled by what its callers rely on (greatest key among enabled parts; a part
that runs empty is disabled).  Imbalances,
ratings and modularity gains are exact fractions, not doubles.
Activity states are what the thresholds of `hypernodeState` mean; the wrap-around
of the counter (`hypergraph.h:1736`) takes 2^31 searches.  `kNotCached` is the
absence of an entry; that `kNotCached - gain` overflows for a negative gain
(`kway_fm_gain_cache.h:112`) is undefined in C++ and wraps in practice.

## Runs

| run | module | states | bounds and why they are enough |
|---|---|---|---|
| `incidence` | MCIncidence | 36 000 | 4 nodes, nets of 3 and 2 pins in each other's way: both cases of `contract` in one net, chains of contractions into one `u`, removal between contractions, all undo orders |
| `incidence_array` | MCIncidenceArray | 39 300 | nets `<<0,1,2>>`, `<<1,2>>`, 4 nodes: peeks into the next stretch and at the sentinel, reused slots in both nets, swaps of a vector of two |
| `hypergraph` | MCHypergraph | 30 500 | 3 nets, 2 blocks, two fixed vertices, one V-cycle: contraction of an unpartitioned and of a partitioned hypergraph, every move |
| `nlevel` | MCNLevel | 42 900 | nets chosen so that contractions make single-pin and parallel nets, also several in a row; one V-cycle, time limit in the last one |
| `two_way_fm` | MCTwoWayFM | 506 000 | 5 nodes, a net of 5 pins in which nothing changes by a move, a fixed vertex, overloaded blocks, up to two flow moves (so that two hypernodes may be swapped), two levels, two iterations, one V-cycle |
| `kway_fm` | MCKWayFM | 49 600 | both refiners; blocks without fixed vertices are symmetric (`MCSymmetry`); 5 nodes, 3 blocks, a net beyond the size threshold in which both blocks of a move become unremovable, one flow move, two iterations, one V-cycle |
| `bisection` | MCBisection | 37 500 | 5 hypernodes of different weights, 4 nets, 3 and 4 blocks (so that blocks are split unevenly and twice), worst fit, early and late restarts, both prepackings, individual block weights, one and two fixed vertices |
| `initial_partitioning` | MCInitialPartitioning | 38 400 | 4 of 5 hypernodes enabled (so that renumbering matters), 2 and 3 blocks, every algorithm, gain and queue selection, nets above and below the size threshold, a pool of two |
| `pipeline` | MCPipeline | 130 000 | 5 nodes, 5 nets: three identical nodes, parallel, single-pin and large nets; every combination of preprocessing steps that interact; two repetitions; a population of two with two more individuals, each replacement strategy |
| `multilevel` | MCMultilevel | 147 000 | 5 nodes, 5 nets: three coarseners, penalties, policies for fixed vertices, nets that are too large to be rated, a given partition; flows between 2 and among 3 blocks on one, some and all levels, a V-cycle, the time limit |
| `block_sizes_vcycle` | MCHypergraph | | a violation, see below |
| `vcycle_after_time_limit` | MCNLevel | | a violation, see below |

What they show.

* `incidence`: undoing in reverse order replays every intermediate structure,
  though contraction records nothing (`ReverseReplay`), and ends with the input
  (`OriginalRestored`).
* `incidence_array`: the array does the same (`ImplementsIncidence`), without
  duplicates (`ArraysExact`).
* `hypergraph`: pin counts, connectivity sets, cut counters and block weights
  equal a recomputation at any time (`PartitionDataExact`), a contracted net is
  cut exactly as the input net it stands for (`ObjectiveProjected`), and
  uncontraction leaves the projected partition alone (`UndoKeepsPartition`).
* `nlevel`: no superfluous net survives coarsening (`NoSuperfluousNets`); the
  pruner's index ranges bring nets back in reverse order, everything is handed
  back and the slack that local search gets is not too small (`RecordsExact`);
  the metric of a level is that of the input (`MetricOfInput`), also after the
  time limit (`TimeLimitProjects`); uncoarsening ends (`UncoarseningEnds`).
* `two_way_fm`, `kway_fm`: caches and queues are what the code asserts of them
  when compiled with heavy assertions, between levels, moves and rollbacks
  (`GainCacheExact`, `SearchStateExact`, `CachesExact`, `QueuesExact`), metrics
  are exact and a search makes no partition worse (`MetricsExact`,
  `SearchNeverWorse`, `SearchesNeverWorse`), and k-way FM empties no block in the
  first cycle (`NoBlockEmptied`).
* `bisection`: the objectives of all bisections add up to that of the result,
  hence every hypernode came back through the right mappings (`ObjectiveAdds`);
  balanced bisections guarantee balanced blocks, and the exact prepacking keeps
  its promise (`BalanceGuaranteed`); no other assignment of blocks to fixed
  vertices that keeps the limits is better (`AssignmentOptimal`); restarts and the
  Hungarian method end (`Terminates`).
* `initial_partitioning`: keys of the growing queues are gains, label propagation
  scores are gains (`AllGainsExact`), a queue serves its block as long as
  something can be moved there (`QueuesServeBlocks`), nothing is left unassigned
  (`EveryoneAssigned`), and the partition applied is the best of those produced
  (`BestOfAllRuns`).
* `pipeline`: the hypergraph is handed back as it was (`InputRestored`), with the
  partition and objective that were found on the reduced one, and with its fixed
  vertices (`ResultDelivered`); communities that are reused fit the hypergraph
  (`CommunitiesFit`); combinations and V-cycle mutations are no worse than the
  individuals they are made from (part of `ResultDelivered`), and repetitions and
  populations deliver the best that was ever found (`BestOfAll`).
* `multilevel`: tracked modularity and projected clusters are exact and no node
  is skipped that could move (`CommunitiesExact`); current ratings are current,
  fixed vertices keep their balance and, where no net is too large to be rated, a
  coarsener stops only when nothing fits, the queue of the full one being complete
  if there are no fixed vertices (`CoarseningExact`); objective, weights and fixed vertices through flows
  (`FlowExact`), lists of cut nets (`CutListsComplete`), and rounds that improve
  (`RoundsImprove`).

Each property is known to be violated by a plausible bug: the definitions with
names like `NotCleared` or `SkippingWalk` next to a mapped definition are such
bugs ("the variant" in its comment), and `PROJECT.json` pairs them with the
properties.

`CHECK_DEADLOCK` is off in the runs of `NLevel`, `TwoWayFM`, `KWayFM`, `Evolution`
and `Flow`: the program ends when the last V-cycle or repetition is done,
initial partitioning may be stuck at a bound of the model, and flow moves that
together improve nothing lead nowhere.  The runs `bisection` and
`initial_partitioning` check deadlock: they may stop only where the program
has finished (`Ended`).

**Fairness.**  Only `NLevel` states it: weak fairness of the steps of
`doUncoarsen`.  They are consecutive statements of one thread; between levels a
search of finitely many moves runs (every search of `TwoWayFM` and `KWayFM`
marks a hypernode per move and never moves it again).  Nothing forces the time
limit, a V-cycle or a move.  Elsewhere the end of a loop is stated without
fairness, as a measure that its steps decrease: the work left of recursive
bisection and the weight of the cover of the matching (`Terminates`), the pair of
objective and imbalance between rounds of flows (`RoundsImprove`).

## Disagreements found

*Block sizes in V-cycles* (`block_sizes_vcycle`).  `contract` does not decrement
the size of the block of a hypernode that it disables, while `restoreMemento`
increments it (`hypergraph.h:1208`).  In the first cycle sizes are counted on
the coarsest level, so that this is right; from the first V-cycle on
`partSize` is too large, although the comment at `hypergraph.h:503` says it is
the number of hypernodes in the block.  `moveIsFeasible` reads it to keep blocks
from being emptied: `NoBlockEmptied` is stated for the first cycle because it
is false in the second, where k-way FM moves the last hypernode out of a block.

*V-cycle after the time limit* (`vcycle_after_time_limit`).  When the soft time
limit has stopped uncoarsening, nets stay contracted under enabled hypernodes,
which the comment at `vertex_pair_coarsener_base.h:106` calls broken.  The loop
at `direct_kway.h:91` starts the next V-cycle all the same; the rater may then
propose a hypernode that lists a net it is no pin of, and the assertion in
`contract` fails.

## Observations

Places where the code does not keep what it asserts, assumes or comments, met
while modelling and left as they are in the models (none changes what the runs
above state; the models take the branch the program takes without assertions,
except in `ContractFully`):

* `bin_packer.h:93` asserts that the first part of a bisection gets at least as
  many bins as the second; an odd `k` is split the other way.
* `fixed_vertices.h:424`: the comment says that assignments that overload a block
  are discarded; they only get a smaller weight in the matching.
* `recursive_bisection.h:297` decides on a late restart by the block weights of
  the input hypergraph, which with fixed vertices is not the one partitioned.
* `direct_kway.h:105` assigns the initial value of one metric twice and that of
  the other never.
* `louvain.h`, `hypergraph.h:1825`: after deduplication disabled hypernodes have no
  community, which the assertions there forbid; `partitioner.h:348` assumes all
  fixed vertices after deduplication, which drops those of merged hypernodes.
* `partitioner_facade.h:118`: with a partition read as input, the reset between two
  repetitions drops it; the following ones start without any and their result
  counts as better.
* `hypergraph.h:967` allows the contraction of identical hypernodes that the input
  partition put into different blocks.
* `adaptive_lsh.h`: cluster sizes start at 1 and then add weights, so that they may
  wrap around below zero; the number of active vertices counts removed ones.
* `graph.h:654`: a net with a single pin leaves edges of weight 0.
* `full_vertex_pair_coarsener.h`: only hypernodes with a partner are put into the
  queue, and after a contraction the key of every neighbour with a partner is
  updated, which the assertion at line 156 allows only for hypernodes in the queue.
  Nets with more pins than the size threshold are not rated, but contractions
  shrink them, so that a hypernode which had no partner gets one.  With fixed
  vertices the assertions about the target (lines 114 and 118) fail as well: a
  hypernode whose neighbours are all fixed has no partner and leaves the queue, yet
  is the target of one of them.  `ContractFully` ends in phase "aborted" where one
  of these assertions fails, because what the (external) heap does with a key that
  it does not contain is not defined; both cases are among the inputs of the run
  `multilevel`.  `CoarseningExact` states the rest (`QueueComplete`): without fixed
  vertices and large nets the assertions hold, and nothing outside the queue could
  be rated.
* `2way_hyperflowcutter_refiner.h:273`: the new local imbalance includes the old
  one, so `LocalBalanceImproved` is never returned.
* `combine.h:79` asserts that offspring is no worse than its parents, in the
  connectivity metric.  It is compared in the configured objective, without the
  large nets that were put aside, and only from parents within the weight limit:
  `ResultDelivered` states it with these restrictions.
* `population.h:87`: the second tournament's loser is taken when the winner is as
  fit as the first parent; if all are equally fit, that loser may be the first
  parent itself.
* The quotient graph's edges are not updated between rounds of one refinement, so
  that blocks that become adjacent are not paired until the next level.

## Proofs

What is proved holds for every finite hypergraph, every weight, every number of
blocks, any number of V-cycles and every order of the operations.  No assumption
is made on the constants that their modules do not state (finite sets, natural
weights, a `NoBlock` that is no block, for the levels a hypernode, for the
drivers two individuals and an objective that does not exceed its type); the few
theorems with a hypothesis of their own are discussed below: the one about the
time limit in the last V-cycle, and those about two-way search.  No proof takes sizes, connectedness or
the choice of contractions, moves or parallel nets for granted.

| module | theorem | states for every instance |
|---|---|---|
| `IncidenceProofs` | `TypeCorrect`, `IncidenceAgrees`, `PeekIsSafe`, `InputHandedBack`, `UndoIsExact` | `TypeOK`, `DualIncidence`, `CutOffContracted`, `OriginalRestored`, `ReverseReplay` |
| `HypergraphProofs` | `ImplementsIncidence` | `Hypergraph` implements `Incidence` |
| `HypergraphProofs` | `PartitionExact`, `ObjectiveIsProjected`, `UndoProjected` | `PartitionDataExact`, `ObjectiveProjected`, `UndoKeepsPartition` |
| `NLevelProofs` | `RecordsExactUntilTimeLimit`, `MetricOfInputUntilTimeLimit`, `NoSuperfluousUntilTimeLimit` | `RecordsExact`, `MetricOfInput`, `NoSuperfluousNets` |
| `NLevelProofs` | `RatedContractibleUntilTimeLimit` | `RatedIsContractible`, which the run `vcycle_after_time_limit` refutes for the time after the limit |
| `NLevelProofs` | `ExactWhenLastCycleLimited` | all four of them, also after the limit |
| `NLevelProofs` | `TimeLimitProjected` | `TimeLimitProjects` |
| `NLevelProofs` | `PartitionExactUntilTimeLimit` | `PartitionDataExact` of the hypergraph inside the n-level scheme |
| `TwoWayFMProofs` | `SearchInvariant` | `LevelInv` and `SearchInv`, the inductive invariant |
| `TwoWayFMProofs` | `GainCacheIsExact`, `SearchStateIsExact`, `MetricsAreExact` | `GainCacheExact`, `SearchStateExact`, `MetricsExact`, if no net of the input has a single pin |
| `TwoWayFMProofs` | `SearchIsNeverWorse` | `SearchNeverWorse`, if the bounds of the blocks are `Proportional` besides |
| `DriverProofs` | `BestOfAllDelivered` | `BestOfAll` |
| `DriverProofs` | `InputIsRestored`, `CommunitiesAlwaysFit` | `InputRestored`, `CommunitiesFit` |
| `DriverProofs` | `ListsStayComplete`, `ExposedListsExact` | what `multilevel` checks as `CutListsComplete`; `ListHandedOutExact` |

**Incidence.**  None of its properties is inductive: what `uncontract` infers is
right only because of all that happened since the contraction.  The inductive
invariant `UndoChain` says that the log is a chain: every structure in it is
`WellFormed` (pins and incident nets agree, slots behind the pins hold disabled
hypernodes, ...), applying an entry's operation to its `before` gives the
`before` of the next entry, the last one gives `hg`, and the first `before` is
the input.  Two lemmas carry the weight: `UncontractUndoesContract` and
`RestoreUndoesRemove` say that an operation on *any* well-formed structure is
undone exactly by its inverse, which sees only the pair.  `ContractedWellFormed`
and `RemovedWellFormed` keep the chain well-formed; `ExtendChain` and
`ShortenChain` do the bookkeeping on sequences.

**Partition data.**  `ImplementsIncidence` maps each step of `Hypergraph` to a
step of `Incidence` or a stutter, so that `UndoChain` is at hand.  The invariant
`Inv` adds to `PartitionDataExact` what the corrections by difference rely on and
nothing in the code checks:

* `RemovedNetsCleared`: `restoreEdge` sets pin counts to zero but neither the
  connectivity nor the connectivity set, so a removed net must have left them
  empty.
* `AssignmentComplete`: the first coarsening is of an unpartitioned hypergraph,
  that of a V-cycle of a fully partitioned one, and so is refinement.
* `ContractedCountNothing`: `uncontract` adds to the number of cut nets of `v`, and
  must find a zero there.
* `FixedIntoFixed`: a fixed vertex is contracted only into one fixed to the same
  block, as fixed weights are handed over with it.

The code's increments and decrements become lemmas about one net
(`IncrementedExact`, `DecrementedExact`, `RenamedExact`), about all nets of a
step (`ContractNets`, `UncontractNets`, ...), about `PartInfo` (`...Info`) and
about cut counters (`...Cut`), which `InvInductive` puts together action by
action.  `ObjectiveIsProjected` follows hypernodes along the log: pins that
coincide on a level were alike in the input (`PinsFollow`, `AlikeInInput`), so a
net has the same blocks on a level as in the input, and a removed net that was
internal then is internal in the input (`InternalInInput`).

**Levels.**  The invariant of `NLevel` says that the log of the hypergraph is
exactly the history and the pruner's two vectors merged (`StackKept`): for every
level its contraction, its single-pin nets, its parallel nets, in this order.
Mementos keep only indices into the vectors; what makes them enough is the rest
of `Inv`:

* `LoopKept`: where the loops of an uncoarsening begin, end and stand is where the
  vectors end; `SinglesFirst`: single-pin nets are removed before the
  first parallel one of a level.
* `NetsAccounted`: a net is enabled or in one of the vectors, once, and what absorbs
  a net is not itself removed before; `RemovalsLogged`: when it was removed it had
  one pin, or the pins of the net that absorbed it.
* `WeightsKept`: the weights of the nets are those of the input after the recorded
  mergers, in their order.
* `LevelsShrink`, `MaxWeightsKept`: bounds in `_max_hn_weights` rise for fewer and
  fewer hypernodes and every hypernode of every level has one that is not popped
  before the level is reached.  Entries that an earlier V-cycle left behind are
  popped late, never early.

`MetricOfInput` then needs no induction over levels: a removed net connects in the
input the same blocks as its representative (`RemovedPay`), the recorded mergers
move its cost there (`MergersKeepSum`), and single-pin nets cost nothing
(`EnabledSum`).

**Superfluous nets.**  `NoSuperfluousNets` is about the whole hypergraph, but the
pruner looks at the nets of the representative only, skips those that have
absorbed another one, and compares nets by hashes that a contraction corrects
by differences.  `ProperKept` says why that is enough.  The hashes are functions
of the pins (`HashesExact`), so equal nets are found whatever hash function is
used.  While a level is pruned, its hypergraph is the contraction of one without
superfluous nets (`LevelMerged`).  Nets without the representative are as they
were, so whatever is superfluous contains it (`MergedAlike`, `MergedSingle`);
and at most three nets become alike (`ThreePreimages`), so two nets that have
each absorbed another one are not parallel.  `ContractedProper` says the same
of every hypergraph that a contraction is still to be undone to: the coarsening
of the next V-cycle begins with one of these.

**The time limit.**  After it, nets stay removed and contracted, so the invariant is
gone: the theorems above hold *until* the limit.  `TimeLimitProjected` is
about the step itself, without restriction: `restoreMemento` goes back through the
history and gives each `v` the block of its `u`, which is the same as following
the log forward from the input (`RestoresWhatLeads`, `LevelLeads`); block
weights, which it does not touch, are those of the projected partition
(`ProjectedWeight`).  `ExactWhenLastCycleLimited` closes the gap under the
hypothesis that the limit is exceeded in the last V-cycle only (`TimeLimited`, as
in the run `nlevel`).  The hypothesis is needed: `vcycle_after_time_limit`, below
"Disagreements found", is what happens otherwise.

**Quotient graph.**  The property is inductive with the types.
`MoveKeepsComplete` is the case of a move: `changeNodePart` looks only at nets
that got their first pin in the target block (`FirstPin`), and a net that newly
connects two blocks is such a net, and one of the two is that block; nets that
lost their last pin in a block only leave entries that the next access drops.  The
structure is assumed to be one in which the nets of a hypernode include those it
is a pin of, which `IncidenceAgrees` establishes.

**Drivers.**  `BestOfAll` looks back at all partitionings, so it needs a history
(`best.all`, and for the population `best.quality`) and an invariant about it.
`BestIsKept` says that the best fitness ever made is still that of an individual.
That is not so for every strategy by itself: `worst` replaces an individual
whatever the offspring is like.  It is so because the worst individual is the best
one only if all are equally fit, and then another one is left, as there are at
least two (`InsertedKeepsBest`); this is where the assumption
`PopulationSizeAssumption` is used.  `BestIsOfAll` is the same for repeated
partitioning, where the first result must improve on the initial solution, the
greatest number of its type (`QualityAssumption`; `QualityTyped` bounds the
objective).  Restarts, mutations and combinations touch neither (`QuietStepsKeep`).
A first attempt at the proof showed that the arms of a `CASE` in the model
overlapped and that its value was then open; it has one value now, as the code
has.

**Two-way search.**  The gain of a hypernode is a sum over its nets, and every
correction of the cache is a statement about what *one* net contributes.  For a
move that is `NetDelta`, whose sum over the nets of a pin is the difference of its
gains (`GainsMoved`), and over the nets of the moved hypernode that of the cut
(`CutMoved`).  For an uncontraction it is what the gain changes add for one net
(`NetUndoneHolds`, for the pair `PairUndone`).  A net that comes back alone
contributes nothing (`SingleReturned`); a parallel one brings back the share of
its weight (`ParallelReturned`).  `SearchInv` says what else the code relies on:

* `GainsKept`: the cache is exact for the present partition, and the cache with its
  deltas for `BestPart`, the one that a rollback would restore: why
  `rollbackDelta` needs no recomputation.
* `LockedNothing`: a net with moved pins in both blocks changes the gain of no
  hypernode that is not moved yet, whatever its other pins do, because moved ones
  stay.  `updateNeighbours` passes over these nets, for the cache and for the
  queue (`KeysExact`, `LocksExact`), but the first move that locks one must not.
* `NeighboursExact`, `StatesExact`, `QueuesEnabled`: a net that changes from
  internal to cut has its pins activated by the same move; one that becomes
  internal has them listed for removal.
* `MetricsKept`, `NeverWorse`: the metrics are those of the present partition or,
  during a search, those of `BestPart`, and it is at no time worse than the first.

`TwoWayFMGains` shows that the search keeps all of it on a level that is exact
itself (`LevelExact`).  `TwoWayFMProofs` gets that from the invariant of `NLevel`:
both instances of `NLevel` take the same steps (`SameSteps`), refinement is a move
of the level (`LevelStays`), and the time limit is not part of this module.
Two hypotheses are left, both on the input:

* *No net has a single pin.*  The gain changes of an uncontraction distinguish
  nets by their pin counts before it, and a net with one pin would be taken for an
  internal one; the code asserts that there is none
  (`2way_fm_refiner.h:656`).  `sanitize` removes those of the input
  (`partitioner.h:233`), and the pruner those that a contraction makes;
  `ContractedProper` from the proofs about levels says that no uncontraction
  leads to one (`UncontractsProper`).
* `Proportional`: both blocks may exceed their perfect weights by the same factor,
  but for rounding.  It holds if the bounds are `(1 + epsilon)` times the perfect
  weights, truncated (`context.h:477`), or equal to them (individual weights), but
  bisections into individual blocks of different numbers shift both by amounts of
  their own (`recursive_bisection.h:147`).  There a partition of smaller
  "imbalance" need not fit when one of greater imbalance does (`LighterFits` is
  what fails), so that only the cut is sure not to increase.

**What the pipeline hands back.**  `PipelineInv` says what the hypergraph, the net
weights and the lists are before each step of `Partitioner::partition`, as
functions of the input alone (`Contracted`, `Simple`, `Multiple`, `Reduced`,
`NoneLarge`), so that the hundredth call of a driver finds what the first one
found.  That also settles the communities, which outlive the call that made them.
The steps themselves rest on the structure of `Incidence`: contractions of pairs
no one of which disables a hypernode of another are undone in reverse order
(`ContractionsUndone`, from `UncontractUndoesContract`), and nets can be taken out
and put back in any order (`Without`, `NetsOut`, `NetsBack`): single-node nets are
put back before the large nets that were removed after them.  The pairs of the
deduplicator are of that kind because a representative is the first of its class
and so represents itself (`Representatives`, `PairsFound`).

**Sums and induction.**  The library's induction theorems cannot be instantiated
here.  `SetSums` states induction over finite sets and over numbers for *sets* of
sets and sets of numbers (`SubsetInduction`, `CountInduction`), which can, and
proves from them that folds of the community modules are defined by their
recursion, whatever element is picked first (`FoldExists`, `FoldUnique`).
`TotalDifference` and `TotalSplit` compare two sums element by element, which is
all that the gains need.  The sums of weights, the recount of pins in `restoreEdge` and the loop of
`restoreMemento` are such folds.  The loops of the pipeline fold over sequences;
`CountedPrefixes` and the lemmas `...Trace` of `DriverProofs` turn each into the
sequence of its intermediate results, over which `CountInduction` goes.

Only model-checked: the refinement of `Incidence` by `IncidenceArray` (its walk
is recursive), the gain cache and queues of k-way FM (`CachesExact`,
`QueuesExact`), bisection, fixed vertices, initial partitioning, what the pipeline
makes of partitions (`ResultDelivered`), the clusters of the Louvain method,
ratings and the flow hypergraph.  Liveness
and `Terminates`-like measures over data stay with TLC: liveness under fairness
is out of the prover's reach.

## Not modelled

Components with status `not_modelled` or `partly` in `PROJECT.json` carry the
reason.  In short:

* what only steers the evolutionary search: edge frequencies, contraction limits,
  diversification, chances;
* containers; the models use sets, functions and keyed queues in their place;
* stopping rules of local search, statistics in floating point that decide *when*
  to stop: every moment is allowed;
* edge-frequency ratings;
* how hash values are computed;
* maximum flow (WHFC), an external library, modelled by what it may return;
* configuration, I/O, statistics and bindings, which keep no state that the
  partition depends on.

## Plan

What the project has was built in the order incidence, partition data, levels,
local search, then bisection, initial partitioning, pipeline, coarsening, flows
and the population.  Left, in this order:

1. **Proofs**: the gain caches and queues of k-way FM on exact levels, along the
   lines of `TwoWayFMGains`; the refinement of `Incidence` by `IncidenceArray`, once
   its walk is a recursive function.
2. **Containers**: resettable arrays, sparse sets, connectivity sets, bucket
   queue, each against a set or function.
