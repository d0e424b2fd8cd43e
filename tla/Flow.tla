-------------------------------- MODULE Flow --------------------------------
(***************************************************************************)
(* Multilevel partitioning with flow refinement: coarsening, any initial   *)
(* partition, and uncoarsening with the refiners                           *)
(*   refinement/flow/kway_hyperflowcutter_refiner.h   (active blocks)      *)
(*   refinement/flow/2way_hyperflowcutter_refiner.h   (one pair of blocks) *)
(* on some of the levels, with V-cycles (direct_kway.h).                   *)
(*                                                                         *)
(* The flow algorithm itself (WHFC) is an external library: it fails, or   *)
(* it returns some bipartition of the flow hypergraph whose cut is within  *)
(* the bound and whose sides are not too heavy.  Max block weights divide  *)
(* Unit.                                                                   *)
(***************************************************************************)
EXTENDS Coarsening

CONSTANTS Block,                  \* the blocks of the greatest k
          MaxIterationsPerLevel   \* local_search.iterations_per_level

VARIABLES metric,            \* the objective in current_metrics
          initialObjective,
          executionLevels,   \* _flow_execution_levels
          improving,         \* the pairs whose _num_improvements is positive
          lists,             \* of the scheduler, module QuotientGraph
          edges,             \* its quotient graph
          remaining,         \* the pairs that are still to be looked at in this round
          nextActive,        \* tmp_active_blocks
          improved,          \* has this call of refine improved anything?
          pair,              \* the blocks that are being refined, or {}
          allowed,           \* max_weight_b0 and max_weight_b1
          result, goesOn,    \* refinement_result, should_continue
          timeUp,            \* time_limit_triggered
          iteration, cycle,
          roundStart         \* history: the quality when the round began

rounds == <<lists, edges, remaining, nextActive, improved, pair, allowed, result, goesOn, roundStart>>
flowVars == <<metric, initialObjective, executionLevels, improving, rounds, timeUp, iteration, cycle>>

Q == INSTANCE QuotientGraph

\* RefinementResult
NoImprovement == 0
LocalBalanceImproved == 1
GlobalBalanceImproved == 2
MetricImproved == 3

Blocks == 0 .. input.k - 1
Current == [pins |-> [e \in hg.edges |-> hg.pins[e]], netWeight |-> edgeWeight,
            weight |-> [v \in hg.nodes |-> hg.weight[v]]]
Weight(f, b) == BlockWeight(Current, f, b)
\* The imbalance of a block, up to the order.
BlockImbalance(f, b) == Weight(f, b) * (Unit \div input.maxPartWeight[b])
Imbalance(f, B) == Max({BlockImbalance(f, b) : b \in B})
Quality(f) == <<Objective(Current, f, input.objective), Imbalance(f, Blocks)>>
Better(q, r) == q[1] < r[1] \/ (q[1] = r[1] /\ q[2] < r[2])

OnLastLevel == hg.nodes = Hypernode
-----------------------------------------------------------------------------
(* The levels on which flows are used (flow_execution_policy.h).             *)

NewExecutionLevels ==
  LET n == Cardinality(hg.nodes)
      all == Cardinality(Hypernode)
      upTo(s) == Reverse(Append(SelectSeq(s, LAMBDA x : x < all), all))
  IN  CASE input.execution = "constant"    -> upTo([i \in 1 .. all |-> n + 1 + (i - 1) * input.beta])
        [] input.execution = "exponential" -> upTo([i \in 1 .. all |-> n + 2 ^ (i - 1)])
        [] input.execution = "multilevel"  ->
             SelectSeq([i \in 1 .. all |-> all \div (2 ^ (i - 1))], LAMBDA x : x >= n)

ExecuteFlow == executionLevels # << >> /\ Cardinality(hg.nodes) >= Last(executionLevels)
-----------------------------------------------------------------------------
(* The flow hypergraph (whfc_flow_hypergraph_extraction.h) of two blocks.    *)

\* canHyperedgeBeDropped: such a net is in the cut whatever the flow does.
\* (The variant keeps them.)
DroppedNever(e) == FALSE
Dropped(e) == input.objective = "cut" /\ ~ (Q!BlocksOf(part, e) \subseteq pair)

\* flowHyperGraphPartSizes: "keep one node" of block b, o is the other block.
SizeConstraint(b, o) ==
  LET w == Weight(part, b)
      scaled == ((10000 + input.scaling * Min({5, input.epsilon})) * input.perfectWeight[o]) \div 10000
      size == CASE input.sizeConstraint = "part_weight_fraction" -> (input.scaling * w) \div 100
                [] input.sizeConstraint = "max_part_weight_fraction" ->
                     (input.scaling * input.maxPartWeight[b]) \div 100
                [] input.sizeConstraint = "scaled_max_part_weight_fraction_minus_opposite_side" ->
                     scaled - Weight(part, o)
  IN  Max({0, Min({size, w - 1})})

\* The nets inside b through which the search goes.
InnerNets(u, b, o) ==
  {e \in hg.nets[u] : /\ Q!PinsOf(part, e, o) = {}
                      /\ Cardinality(Q!PinsOf(part, e, b)) > 1
                      /\ ~ Dropped(e)}

\* BreadthFirstSearch: all regions of block b that it may end with.  Hypernodes
\* are added as long as they fit, first the pins of the nets in the cut, then
\* those of the nets inside.
Regions(b, o) ==
  LET free == {v \in hg.nodes : part[v] = b /\ ~ IsFixed(v)}
      fit(R, S) == {v \in S \ R : SumOver(hg.weight, R \cup {v}) <= SizeConstraint(b, o)}
      atCut(R) == fit(R, free \cap UNION {hg.pins[e] : e \in Q!CutNets(part, pair)})
      next(R) == fit(R, free \cap UNION {UNION {hg.pins[e] : e \in InnerNets(u, b, o)} : u \in R})
      grown(Rs, more(_)) == UNION {IF more(R) = {} THEN {R} ELSE {R \cup {v} : v \in more(R)} : R \in Rs}
      n == [i \in 1 .. Cardinality(free) |-> i]
  IN  FoldLeft(LAMBDA Rs, i : grown(Rs, next), FoldLeft(LAMBDA Rs, i : grown(Rs, atCut), {{}}, n), n)

\* run: the nets between the blocks, those of them with pins outside on both
\* sides, and the nets inside the region.
AtStake == {e \in Q!CutNets(part, pair) : ~ Dropped(e)}
BaseNets(region) ==
  {e \in AtStake : \A b \in pair : Q!PinsOf(part, e, b) \ region # {}}
Inner(region) ==
  UNION {InnerNets(u, part[u], CHOOSE o \in pair : o # part[u]) : u \in region}

Cut(E, f) == SumOver(edgeWeight, E \cap Q!CutNets(f, pair))
CutAtStake == SumOver(edgeWeight, AtStake)
BaseCut(region) == SumOver(edgeWeight, BaseNets(region))

\* What WHFC may return: the hypernodes of the region are assigned anew.
Cutter(region) ==
  {f \in {[v \in Hypernode |-> IF v \in region THEN a[v] ELSE part[v]] : a \in [region -> pair]} :
     /\ Cut((AtStake \ BaseNets(region)) \cup Inner(region), f) <= CutAtStake - BaseCut(region)
     /\ \A b \in pair : Weight(f, b) <= allowed[b]}

NewCut(region, f) ==
  BaseCut(region) + Cut((AtStake \ BaseNets(region)) \cup Inner(region), f)

\* determineRefinementResult.  The new local imbalance is a maximum in which the
\* previous one is included, hence never smaller.  (The variant also accepts a
\* global imbalance that stays the same.)
ResultNotWorse(newCut, f) ==
  IF newCut < CutAtStake THEN MetricImproved
  ELSE IF newCut = CutAtStake /\ Imbalance(f, Blocks) <= Imbalance(part, Blocks) THEN GlobalBalanceImproved
  ELSE NoImprovement
Result(newCut, f) ==
  LET newLocal == Max({Imbalance(part, pair), BlockImbalance(f, Max(pair))})
  IN  IF newCut < CutAtStake THEN MetricImproved
      ELSE IF newCut = CutAtStake /\ Imbalance(f, Blocks) < Imbalance(part, Blocks) THEN GlobalBalanceImproved
      ELSE IF newCut = CutAtStake /\ newLocal < Imbalance(part, pair) THEN LocalBalanceImproved
      ELSE NoImprovement
-----------------------------------------------------------------------------
(* Active block scheduling.                                                  *)

BeginFlow ==
  /\ phase = "refine"
  /\ ExecuteFlow
  /\ phase' = "flow"
  /\ executionLevels' = Front(executionLevels)
  /\ lists' = Q!Built(part)
  /\ edges' = Q!QuotientEdges(part)
  /\ remaining' = IF input.refiner = "twoway" THEN {{0, 1}} ELSE IF timeUp THEN {} ELSE edges'
  /\ nextActive' = {} /\ improved' = FALSE /\ pair' = {}
  /\ allowed' = << >> /\ result' = NoImprovement /\ goesOn' = FALSE
  /\ roundStart' = Quality(part)
  /\ UNCHANGED <<hg, edgeWeight, part, queue, levels, metric, initialObjective, improving, timeUp,
                 iteration, cycle>>

RefinePair ==
  /\ phase = "flow" /\ pair = {}
  /\ \E p \in remaining :
       /\ pair' = p
       /\ remaining' = remaining \ {p}
       /\ allowed' = [b \in p |-> Max({Weight(part, b), input.maxPartWeight[b]})]
  /\ result' = NoImprovement /\ goesOn' = TRUE
  /\ UNCHANGED <<hg, edgeWeight, phase, part, queue, levels, metric, initialObjective, executionLevels,
                 improving, lists, edges, nextActive, improved, timeUp, iteration, cycle, roundStart>>

\* An iteration in which the partition is updated.
UpdatePartition ==
  LET b == Min(pair)
      o == Max(pair)
  IN  /\ phase = "flow" /\ pair # {} /\ goesOn
      /\ OnLastLevel \/ Cut(hg.edges, part) > 10
      /\ \E R \in Regions(b, o), S \in Regions(o, b) :
           /\ CutAtStake > BaseCut(R \cup S)
           /\ \A c \in pair : SumOver(hg.weight, {v \in R \cup S : part[v] = c}) < Weight(part, c)
           /\ \E f \in Cutter(R \cup S) :
                LET newCut == NewCut(R \cup S, f)
                IN  /\ Result(newCut, f) # NoImprovement
                    /\ result' = Max({result, Result(newCut, f)})
                    /\ part' = f
                    /\ lists' = LET move(s, v) == LET g == [s[2] EXCEPT ![v] = f[v]]
                                                  IN  <<Q!Appended(s[1], g, v, s[2][v], f[v]), g>>
                                IN  FoldLeft(move, <<Q!Updated(lists, part, pair), part>>,
                                             Ascending({v \in R \cup S : f[v] # part[v]}))[1]
                    /\ metric' = metric + newCut - CutAtStake
                    /\ goesOn' = (newCut < CutAtStake)
      /\ UNCHANGED <<hg, edgeWeight, phase, queue, levels, initialObjective, executionLevels, improving,
                     edges, remaining, nextActive, improved, pair, allowed, timeUp, iteration, cycle,
                     roundStart>>

\* An iteration without one: there is not enough to gain, WHFC has failed, or
\* what it has found is not better.
GiveUp ==
  /\ phase = "flow" /\ pair # {} /\ goesOn
  /\ lists' = Q!Updated(lists, part, pair)
  /\ goesOn' = FALSE
  /\ UNCHANGED <<hg, edgeWeight, phase, part, queue, levels, metric, initialObjective, executionLevels,
                 improving, edges, remaining, nextActive, improved, pair, allowed, result, timeUp,
                 iteration, cycle, roundStart>>

\* isSoftTimeLimitExceeded may hold from now on.
LookAtClock == \E t \in {timeUp, timeUp \/ input.timeLimit} : timeUp' = t

EndPair ==
  /\ phase = "flow" /\ pair # {} /\ ~ goesOn
  /\ LookAtClock
  /\ IF result >= GlobalBalanceImproved
     THEN nextActive' = nextActive \cup pair /\ improving' = improving \cup {pair}
     ELSE UNCHANGED <<nextActive, improving>>
  /\ improved' = (improved \/ result # NoImprovement)
  /\ remaining' = IF timeUp' THEN {} ELSE remaining
  /\ pair' = {} /\ allowed' = << >> /\ result' = NoImprovement
  /\ UNCHANGED <<hg, edgeWeight, phase, part, queue, levels, metric, initialObjective, executionLevels,
                 lists, edges, goesOn, iteration, cycle, roundStart>>

\* Blocks of the next round are those with an improvement, but only pairs that
\* have ever been improved are tried again.
NextRound ==
  /\ phase = "flow" /\ pair = {} /\ remaining = {}
  /\ input.refiner = "kway" /\ nextActive # {}
  /\ ~ timeUp
  /\ remaining' = {p \in edges \cap improving : p \cap nextActive # {}}
  /\ nextActive' = {}
  /\ roundStart' = Quality(part)
  /\ UNCHANGED <<hg, edgeWeight, phase, part, queue, levels, metric, initialObjective, executionLevels,
                 improving, lists, edges, improved, pair, allowed, result, goesOn, timeUp, iteration, cycle>>

NoRound == /\ lists' = << >> /\ edges' = {} /\ remaining' = {} /\ nextActive' = {} /\ improved' = FALSE
           /\ pair' = {} /\ allowed' = << >> /\ result' = NoImprovement /\ goesOn' = FALSE
           /\ roundStart' = << >>

EndFlow ==
  /\ phase = "flow" /\ pair = {} /\ remaining = {}
  /\ LookAtClock
  /\ input.refiner = "twoway" \/ nextActive = {} \/ timeUp'
  /\ IF improved /\ iteration < MaxIterationsPerLevel
     THEN phase' = "refine" /\ iteration' = iteration + 1
     ELSE phase' = "uncoarsen" /\ UNCHANGED iteration
  /\ NoRound
  /\ UNCHANGED <<hg, edgeWeight, part, queue, levels, metric, initialObjective, executionLevels, improving,
                 cycle>>
-----------------------------------------------------------------------------
(* Uncoarsening (vertex_pair_coarsener_base.h) and V-cycles.                 *)

InitialPartition ==
  /\ phase = "coarsest"
  /\ \E v \in hg.nodes : part[v] = Unassigned
  /\ \E f \in [hg.nodes -> Blocks] :
       /\ \A b \in Blocks : \E v \in hg.nodes : f[v] = b
       /\ \A v \in hg.nodes : IsFixed(v) => f[v] = input.fixed[v]
       /\ part' = [v \in Hypernode |-> IF v \in hg.nodes THEN f[v] ELSE Unassigned]
  /\ UNCHANGED <<hg, edgeWeight, phase, queue, levels, flowVars>>

BeginUncoarsening ==
  /\ phase = "coarsest"
  /\ \A v \in hg.nodes : part[v] # Unassigned
  /\ phase' = "uncoarsen"
  /\ metric' = Objective(Current, part, input.objective)
  /\ initialObjective' = metric'
  /\ executionLevels' = executionLevels \o NewExecutionLevels
  /\ UNCHANGED <<hg, edgeWeight, part, queue, levels, improving, rounds, timeUp, iteration, cycle>>

Uncontract ==
  LET memento == Last(levels)
  IN  /\ phase = "uncoarsen"
      /\ levels # << >>
      /\ hg' = memento.hg /\ edgeWeight' = memento.edgeWeight
      /\ part' = [part EXCEPT ![memento.v] = part[memento.u]]
      /\ levels' = Front(levels)
      /\ phase' = "refine" /\ iteration' = 1
      /\ UNCHANGED <<queue, metric, initialObjective, executionLevels, improving, rounds, timeUp, cycle>>

SkipFlow ==
  /\ phase = "refine"
  /\ ~ ExecuteFlow
  /\ phase' = "uncoarsen"
  /\ UNCHANGED <<hg, edgeWeight, part, queue, levels, flowVars>>

\* The next V-cycle coarsens again, the partition is kept.
EndUncoarsening ==
  /\ phase = "uncoarsen"
  /\ levels = << >>
  /\ IF cycle < input.vcycles /\ (cycle = 0 \/ metric < initialObjective)
     THEN phase' = "detect" /\ cycle' = cycle + 1
     ELSE phase' = "end" /\ UNCHANGED cycle
  /\ UNCHANGED <<hg, edgeWeight, part, queue, levels, metric, initialObjective, executionLevels, improving,
                 rounds, timeUp, iteration>>

FlowInit ==
  /\ metric = 0 /\ initialObjective = 0 /\ executionLevels = << >> /\ improving = {}
  /\ lists = << >> /\ edges = {} /\ remaining = {} /\ nextActive = {} /\ improved = FALSE /\ pair = {}
  /\ allowed = << >> /\ result = NoImprovement /\ goesOn = FALSE /\ timeUp = FALSE
  /\ iteration = 1 /\ cycle = 0 /\ roundStart = << >>

vars == <<hg, edgeWeight, input, louvainVars, coarseningVars, flowVars>>

Detect(step) == /\ phase = "detect" /\ input.detect
                /\ step
                /\ UNCHANGED <<hg, edgeWeight, input, coarseningVars, flowVars>>
Coarsen(step) == step /\ UNCHANGED <<input, louvainVars, flowVars>>
Refine(step) == step /\ UNCHANGED <<input, louvainVars>>

Next ==
  \/ Detect(BeginLouvain) \/ Detect(BeginPass) \/ Detect(Visit) \/ Detect(NextIteration)
  \/ Detect(EndPass) \/ Detect(MapBack) \/ Detect(SetCommunities)
  \/ Coarsen(BeginCoarsening) \/ Coarsen(RateTop) \/ Coarsen(ContractLazily) \/ Coarsen(ContractFully)
  \/ Coarsen(BeginCoarseningPass) \/ Coarsen(VisitHypernode) \/ Coarsen(EndCoarsening)
  \/ Refine(InitialPartition) \/ Refine(BeginUncoarsening) \/ Refine(Uncontract) \/ Refine(SkipFlow)
  \/ Refine(BeginFlow) \/ Refine(RefinePair) \/ Refine(UpdatePartition) \/ Refine(GiveUp)
  \/ Refine(EndPair) \/ Refine(NextRound) \/ Refine(EndFlow) \/ Refine(EndUncoarsening)
-----------------------------------------------------------------------------
\* checkMetric in refineImpl, whose check of the block weights throws, and the
\* fixed vertices: after every update and on every level the objective that is
\* tracked through the cuts of flow hypergraphs is that of the partition, no
\* block that is refined has become heavier than allowed, and no fixed vertex
\* has left its block, also of those that are inside another hypernode.
FlowExact ==
  /\ phase \in {"uncoarsen", "refine", "flow"} => metric = Objective(Current, part, input.objective)
  /\ \A b \in pair : Weight(part, b) <= allowed[b]
  /\ \A v \in hg.nodes : part[v] # Unassigned /\ IsFixed(v) => part[v] = input.fixed[v]

\* The assertion of blockPairCutHyperedges, see module QuotientGraph: while
\* flows run, the lists miss no net between two blocks.
CutListsComplete == phase = "flow" => Q!CutListsComplete

\* The comment in refineImpl about an infinite loop: there is a further round
\* only if the last one has improved the objective, or kept it and improved the
\* balance of all blocks.  As there are finitely many partitions, the rounds end.
RoundsImprove == [][NextRound => Better(Quality(part), roundStart)]_vars
=============================================================================
