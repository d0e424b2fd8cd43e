------------------------------ MODULE TwoWayFM ------------------------------
(***************************************************************************)
(* TwoWayFMRefiner (kahypar/partition/refinement/2way_fm_refiner.h), the   *)
(* local search for two blocks, driven by the uncoarsening of module       *)
(* NLevel: after every uncontraction (u, v) a search starts from u and v,  *)
(* alone or behind flow refinement (TwoWayFMFlowRefiner), whose moves it   *)
(* has to repeat.  The gain cache lives from level to level and is only    *)
(* ever corrected: by moves, by their rollback and by uncontractions.      *)
(*                                                                         *)
(* search.stage says how far the local search of a level has come:         *)
(*   idle      none is running                                             *)
(*   flow      the refiner is about to be called for search.nodes          *)
(*   dictated  in the loop of performMovesAndUpdateCache                   *)
(*   refine    refineImpl is about to be called                            *)
(*   moving    its loop of moves            rollback  its loop of undoes   *)
(* The other fields of search are the local variables of the search; what  *)
(* the refiner keeps as members stays behind when a search is over.        *)
(***************************************************************************)
EXTENDS Integers, FiniteSets, SequencesExt

CONSTANTS Hypernode, Hyperedge, InitPins, InitNumPins, InitWeight,
          Block, NoBlock, NoCount, FixedPart, MaxVCycles,
          InitEdgeWeight, MaxNodeWeight, TimeLimited,      \* see NLevel
          NotCached,             \* kNotCached
          Free, Locked,          \* HEState
          MaxPartWeight,         \* partition.max_part_weights
          PerfectWeight,         \* partition.perfect_balance_part_weights
          MaxImbalance,          \* partition.epsilon, in the unit of Imbalance
          MaxIterations,         \* local_search.iterations_per_level
          MaxFlowMoves           \* bound on the moves of a flow refinement

ASSUME HypergraphAssumption == /\ IsFiniteSet(Hypernode) /\ Hypernode # {}
                               /\ IsFiniteSet(Hyperedge)
                               /\ InitPins \in [Hyperedge -> SUBSET Hypernode]
                               /\ InitNumPins \in Nat
                               /\ InitWeight \in [Hypernode -> Nat]
                               /\ IsFiniteSet(Block) /\ NoBlock \notin Block
                               /\ NoCount \notin Int
                               /\ FixedPart \in [Hypernode -> Block \cup {NoBlock}]
                               /\ InitEdgeWeight \in [Hyperedge -> Nat]
                               /\ MaxVCycles \in Nat /\ MaxNodeWeight \in Nat
                               /\ TimeLimited \subseteq 0 .. MaxVCycles
ASSUME TwoBlocks == Cardinality(Block) = 2
ASSUME NotCachedAssumption == NotCached \notin Int
ASSUME StatesAssumption == Free \notin Block /\ Locked \notin Block /\ Free # Locked
ASSUME WeightsAssumption == /\ MaxPartWeight \in [Block -> Nat]
                            /\ PerfectWeight \in [Block -> Nat \ {0}]
                            /\ MaxImbalance \in Nat
                            /\ MaxIterations \in Nat \ {0}
                            /\ MaxFlowMoves \in Nat

VARIABLES hg, log, phase, vcycle, part, netPart, cutNets, block, fixedVertices,
          edgeWeight, hash, history, removedSingle, removedParallel, maxWeights,
          pc, cursor, timeUp,    \* see NLevel
          cache,          \* _gain_cache: value of each hypernode
          delta,          \* _gain_cache: what a rollback adds to the value
          changes,        \* UncontractionGainChanges of the last uncontraction
          key,            \* _pq: hypernodes in the queue of their other block
          enabled,        \* _pq: the blocks whose queue is enabled
          state,          \* activity of each hypernode, see HypernodeState
          locks,          \* _locked_hes
          fullyActive,    \* _he_fully_active
          moves,          \* _performed_moves
          metrics,        \* best_metrics: cut and imbalance
          search          \* see above

level == <<hg, log, phase, vcycle, part, netPart, cutNets, block, fixedVertices,
           edgeWeight, hash, history, removedSingle, removedParallel, maxWeights,
           pc, cursor, timeUp>>
gains == <<cache, delta>>
queue == <<key, enabled>>
members == <<gains, queue, state, locks, fullyActive, moves>>
vars == <<level, members, changes, metrics, search>>

N == INSTANCE NLevel

Other(b) == CHOOSE c \in Block : c # b
IsFixed(v) == FixedPart[v] # NoBlock
IsBorder(v) == cutNets[v] > 0

NoSearch == [stage |-> "idle", nodes |-> << >>, cut |-> 0, initialCut |-> 0,
             initialImbalance |-> 0, best |-> 0, cursor |-> 0, iteration |-> 0, dictated |-> {}]
NoChanges == [representative |-> 0, partner |-> 0]

\* metrics::hyperedgeCut, and metrics::imbalance as a fraction over the
\* product of the perfect weights.
SumOver(E, f) == MapThenSumSet(LAMBDA e : f[e], E)
Cut == SumOver(hg.edges, [e \in hg.edges |-> IF netPart[e].connectivity > 1 THEN edgeWeight[e] ELSE 0])
Imbalance(weight) == Max({weight[b] * PerfectWeight[Other(b)] : b \in Block})
WeightsOf(bl) == [b \in Block |-> bl[b].weight]

\* max_allowed_part_weights: a block may be overloaded by one hypernode.
MaxAllowed(b) == MaxPartWeight[b] + Last(maxWeights).weight

\* computeGain: what the cut loses if v changes its block.
Gain(v) ==
  SumOver(hg.nets[v], [e \in hg.nets[v] |->
                         (IF netPart[e].count[part[v]] = 1 THEN edgeWeight[e] ELSE 0)
                         - (IF netPart[e].count[Other(part[v])] = 0 THEN edgeWeight[e] ELSE 0)])
-----------------------------------------------------------------------------
\* The gain changes of u and v that uncontract(memento, changes) adds up while
\* it restores the nets, from the pin counts after the restoration.
GainChanges(u, v, counted) ==
  LET cutOff == N!H!I!CutOffNets(hg, u, v)
      reused == N!H!I!ReusedNets(hg, u, v)
      onlyU == hg.nets[u] \ (cutOff \cup reused)
      single(e, n) == IF counted[e].count[part[u]] = n THEN edgeWeight[e] ELSE 0
      lost(e) == IF counted[e].connectivity > 1 THEN single(e, 1) ELSE - edgeWeight[e]
      taken == SumOver(cutOff, [e \in cutOff |-> single(e, 2)])
      without(E) == SumOver(E, [e \in E |-> lost(e)])
  IN [representative |-> - taken - without(reused),
      partner        |-> - taken - without(onlyU)]

\* updateGainCacheAfterUncontraction.  In later iterations of a level
\* v is cached, and the order in which the two come is arbitrary.
Applied(u, v) ==
  IF cache[v] = NotCached /\ cache[u] # NotCached
  THEN [cache EXCEPT ![v] = cache[u] + changes.partner, ![u] = cache[u] + changes.representative]
  ELSE cache

\* initializeImpl: the cache is cleared and filled for the current hypernodes.
\* (The variant does not clear what an earlier V-cycle has left.)
NotCleared == [v \in Hypernode |-> IF v \in hg.nodes THEN Gain(v) ELSE cache[v]]
Initialized == [v \in Hypernode |-> IF v \in hg.nodes THEN Gain(v) ELSE NotCached]
-----------------------------------------------------------------------------
\* Whether the queue of block b is empty; enabling and disabling it.  (The
\* queue is a library's; an empty queue is always disabled.)
Queued(k, b) == \E v \in DOMAIN k : Other(part[v]) = b
Enable(on, k, b) == IF Queued(k, b) THEN on \cup {b} ELSE on
NonEmpty(on, k) == {b \in on : Queued(k, b)}

\* activate for every hypernode of the set A that is a border node (of the
\* given counters) and free: into the queue, which is enabled if its block is
\* not overloaded.
Activatable(A, cuts) == {v \in A : cuts[v] > 0 /\ ~ IsFixed(v)}
Inserted(k, A, values) == [v \in DOMAIN k \cup A |-> IF v \in A THEN values[v] ELSE k[v]]
EnabledBy(on, A, bl) ==
  on \cup {b \in Block : bl[b].weight < MaxAllowed(b) /\ \E v \in A : Other(part[v]) = b}

\* What a move from block `from` to block `to` that leaves the given pin counts
\* in net e changes in the gain of another pin q of e.  (The variant treats a
\* net of two pins like any other.)
GainDeltaIgnoringPairs(e, q, from, to, count) ==
  LET w == edgeWeight[e]
  IN IF count[to] = 1 THEN w
     ELSE IF count[from] = 0 THEN - w
     ELSE IF count[to] = 2 /\ part[q] # from THEN - w
     ELSE IF count[from] = 1 /\ part[q] = from THEN w
     ELSE 0

GainDelta(e, q, from, to, count) ==
  LET w == edgeWeight[e]
  IN IF Cardinality(hg.pins[e]) = 2 THEN IF part[q] = from THEN 2 * w ELSE - 2 * w
     ELSE IF count[to] = 1 THEN w
     ELSE IF count[from] = 0 THEN - w
     ELSE IF count[to] = 2 /\ part[q] # from THEN - w
     ELSE IF count[from] = 1 /\ part[q] = from THEN w
     ELSE 0

Critical(from, to, count) == count[to] \in {1, 2} \/ count[from] \in {0, 1}

\* The gain changes of q by the moved nets E together.
Delta(E, q, from, to, counts) ==
  LET shared == {e \in E : q \in hg.pins[e]}
  IN SumOver(shared, [e \in shared |-> GainDelta(e, q, from, to, counts[e].count)])

\* The nets of v for which updateNeighbours changes keys in the queue: a locked
\* net changes no gain of a hypernode that can still be moved.  (The variant
\* takes a loose net for a locked one.)
FreeNets(v) == {e \in hg.nets[v] : locks[e] = Free}
UnlockedNets(v) == {e \in hg.nets[v] : locks[e] # Locked}

\* The nets of v for which fullUpdate looks for hypernodes to activate: in the
\* transitions free -> loose and loose -> locked.
FullNets(v, from, to, counts) ==
  {e \in UnlockedNets(v) :
     locks[e] # to /\ (Critical(from, to, counts[e].count) \/ e \notin fullyActive)}

Inactive(e, v) == {q \in hg.pins[e] \ {v} : state[q] = "inactive"}
Active(e, v) == {q \in hg.pins[e] \ {v} : state[q] = "active"}

\* fullUpdate counts the active pins of a net to skip it the next time: v, the
\* active ones, and those that no earlier net has found.
FoundFullyActive(full, v, order) ==
  LET earlier(e) == {f \in full : \E i, j \in DOMAIN order : i < j /\ order[i] = f /\ order[j] = e}
      new(e) == Inactive(e, v) \ UNION {Inactive(f, v) : f \in earlier(e)}
  IN {e \in full : 1 + Cardinality(Active(e, v)) + Cardinality(new(e)) = Cardinality(hg.pins[e])}

\* The state of each net of v after its move.
LocksAfter(v, to) ==
  [e \in Hyperedge |->
     IF e \notin hg.nets[v] \/ locks[e] = to THEN locks[e]
     ELSE IF locks[e] = Free THEN to ELSE Locked]
-----------------------------------------------------------------------------
Init ==
  /\ N!Init
  /\ cache = [v \in Hypernode |-> NotCached]
  /\ delta = [v \in Hypernode |-> 0]
  /\ changes = NoChanges
  /\ key = << >>
  /\ enabled = {}
  /\ state = [v \in Hypernode |-> "inactive"]
  /\ locks = [e \in Hyperedge |-> Free]
  /\ fullyActive = {}
  /\ moves = << >>
  /\ metrics = [cut |-> 0, imbalance |-> 0]
  /\ search = NoSearch

\* Coarsening, initial partitioning and the next V-cycle do not use the refiner.
Coarsening ==
  /\ \/ \E u, v \in Hypernode : N!PerformContraction(u, v)
     \/ \E e \in Hyperedge : N!RemoveSingle(e)
     \/ \E rep, e \in Hyperedge : N!RemoveParallel(rep, e)
     \/ \E v \in Hypernode, b \in Block : N!SetNodePart(v, b)
     \/ search.stage = "idle" /\ N!StartVCycle
  /\ UNCHANGED <<members, changes, metrics, search>>

\* doUncoarsen up to its loop: metrics and gains of the coarsest level.
BeginUncoarsening ==
  /\ N!InitializeNumCutHyperedges
  /\ metrics' = [cut |-> Cut, imbalance |-> Imbalance(WeightsOf(block))]
  /\ cache' = Initialized
  /\ delta' = [v \in Hypernode |-> 0]
  /\ changes' = NoChanges
  /\ UNCHANGED <<queue, state, locks, fullyActive, moves, search>>

\* The steps of a level before its uncontraction.
RestoreNets ==
  /\ search.stage = "idle"
  /\ N!BeginLevel \/ N!RestoreParallel \/ N!ParallelRestored \/ N!RestoreSingle
  /\ UNCHANGED <<members, changes, metrics, search>>

\* The uncontraction, and the call of performLocalSearch.
Uncontract ==
  LET u == Last(history).u
      v == Last(history).v
  IN /\ N!Uncontract
     /\ changes' = GainChanges(u, v, netPart')
     /\ search' = [NoSearch EXCEPT !.stage = "flow", !.nodes = <<u, v>>]
     /\ UNCHANGED <<members, metrics>>
-----------------------------------------------------------------------------
(* Flow refinement.  Which moves it makes is left open, see module Flow;     *)
(* all of them together improve the cut, or the balance at the same cut.     *)

\* There is none, or it improves nothing.
SkipFlow ==
  /\ search.stage = "flow"
  /\ search' = [search EXCEPT !.stage = "refine"]
  /\ UNCHANGED <<level, members, changes, metrics>>

\* Its moves, rolled back, are performed again by performMovesAndUpdateCache,
\* which takes over the gain changes of the uncontraction.
BeginDictated ==
  /\ search.stage = "flow"
  /\ MaxFlowMoves > 0
  /\ cache' = Applied(search.nodes[1], search.nodes[2])
  /\ changes' = NoChanges
  /\ search' = [search EXCEPT !.stage = "dictated"]
  /\ UNCHANGED <<level, delta, queue, state, locks, fullyActive, moves, metrics>>

\* One of them.  Only the cache is updated; the deltas are dropped at the end.
DictatedMove(v) ==
  LET from == part[v]
      to == Other(from)
      change(q) == Delta(hg.nets[v], q, from, to, netPart')
  IN /\ search.stage = "dictated"
     /\ Cardinality(search.dictated) < MaxFlowMoves
     /\ v \notin search.dictated
     /\ N!ChangeNodePart(v, to)
     /\ cache' = [q \in Hypernode |-> IF q = v THEN - cache[v]
                                      ELSE IF cache[q] = NotCached THEN NotCached
                                      ELSE cache[q] + change(q)]
     /\ search' = [search EXCEPT !.dictated = @ \cup {v}]
     /\ UNCHANGED <<delta, queue, state, locks, fullyActive, moves, changes, metrics>>

\* The flow refiner has set the metrics to those of its partition.
EndDictated ==
  /\ search.stage = "dictated"
  /\ search.dictated # {}
  /\ metrics' = [cut |-> Cut, imbalance |-> Imbalance(WeightsOf(block))]
  /\ \/ metrics'.cut < metrics.cut
     \/ metrics'.cut = metrics.cut /\ metrics'.imbalance < metrics.imbalance
  /\ search' = [search EXCEPT !.stage = "refine"]
  /\ UNCHANGED <<level, members, changes>>
-----------------------------------------------------------------------------

\* activateAdjacentFreeVertices: the pins of the nets of fixed vertices.
AroundFixed(nodes) == UNION {hg.pins[e] : e \in UNION {hg.nets[x] : x \in {y \in nodes : IsFixed(y)}}}

\* refineImpl up to its loop.  The vector of refinement nodes is shuffled, and
\* stays so for the next iteration.  Around a fixed refinement node its free
\* neighbours are activated.
Refine ==
  /\ search.stage = "refine"
  /\ LET values == Applied(search.nodes[1], search.nodes[2])
         nodes == ToSet(search.nodes)
         A == Activatable(nodes \cup AroundFixed(nodes), cutNets)
     IN /\ cache' = values
        /\ key' = Inserted(<< >>, A, values)
        /\ enabled' = EnabledBy({}, A, block)
        /\ state' = [v \in Hypernode |-> IF v \in A THEN "active" ELSE "inactive"]
  /\ locks' = [e \in Hyperedge |-> Free]
  /\ fullyActive' = {}
  /\ moves' = << >>
  /\ \E order \in {search.nodes, Reverse(search.nodes)} :
       search' = [search EXCEPT !.stage = "moving", !.nodes = order, !.cut = metrics.cut, !.best = 0,
                                !.initialCut = metrics.cut, !.initialImbalance = metrics.imbalance]
  /\ UNCHANGED <<level, delta, changes, metrics>>

\* _pq.deleteMax: a hypernode of greatest key in the enabled queues.
Best == {v \in DOMAIN key :
           /\ Other(part[v]) \in enabled
           /\ \A w \in DOMAIN key : Other(part[w]) \in enabled => key[w] <= key[v]}

\* Whether the partition reached is the best so far.  (The variant looks at
\* the cut only.)
AnyBetterCut(cut, bl, from) == cut < metrics.cut
Improved(cut, bl, from) ==
  /\ bl[from].size > 0
  /\ \/ cut < metrics.cut /\ \A b \in Block : bl[b].weight <= MaxPartWeight[b]
     \/ Imbalance(WeightsOf(bl)) < metrics.imbalance /\ cut <= metrics.cut

\* One iteration of the loop of moves, updateNeighbours included: its nets are
\* visited in any order; then border nodes found by it are activated, and
\* hypernodes that are no border nodes any more leave the queue.
Move(v) ==
  LET from == part[v]
      to == Other(from)
      taken == [q \in DOMAIN key \ {v} |-> key[q]]
      change(q) == Delta(hg.nets[v], q, from, to, netPart')
      full == FullNets(v, from, to, netPart')
      found == Activatable(UNION {Inactive(e, v) : e \in full}, cutNets')
      internal == {q \in DOMAIN key : cutNets[q] > 0 /\ cutNets'[q] = 0}
      cut == search.cut - key[v]
      better == Improved(cut, block', from)
  IN /\ search.stage = "moving"
     /\ v \in Best
     /\ N!ChangeNodePart(v, to)
     /\ cache' = [q \in Hypernode |-> IF q = v THEN - cache[v]
                                      ELSE IF cache[q] = NotCached THEN NotCached
                                      ELSE cache[q] + change(q)]
     /\ delta' = [q \in Hypernode |-> IF better THEN 0
                                      ELSE IF q = v THEN delta[v] + 2 * cache[v]
                                      ELSE delta[q] - change(q)]
     /\ key' = [q \in (DOMAIN taken \cup found) \ internal |->
                   IF q \in found THEN cache'[q]
                   ELSE key[q] + Delta(UnlockedNets(v), q, from, to, netPart')]
     /\ LET stay == NonEmpty(enabled, taken)
            less == IF block'[to].weight >= MaxAllowed(to) THEN stay \ {to} ELSE stay
            more == IF block'[from].weight < MaxAllowed(from) THEN Enable(less, taken, from) ELSE less
        IN enabled' = NonEmpty(EnabledBy(more, found, block'), key')
     /\ state' = [q \in Hypernode |-> IF q = v THEN "marked"
                                      ELSE IF q \in internal THEN "inactive"
                                      ELSE IF q \in found THEN "active" ELSE state[q]]
     /\ locks' = LocksAfter(v, to)
     /\ \E order \in SetToSeqs(full) :
          fullyActive' = (fullyActive \ full) \cup FoundFullyActive(full, v, order)
     /\ moves' = Append(moves, v)
     /\ metrics' = IF better THEN [cut |-> cut, imbalance |-> Imbalance(WeightsOf(block'))] ELSE metrics
     /\ search' = [search EXCEPT !.cut = cut, !.best = IF better THEN Len(moves') ELSE @]
     /\ UNCHANGED changes

\* The loop ends: the queue is empty, or the stopping policy (left open) says so.
StopMoving ==
  /\ search.stage = "moving"
  /\ search' = [search EXCEPT !.stage = "rollback", !.cursor = Len(moves)]
  /\ UNCHANGED <<level, members, changes, metrics>>

\* One iteration of rollback: the moves behind the best one are undone.
Rollback ==
  /\ search.stage = "rollback"
  /\ search.cursor > search.best
  /\ LET v == moves[search.cursor] IN N!ChangeNodePart(v, Other(part[v]))
  /\ search' = [search EXCEPT !.cursor = @ - 1]
  /\ UNCHANGED <<members, changes, metrics>>

\* rollbackDelta.
RolledBack == [v \in Hypernode |-> IF cache[v] = NotCached THEN NotCached ELSE cache[v] + delta[v]]

\* The end of refineImpl: another iteration if the search, or the flow before
\* it, has improved the partition (CutDecreasedOrInfeasibleImbalanceDecreased),
\* else the level is done.
EndSearch ==
  LET improved == \/ search.dictated # {}
                  \/ metrics.cut < search.initialCut
                  \/ /\ search.initialImbalance > MaxImbalance
                     /\ metrics.imbalance < search.initialImbalance
  IN /\ search.stage = "rollback"
     /\ search.cursor = search.best
     /\ cache' = RolledBack
     /\ delta' = [v \in Hypernode |-> 0]
     /\ changes' = NoChanges
     /\ search' = IF improved /\ search.iteration + 1 < MaxIterations
                  THEN [NoSearch EXCEPT !.stage = "flow", !.nodes = search.nodes,
                                        !.iteration = search.iteration + 1]
                  ELSE NoSearch
     /\ UNCHANGED <<level, queue, state, locks, fullyActive, moves, metrics>>

Uncoarsening ==
  \/ RestoreNets \/ Uncontract \/ SkipFlow \/ BeginDictated \/ EndDictated \/ Refine
  \/ \E v \in Hypernode : DictatedMove(v) \/ Move(v)
  \/ StopMoving \/ Rollback \/ EndSearch

Next == Coarsening \/ BeginUncoarsening \/ Uncoarsening

Spec == Init /\ [][Next]_vars
-----------------------------------------------------------------------------
TypeOK ==
  /\ cache \in [Hypernode -> Int \cup {NotCached}]
  /\ delta \in [Hypernode -> Int]
  /\ DOMAIN key \subseteq Hypernode
  /\ enabled \in SUBSET Block
  /\ state \in [Hypernode -> {"inactive", "active", "marked"}]
  /\ locks \in [Hyperedge -> Block \cup {Free, Locked}]
  /\ fullyActive \in SUBSET Hyperedge
  /\ moves \in Seq(Hypernode)
  /\ metrics \in [cut : Nat, imbalance : Nat]
  /\ search.stage \in {"idle", "flow", "dictated", "refine", "moving", "rollback"}

\* ASSERT_THAT_GAIN_CACHE_IS_VALID: the cached gain of every hypernode is its
\* gain computed from scratch: between levels, while nets are restored, between
\* moves, those that flows dictate included, and after the rollback.  Right after
\* an uncontraction it is the gain changes that make up the difference.
GainCacheExact ==
  phase = "refining" =>
    CASE search.stage \in {"idle", "dictated", "moving"} ->
           \A v \in hg.nodes : cache[v] # NotCached => cache[v] = Gain(v)
      [] search.stage \in {"flow", "refine"} ->
           LET values == Applied(search.nodes[1], search.nodes[2])
           IN \A v \in hg.nodes : values[v] = Gain(v)
      [] OTHER -> TRUE

\* The queue is as exact as the cache although moves over locked nets skip it
\* ("max_gain == _gain_cache.value(max_gain_node)"), and holds exactly the
\* active hypernodes: border nodes that are free and have not been moved.
QueueExact ==
  search.stage = "moving" =>
    /\ \A v \in DOMAIN key : key[v] = cache[v] /\ IsBorder(v) /\ ~ IsFixed(v)
    /\ DOMAIN key = {v \in Hypernode : state[v] = "active"}
    /\ ToSet(moves) = {v \in Hypernode : state[v] = "marked"}

\* "UpdateNeighbors failed!": around a moved hypernode every free border node
\* is queued unless it has been moved itself.
NeighboursQueued ==
  search.stage = "moving" =>
    \A v \in ToSet(moves) : \A e \in hg.nets[v] : \A q \in hg.pins[e] :
      IsBorder(q) /\ ~ IsFixed(q) => q \in DOMAIN key \cup ToSet(moves)

\* The assertion at the end of updateNeighbours: the queue of a block is
\* enabled iff it is not empty and the block is not overloaded.
EnabledExact ==
  search.stage = "moving" =>
    \A b \in Block : b \in enabled <=> Queued(key, b) /\ block[b].weight < MaxAllowed(b)

\* A net is locked once hypernodes have been moved into both blocks of it, and
\* from then on stays in the cut: the reason why its gains need no update.
LocksFollowMoves ==
  search.stage = "moving" =>
    \A e \in hg.edges :
      LET to == {part[v] : v \in ToSet(moves) \cap hg.pins[e]}
      IN locks[e] = (IF to = {} THEN Free ELSE IF to = Block THEN Locked ELSE CHOOSE b \in Block : b \in to)

\* Queues, states and locks belong together at every move of a search.
SearchStateExact == TypeOK /\ QueueExact /\ NeighboursQueued /\ EnabledExact /\ LocksFollowMoves

\* The metrics that are only ever updated by gains are those of the partition:
\* of the best one when a search is over, and current_cut during the moves.
MetricsExact ==
  phase = "refining" =>
    /\ search.stage = "idle" =>
         metrics = [cut |-> Cut, imbalance |-> Imbalance(WeightsOf(block))]
    /\ search.stage = "moving" => search.cut = Cut

\* A search ends with a partition that is no worse than the one it began with:
\* never a greater cut; no less balanced at the same cut, nor if the blocks are
\* overloaded.
Balanced == \A b \in Block : block[b].weight <= MaxPartWeight[b]
SearchNeverWorse ==
  [][search.stage = "rollback" /\ search'.stage # "rollback" =>
       /\ Cut' <= search.initialCut
       /\ Cut' = search.initialCut \/ ~ Balanced' =>
            Imbalance(WeightsOf(block))' <= search.initialImbalance]_vars
=============================================================================
