------------------------------- MODULE KWayFM -------------------------------
(***************************************************************************)
(* KWayKMinusOneRefiner (kahypar/partition/refinement/                     *)
(* kway_fm_km1_refiner.h), the local search for k blocks and the           *)
(* connectivity metric, driven by the uncoarsening of module NLevel, alone *)
(* or behind flow refinement (KWayFMFlowRefiner), whose moves it has to    *)
(* take over into its gain cache.  The cache has an entry for a hypernode  *)
(* and a block exactly if they are connected: entries are corrected, but   *)
(* also appear and disappear, by moves and by their rollback.              *)
(*                                                                         *)
(* search.stage says how far the local search of a level has come:         *)
(*   idle      none is running                                             *)
(*   flow      the refiner is about to be called for search.nodes          *)
(*   dictated  performMovesAndUpdateCache     refine    refineImpl begins  *)
(*   moving    its loop of moves              rollback  its loop of undoes *)
(***************************************************************************)
EXTENDS Integers, FiniteSets, SequencesExt

CONSTANTS Hypernode, Hyperedge, InitPins, InitNumPins, InitWeight,
          Block, NoBlock, NoCount, FixedPart, MaxVCycles,
          InitEdgeWeight, MaxNodeWeight, TimeLimited,      \* see NLevel
          MaxPartWeight,     \* partition.max_part_weights
          PerfectWeight,     \* partition.perfect_balance_part_weights
          Unit,              \* imbalances are multiples of 1 / Unit
          MaxImbalance,      \* partition.epsilon, likewise
          MaxIterations,     \* local_search.iterations_per_level
          SizeThreshold,     \* partition.hyperedge_size_threshold
          MaxFlowMoves       \* bound on the moves of a flow refinement

ASSUME WeightsAssumption == /\ MaxPartWeight \in [Block -> Nat]
                            /\ PerfectWeight \in [Block -> Nat \ {0}]
                            /\ Unit \in Nat \ {0}
                            /\ \A b \in Block : Unit % PerfectWeight[b] = 0
                            /\ MaxImbalance \in Nat
ASSUME BoundsAssumption == /\ MaxIterations \in Nat \ {0}
                           /\ SizeThreshold \in Nat
                           /\ MaxFlowMoves \in Nat

VARIABLES hg, log, phase, vcycle, part, netPart, cutNets, block, fixedVertices,
          edgeWeight, hash, history, removedSingle, removedParallel, maxWeights,
          pc, cursor, timeUp,    \* see NLevel
          cache,          \* _gain_cache: of each hypernode, gains of blocks
          undo,           \* _deltas, by moves
          key,            \* _pq: of each active hypernode, keys of blocks
          enabled,        \* _pq: the blocks whose queue is enabled
          state,          \* activity of each hypernode
          unremovable,    \* _unremovable_he_parts, of each net
          moves,          \* _performed_moves
          metrics,        \* best_metrics: km1 and imbalance
          search          \* see above

level == <<hg, log, phase, vcycle, part, netPart, cutNets, block, fixedVertices,
           edgeWeight, hash, history, removedSingle, removedParallel, maxWeights,
           pc, cursor, timeUp>>
gains == <<cache, undo>>
queue == <<key, enabled>>
members == <<gains, queue, state, unremovable, moves>>
vars == <<level, members, metrics, search>>

N == INSTANCE NLevel

IsFixed(v) == FixedPart[v] # NoBlock
IsBorder(v) == cutNets[v] > 0

NoSearch == [stage |-> "idle", nodes |-> << >>, km1 |-> 0, initialKm1 |-> 0, initialImbalance |-> 0,
             best |-> 0, cursor |-> 0, iteration |-> 0, flow |-> FALSE]

\* metrics::imbalance, in multiples of 1 / Unit and without the - 1.
Imbalance(bl) == Max({bl[b].weight * (Unit \div PerfectWeight[b]) : b \in Block})
CurrentMetrics(km1, bl) == [km1 |-> km1, imbalance |-> Imbalance(bl)]

\* gainInducedByHypergraph: what the metric loses if v moves to block p, for
\* the data `counted` of the nets.
GainIn(counted, v, p) ==
  LET gain(e) == (IF counted[e].count[part[v]] = 1 THEN edgeWeight[e] ELSE 0)
                 - (IF counted[e].count[p] = 0 THEN edgeWeight[e] ELSE 0)
  IN MapThenSumSet(gain, hg.nets[v])

ConnectedTo(counted, v, p) == \E e \in hg.nets[v] : counted[e].count[p] > 0

\* initializeGainCacheFor: the entries of v are its adjacent blocks.
Entries(v) ==
  [p \in UNION {netPart[e].blocks : e \in hg.nets[v]} \ {part[v]} |-> GainIn(netPart, v, p)]

\* The refinement nodes are computed anew before anything is moved.
Recomputed(nodes) ==
  [v \in Hypernode |-> IF v \in ToSet(nodes) THEN Entries(v) ELSE cache[v]]
-----------------------------------------------------------------------------
(* updateNeighbours after v has moved, `counted` the data of the nets.       *)

\* Blocks of a net that hold a marked hypernode: as none of their hypernodes
\* leaves, gains of the others change in few cases, and net e is dealt with
\* by the states of the two blocks in it.
BothUnremovable(e, from, to) == {from, to} \subseteq unremovable[e]
BothRemovable(e, from, to) == {from, to} \cap unremovable[e] = {}

Decreased(counted, e, from) == counted[e].count[from] = 0
Increased(counted, e, to) == counted[e].count[to] = 1

\* The nets whose pins are all visited: fullUpdate, and
\* updateForHEwithUnequalPartState if the connectivity of the net has changed.
FullyVisited(counted, v, from, to) ==
  {e \in hg.nets[v] :
     /\ ~ BothUnremovable(e, from, to)
     /\ \/ BothRemovable(e, from, to)
        \/ Decreased(counted, e, from) \/ Increased(counted, e, to)}

\* What the move changes in the gain that net e gives to pin q for block p, and
\* whether a net that is not fully visited finds q.
EntryDelta(counted, e, q, p, from, to) ==
  LET w == edgeWeight[e]
  IN (IF part[q] = from /\ counted[e].count[from] = 1 THEN w ELSE 0)
     - (IF part[q] = to /\ counted[e].count[to] = 2 THEN w ELSE 0)
     - (IF p = from /\ Decreased(counted, e, from) THEN w ELSE 0)
     + (IF p = to /\ Increased(counted, e, to) THEN w ELSE 0)
LastOrSecond(counted, e, q, from, to) ==
  \/ part[q] = from /\ counted[e].count[from] = 1
  \/ part[q] = to /\ counted[e].count[to] = 2

\* The sum of these changes over the nets E.
DeltaSum(counted, v, q, p, from, to, E) ==
  LET full == FullyVisited(counted, v, from, to)
  IN MapThenSumSet(LAMBDA e : EntryDelta(counted, e, q, p, from, to),
                   {e \in E : /\ q \in hg.pins[e]
                              /\ e \in full \/ LastOrSecond(counted, e, q, from, to)})

\* The hypernodes whose entry for `from` is removed, and those that get one for
\* `to`.
Lost(counted, v, from, to) ==
  {q \in UNION {hg.pins[e] : e \in {f \in FullyVisited(counted, v, from, to) :
                                      Decreased(counted, f, from)}} \ {v} :
     from \in DOMAIN cache[q] /\ ~ ConnectedTo(counted, q, from)}

Gained(counted, v, from, to) ==
  {q \in UNION {hg.pins[e] : e \in {f \in FullyVisited(counted, v, from, to) :
                                      Increased(counted, f, to)}} \ {v} :
     to \notin DOMAIN cache[q]}

\* What becomes of v's entries for other blocks, per net.
OwnDelta(counted, e, from, to) ==
  IF Decreased(counted, e, from) /\ ~ Increased(counted, e, to) THEN - edgeWeight[e]
  ELSE IF ~ Decreased(counted, e, from) /\ Increased(counted, e, to) THEN edgeWeight[e]
  ELSE 0

\* The operations on cache entries that updateNeighbours makes, by hypernode
\* and block.  Of others than v: a new entry is the gain after the move, and no
\* change is added to it; an entry is updated, or removed.  Of v (entries `own`
\* before): the entry for `from` is the negated one for `to`, which goes, if v
\* is still connected to it.  The order of the nets does not matter.
Op(kind, by) == [kind |-> kind, by |-> by]
OpsOnOthers(counted, v, from, to) ==
  LET lost == Lost(counted, v, from, to)
      gained == Gained(counted, v, from, to)
      touched == UNION {hg.pins[e] : e \in hg.nets[v]} \ {v}
  IN [qp \in {qp \in touched \X Block : qp[2] \in DOMAIN cache[qp[1]]} \cup gained \X {to} |->
        LET q == qp[1] p == qp[2]
        IN IF q \in gained /\ p = to THEN Op("add", GainIn(counted, q, to))
           ELSE IF q \in lost /\ p = from THEN Op("remove", cache[q][from])
           ELSE Op("update", DeltaSum(counted, v, q, p, from, to, hg.nets[v]))]
OpsOnMoved(counted, v, own, from, to) ==
  LET back == IF ConnectedTo(counted, v, from) THEN {from} ELSE {}
      delta(e) == OwnDelta(counted, e, from, to)
  IN [qp \in {v} \X (DOMAIN own \cup back) |->
        LET p == qp[2]
        IN IF p = from THEN Op("add", - own[to])
           ELSE IF p = to THEN Op("remove", own[to])
           ELSE Op("update", MapThenSumSet(delta, hg.nets[v]))]

\* The cache c after these operations; and the rollback elements they leave
\* behind, operations again.
Changed(c, ops) ==
  LET of(q, kind) == {p \in Block : <<q, p>> \in DOMAIN ops /\ ops[q, p].kind = kind}
  IN [q \in Hypernode |->
        [p \in (DOMAIN c[q] \cup of(q, "add")) \ of(q, "remove") |->
           IF p \in of(q, "add") THEN ops[q, p].by
           ELSE IF p \in of(q, "update") THEN c[q][p] + ops[q, p].by ELSE c[q][p]]]
RollbackElements(ops) ==
  [qp \in DOMAIN ops |->
     CASE ops[qp].kind = "add" -> Op("remove", ops[qp].by)
       [] ops[qp].kind = "remove" -> Op("add", ops[qp].by)
       [] OTHER -> Op("update", - ops[qp].by)]

\* rollbackDelta, from the last element to the first.
RolledBack == FoldLeft(Changed, cache, Reverse(undo))
-----------------------------------------------------------------------------
(* The queue.                                                                *)

Queued(k, b) == \E v \in DOMAIN k : b \in DOMAIN k[v]
Underloaded(bl) == {b \in Block : bl[b].weight < MaxPartWeight[b]}
NonEmpty(on, k) == {b \in on : Queued(k, b)}

\* activate: the border nodes of A (by the given counters) that are free, their
\* entries in the queues, and the queues that are enabled for it.
Activatable(A, cuts) == {v \in A : cuts[v] > 0 /\ ~ IsFixed(v)}
Inserted(k, A, c) == [v \in DOMAIN k \cup A |-> IF v \in A THEN c[v] ELSE k[v]]

Inactive(e) == {q \in hg.pins[e] : state[q] = "inactive"}

\* The inactive hypernodes that the move of v may have put next to the cut.
Discovered(counted, v, from, to) ==
  UNION {Inactive(e) \ {v} :
           e \in {f \in FullyVisited(counted, v, from, to) :
                    /\ Cardinality(hg.pins[f]) <= SizeThreshold
                    /\ BothRemovable(f, from, to) \/ Increased(counted, f, to)}}

\* The active hypernodes that it has made internal.
Internal(counted, v, from, to, cuts) ==
  {q \in DOMAIN key \ {v} :
     /\ cuts[q] = 0
     /\ \E e \in FullyVisited(counted, v, from, to) :
          q \in hg.pins[e] /\ (BothRemovable(e, from, to) \/ Decreased(counted, e, from))}

\* The keys after the removal of what is internal or not adjacent any more;
\* then with changes and new adjacent blocks.  Nets in which both blocks are
\* unremovable change no key.
KeysLeft(counted, v, from, to, cuts) ==
  LET lost == Lost(counted, v, from, to)
  IN [q \in DOMAIN key \ ({v} \cup Internal(counted, v, from, to, cuts)) |->
        [p \in DOMAIN key[q] \ (IF q \in lost THEN {from} ELSE {}) |->
           key[q][p] + DeltaSum(counted, v, q, p, from, to,
                                {e \in hg.nets[v] : ~ BothUnremovable(e, from, to)})]]
KeysAdded(k, counted, v, from, to) ==
  LET gained == Gained(counted, v, from, to)
  IN [q \in DOMAIN k |-> IF q \in gained THEN (to :> GainIn(counted, q, to)) @@ k[q] ELSE k[q]]

\* After its move v makes its new block unremovable in its nets.  (The variant
\* locks the net altogether.)
WithBoth(v, from, to) ==
  [e \in Hyperedge |-> IF e \in hg.nets[v] THEN unremovable[e] \cup {from, to} ELSE unremovable[e]]
WithBlock(v, from, to) ==
  [e \in Hyperedge |-> IF e \in hg.nets[v] THEN unremovable[e] \cup {to} ELSE unremovable[e]]
-----------------------------------------------------------------------------
Init ==
  /\ N!Init
  /\ cache = [v \in Hypernode |-> << >>]
  /\ undo = << >>
  /\ key = << >>
  /\ enabled = {}
  /\ state = [v \in Hypernode |-> "inactive"]
  /\ unremovable = [e \in Hyperedge |-> {}]
  /\ moves = << >>
  /\ metrics = [km1 |-> 0, imbalance |-> 0]
  /\ search = NoSearch

\* Coarsening, initial partitioning and the next V-cycle do not use the refiner.
Coarsening ==
  /\ \/ \E u, v \in Hypernode : N!PerformContraction(u, v)
     \/ \E e \in Hyperedge : N!RemoveSingle(e)
     \/ \E rep, e \in Hyperedge : N!RemoveParallel(rep, e)
     \/ \E v \in Hypernode, b \in Block : N!SetNodePart(v, b)
     \/ search.stage = "idle" /\ N!StartVCycle
  /\ UNCHANGED <<members, metrics, search>>

\* doUncoarsen up to its loop; initializeImpl clears the cache and fills it.
BeginUncoarsening ==
  /\ N!InitializeNumCutHyperedges
  /\ metrics' = CurrentMetrics(N!Km1, block)
  /\ cache' = [v \in Hypernode |-> IF v \in hg.nodes THEN Entries(v) ELSE << >>]
  /\ UNCHANGED <<undo, queue, state, unremovable, moves, search>>

\* The steps of a level before its uncontraction.
RestoreNets ==
  /\ search.stage = "idle"
  /\ N!BeginLevel \/ N!RestoreParallel \/ N!ParallelRestored \/ N!RestoreSingle
  /\ UNCHANGED <<members, metrics, search>>

\* The uncontraction, and the call of performLocalSearch.
Uncontract ==
  /\ N!Uncontract
  /\ search' = [NoSearch EXCEPT !.stage = "flow", !.nodes = <<Last(history).u, Last(history).v>>]
  /\ UNCHANGED <<members, metrics>>
-----------------------------------------------------------------------------
(* Flow refinement.  Which moves it makes is left open.                      *)

\* There is none, or it improves nothing.
SkipFlow ==
  /\ search.stage = "flow"
  /\ search' = [search EXCEPT !.stage = "refine"]
  /\ UNCHANGED <<level, members, metrics>>

Reset ==
  /\ key' = << >>
  /\ enabled' = {}
  /\ unremovable' = [e \in Hyperedge |-> {}]
  /\ moves' = << >>

\* Its moves, rolled back, are performed again by performMovesAndUpdateCache.
BeginDictated ==
  /\ search.stage = "flow"
  /\ MaxFlowMoves > 0
  /\ cache' = Recomputed(search.nodes)
  /\ state' = [v \in Hypernode |-> "inactive"]
  /\ Reset
  /\ search' = [search EXCEPT !.stage = "dictated", !.flow = TRUE]
  /\ UNCHANGED <<level, undo, metrics>>

\* One of them.  Block `to` need not be adjacent to v; the rollback elements
\* are dropped at the end, and only the cache is updated.
DictatedMove(v, to) ==
  LET from == part[v]
      own == IF to \in DOMAIN cache[v] THEN cache[v] ELSE (to :> GainIn(netPart, v, to)) @@ cache[v]
  IN /\ search.stage = "dictated"
     /\ Cardinality({q \in Hypernode : state[q] = "marked"}) < MaxFlowMoves
     /\ state[v] = "inactive"
     /\ N!ChangeNodePart(v, to)
     /\ LET others == OpsOnOthers(netPart', v, from, to)
            moved == OpsOnMoved(netPart', v, own, from, to)
        IN cache' = Changed([cache EXCEPT ![v] = own], others @@ moved)
     /\ state' = [state EXCEPT ![v] = "marked"]
     /\ unremovable' = WithBlock(v, from, to)
     /\ UNCHANGED <<undo, queue, moves, metrics, search>>

\* The flow refiner has set the metrics to those of its partition.
EndDictated ==
  /\ search.stage = "dictated"
  /\ \E v \in Hypernode : state[v] = "marked"
  /\ metrics' = CurrentMetrics(N!Km1, block)
  /\ search' = [search EXCEPT !.stage = "refine"]
  /\ UNCHANGED <<level, members>>
-----------------------------------------------------------------------------
\* activateAdjacentFreeVertices: the pins of the nets of fixed vertices.
AroundFixed(nodes) == UNION {hg.pins[e] : e \in UNION {hg.nets[x] : x \in {y \in nodes : IsFixed(y)}}}

\* refineImpl up to its loop.  The order of the refinement nodes is irrelevant
\* here.  Around a fixed one its free neighbours are activated.
Refine ==
  /\ search.stage = "refine"
  /\ LET nodes == ToSet(search.nodes)
         A == Activatable(nodes \cup AroundFixed(nodes), cutNets)
     IN /\ cache' = Recomputed(search.nodes)
        /\ key' = Inserted(<< >>, A, cache')
        /\ enabled' = NonEmpty(Underloaded(block), key')
        /\ state' = [v \in Hypernode |-> IF v \in A THEN "active" ELSE "inactive"]
  /\ unremovable' = [e \in Hyperedge |-> {}]
  /\ moves' = << >>
  /\ search' = [search EXCEPT !.stage = "moving", !.km1 = metrics.km1, !.best = 0,
                              !.initialKm1 = metrics.km1, !.initialImbalance = metrics.imbalance]
  /\ UNCHANGED <<level, undo, metrics>>

\* _pq.deleteMax: a move of greatest key in the enabled queues.
Best(v, b) ==
  /\ v \in DOMAIN key /\ b \in DOMAIN key[v] \cap enabled
  /\ \A q \in DOMAIN key : \A c \in DOMAIN key[q] \cap enabled : key[q][c] <= key[v][b]

\* moveIsFeasible.  (The variant may empty a block.)
FitsOnly(v, from, to) == block[to].weight + hg.weight[v] <= MaxPartWeight[to]
Feasible(v, from, to) ==
  /\ block[to].weight + hg.weight[v] <= MaxPartWeight[to]
  /\ block[from].size - 1 # 0

\* Whether the partition reached is the best so far.  (The variant takes one
\* that is just as good.)
NotWorse(new) ==
  \/ new.imbalance <= MaxImbalance /\ new.km1 <= metrics.km1
  \/ new.imbalance < metrics.imbalance /\ new.km1 <= metrics.km1
Improved(new) ==
  \/ new.imbalance <= MaxImbalance /\ new.km1 < metrics.km1
  \/ new.imbalance < metrics.imbalance /\ new.km1 <= metrics.km1

\* One iteration of the loop of moves, updateNeighbours included.  The queues
\* are emptied and filled in this order: the other moves of v are removed, the
\* states of the two blocks updated, keys removed, keys added, and hypernodes
\* activated.
Move(v, to) ==
  LET from == part[v]
      taken == [q \in DOMAIN key \ {v} |-> key[q]]
      ops == OpsOnOthers(netPart', v, from, to) @@ OpsOnMoved(netPart', v, cache[v], from, to)
      found == Activatable(Discovered(netPart', v, from, to), cutNets')
      left == KeysLeft(netPart', v, from, to, cutNets')
      added == KeysAdded(left, netPart', v, from, to)
      new == CurrentMetrics(search.km1 - key[v][to], block')
      better == Improved(new)
  IN /\ search.stage = "moving"
     /\ Best(v, to)
     /\ Feasible(v, from, to)
     /\ N!ChangeNodePart(v, to)
     /\ cache' = Changed(cache, ops)
     /\ undo' = IF better THEN << >> ELSE Append(undo, RollbackElements(ops))
     /\ key' = Inserted(added, found, cache')
     /\ LET stay == NonEmpty(enabled, taken)
            less == IF to \in Underloaded(block') THEN stay ELSE stay \ {to}
            more == IF from \in Underloaded(block') /\ Queued(taken, from) THEN less \cup {from} ELSE less
            gainedTo == {to : q \in Gained(netPart', v, from, to) \cap DOMAIN left}
            activated == UNION {DOMAIN cache'[q] : q \in found}
        IN enabled' = NonEmpty(more, left) \cup ((gainedTo \cup activated) \cap Underloaded(block'))
     /\ state' = [q \in Hypernode |-> IF q = v THEN "marked"
                                      ELSE IF q \in DOMAIN key' THEN "active"
                                      ELSE IF q \in DOMAIN key THEN "inactive" ELSE state[q]]
     /\ unremovable' = WithBlock(v, from, to)
     /\ moves' = Append(moves, [hn |-> v, from |-> from, to |-> to])
     /\ metrics' = IF better THEN new ELSE metrics
     /\ search' = [search EXCEPT !.km1 = new.km1, !.best = IF better THEN Len(moves') ELSE @]

\* The other branch: v stays, locks its block in its nets, and activates around.
Reject(v, to) ==
  LET from == part[v]
      taken == [q \in DOMAIN key \ {v} |-> key[q]]
      near == UNION {Inactive(e) : e \in {f \in hg.nets[v] : Cardinality(hg.pins[f]) <= SizeThreshold}}
      found == Activatable(near, cutNets)
  IN /\ search.stage = "moving"
     /\ Best(v, to)
     /\ ~ Feasible(v, from, to)
     /\ key' = Inserted(taken, found, cache)
     /\ enabled' = NonEmpty(enabled, taken)
                   \cup (UNION {DOMAIN cache[q] : q \in found} \cap Underloaded(block))
     /\ state' = [q \in Hypernode |-> IF q = v THEN "marked" ELSE IF q \in found THEN "active" ELSE state[q]]
     /\ unremovable' = WithBlock(v, to, from)
     /\ UNCHANGED <<level, gains, moves, metrics, search>>

\* The loop ends: the queue is empty, or the stopping policy (left open) says so.
StopMoving ==
  /\ search.stage = "moving"
  /\ search' = [search EXCEPT !.stage = "rollback", !.cursor = Len(moves)]
  /\ UNCHANGED <<level, members, metrics>>

\* One iteration of rollback: the moves behind the best one are undone.
Rollback ==
  /\ search.stage = "rollback"
  /\ search.cursor > search.best
  /\ LET m == moves[search.cursor] IN N!ChangeNodePart(m.hn, m.from)
  /\ search' = [search EXCEPT !.cursor = @ - 1]
  /\ UNCHANGED <<members, metrics>>

\* The end of refineImpl: another iteration if the search, or the flow before
\* it, has improved the partition, else the level is done.
EndSearch ==
  LET improved == \/ search.flow
                  \/ metrics.km1 < search.initialKm1
                  \/ /\ search.initialImbalance > MaxImbalance
                     /\ metrics.imbalance < search.initialImbalance
  IN /\ search.stage = "rollback"
     /\ search.cursor = search.best
     /\ cache' = RolledBack
     /\ undo' = << >>
     /\ search' = IF improved /\ search.iteration + 1 < MaxIterations
                  THEN [NoSearch EXCEPT !.stage = "flow", !.nodes = search.nodes,
                                        !.iteration = search.iteration + 1]
                  ELSE NoSearch
     /\ UNCHANGED <<level, queue, state, unremovable, moves, metrics>>

Uncoarsening ==
  \/ RestoreNets \/ Uncontract \/ SkipFlow \/ BeginDictated \/ EndDictated \/ Refine
  \/ \E v \in Hypernode, b \in Block : DictatedMove(v, b) \/ Move(v, b) \/ Reject(v, b)
  \/ StopMoving \/ Rollback \/ EndSearch

Next == Coarsening \/ BeginUncoarsening \/ Uncoarsening

Spec == Init /\ [][Next]_vars
-----------------------------------------------------------------------------
\* ASSERT_THAT_CACHE_IS_VALID_FOR_HN, for all hypernodes: the cache has an
\* entry for exactly the blocks adjacent to a hypernode, and it is the gain
\* computed from scratch: between levels, after every move, dictated ones
\* included, and after a rollback.  Only the entries of the two uncontracted
\* hypernodes are wrong until the search begins.
CacheExact ==
  phase = "refining" /\ search.stage # "rollback" =>
    \A v \in hg.nodes :
      \/ search.stage \in {"flow", "refine"} /\ v \in ToSet(search.nodes)
      \/ cache[v] = Entries(v)

\* The internal state that updateNeighbours asserts: queued are the entries of
\* the active hypernodes, which are free border nodes, with their gains although
\* some nets are skipped; around a marked hypernode all free border nodes are
\* queued or marked; and a queue is enabled iff it is not empty and its block
\* not overloaded.
QueueExact ==
  search.stage = "moving" =>
    /\ DOMAIN key = {v \in Hypernode : state[v] = "active"}
    /\ \A v \in DOMAIN key : IsBorder(v) /\ ~ IsFixed(v) /\ key[v] = cache[v]
    /\ \A v \in Hypernode : state[v] = "marked" =>
         \A e \in hg.nets[v] : \A q \in hg.pins[e] :
           IsBorder(q) /\ ~ IsFixed(q) /\ Cardinality(hg.pins[e]) <= SizeThreshold =>
             state[q] # "inactive"
    /\ \A b \in Block : b \in enabled <=> Queued(key, b) /\ b \in Underloaded(block)

\* A search ends with metrics that are those of the partition, and no worse than
\* those it began with: never a greater connectivity; no less balanced at the
\* same connectivity, nor if it is not balanced.
SearchNeverWorse ==
  [][search.stage = "rollback" /\ search'.stage # "rollback" =>
       LET new == CurrentMetrics(N!Km1, block)
       IN /\ metrics = new
          /\ new.km1 <= search.initialKm1
          /\ new.km1 = search.initialKm1 \/ new.imbalance > MaxImbalance =>
               new.imbalance <= search.initialImbalance]_vars

\* In the first cycle no search empties a block.  (In a V-cycle the sizes that
\* the guard reads are too large.)
NoBlockEmptied ==
  [][vcycle = 0 /\ search.stage = "moving" =>
       \A b \in Block : (\E v \in hg.nodes : part[v] = b) => \E v \in hg.nodes : part'[v] = b]_vars
=============================================================================
