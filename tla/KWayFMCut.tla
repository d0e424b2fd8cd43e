------------------------------ MODULE KWayFMCut ------------------------------
(***************************************************************************)
(* KWayFMRefiner (kahypar/partition/refinement/kway_fm_cut_refiner.h): the *)
(* sibling of module KWayFM for the cut metric.  The two share the base    *)
(* class, the queue and the cache, and differ in what a move does around   *)
(* the hypernode moved: with the cut, a gain can also change when all or   *)
(* all but one of the pins of a net are in one block.  A net is free until *)
(* one of its pins moves, then loose (all of its moved pins are in one     *)
(* block), then locked (unremovable[e] holds no, one or more blocks).      *)
(*                                                                         *)
(* A behaviour runs one of the two refiners: that of `objective`.          *)
(***************************************************************************)
EXTENDS KWayFM

VARIABLES objective,
          fullyActive    \* _he_fully_active: nets whose pins are all active or marked

cutVars == <<vars, objective, fullyActive>>

\* metrics::hyperedgeCut
Cut == MapThenSumSet(LAMBDA e : IF netPart[e].connectivity > 1 THEN edgeWeight[e] ELSE 0, hg.edges)

\* gainInducedByHypergraph
CutGainIn(counted, v, p) ==
  LET gain(e) == IF counted[e].connectivity = 1 THEN - edgeWeight[e]
                 ELSE IF /\ counted[e].count[part[v]] = 1
                         /\ counted[e].count[p] = Cardinality(hg.pins[e]) - 1
                      THEN edgeWeight[e] ELSE 0
  IN MapThenSumSet(gain, hg.nets[v])

\* initializeGainCacheFor
CutEntries(v) ==
  [p \in UNION {netPart[e].blocks : e \in hg.nets[v]} \ {part[v]} |-> CutGainIn(netPart, v, p)]
CutRecomputed(nodes) ==
  [v \in Hypernode |-> IF v \in ToSet(nodes) THEN CutEntries(v) ELSE cache[v]]
-----------------------------------------------------------------------------
(* updateNeighbours after v has moved, `counted` the data of the nets.       *)

Locked(e) == Cardinality(unremovable[e]) > 1
ConnectivityChanged(counted, e, from, to) == Decreased(counted, e, from) \/ Increased(counted, e, to)

\* moveAffectsGainOrConnectivityUpdate.  (The variant knows the connectivity only.)
AffectsConnectivity(counted, e, from, to) == ConnectivityChanged(counted, e, from, to)
Affects(counted, e, from, to) ==
  \/ ConnectivityChanged(counted, e, from, to)
  \/ counted[e].count[to] = Cardinality(hg.pins[e]) - 1
  \/ counted[e].count[from] + 1 = Cardinality(hg.pins[e]) - 1

\* The nets that change their state, of which fullUpdate visits the pins: a free
\* net becomes loose, a loose one locked.
StateChanges(v, to) == {e \in hg.nets[v] : ~ Locked(e) /\ unremovable[e] # {to}}
FullUpdate(counted, v, from, to) ==
  {e \in StateChanges(v, to) : e \notin fullyActive \/ Affects(counted, e, from, to)}
\* The nets that remain loose, and of these and the ones before all that are visited.
RemainLoose(counted, v, from, to) == {e \in hg.nets[v] : unremovable[e] = {to} /\ Affects(counted, e, from, to)}
NotLocked(counted, v, from, to) == FullUpdate(counted, v, from, to) \cup RemainLoose(counted, v, from, to)
Visited(counted, v, from, to) == NotLocked(counted, v, from, to) \cup {e \in hg.nets[v] : Locked(e)}

\* deltaGainUpdates: the change that net e makes to the gain of q for block p.
CutEntryDelta(counted, e, q, p, from, to) ==
  LET w == edgeWeight[e]
      size == Cardinality(hg.pins[e])
      before == counted[e].count[from] + 1
      after == counted[e].count[to]
  IN (IF before = size /\ p # from THEN w ELSE 0)
     - (IF after = size /\ p # to THEN w ELSE 0)
     + (IF after = size - 1 /\ part[q] # to /\ p = to THEN w ELSE 0)
     - (IF before = size - 1 /\ part[q] # from /\ p = from THEN w ELSE 0)
CutDeltaSum(counted, q, p, from, to, E) ==
  MapThenSumSet(LAMBDA e : CutEntryDelta(counted, e, q, p, from, to), {e \in E : q \in hg.pins[e]})

\* The nets that change entries of q: of a locked net whose connectivity changes
\* only the marked pins are considered, unless only the cache is updated.
DeltaNets(counted, v, q, from, to, cacheOnly) ==
  {e \in Visited(counted, v, from, to) :
     Locked(e) => cacheOnly \/ state[q] = "marked" \/ ~ ConnectivityChanged(counted, e, from, to)}

\* connectivityUpdate: the hypernodes that lose the entry for `from`, and those
\* that get one for `to`.
CutLost(counted, v, from, to) ==
  {q \in UNION {hg.pins[e] : e \in {f \in Visited(counted, v, from, to) : Decreased(counted, f, from)}} \ {v} :
     from \in DOMAIN cache[q] /\ ~ ConnectedTo(counted, q, from)}
CutGained(counted, v, from, to) ==
  {q \in UNION {hg.pins[e] : e \in {f \in Visited(counted, v, from, to) : Increased(counted, f, to)}} \ {v} :
     to \notin DOMAIN cache[q]}

\* The operations on the cache, as in module KWayFM: _already_processed_part keeps
\* changes away from a new entry.
CutOpsOnOthers(counted, v, from, to, cacheOnly) ==
  LET lost == CutLost(counted, v, from, to)
      gained == CutGained(counted, v, from, to)
      touched == UNION {hg.pins[e] : e \in hg.nets[v]} \ {v}
  IN [qp \in {qp \in touched \X Block : qp[2] \in DOMAIN cache[qp[1]]} \cup gained \X {to} |->
        LET q == qp[1] p == qp[2]
        IN IF q \in gained /\ p = to THEN Op("add", CutGainIn(counted, q, to))
           ELSE IF q \in lost /\ p = from THEN Op("remove", cache[q][from])
           ELSE Op("update", CutDeltaSum(counted, q, p, from, to, DeltaNets(counted, v, q, from, to, cacheOnly)))]

\* The entries of v for other blocks change where a net enters or leaves the cut.
CutOwnDelta(counted, e, from, to) ==
  LET size == Cardinality(hg.pins[e])
  IN (IF counted[e].count[from] + 1 = size THEN edgeWeight[e] ELSE 0)
     - (IF counted[e].count[to] = size THEN edgeWeight[e] ELSE 0)
CutOpsOnMoved(counted, v, own, from, to) ==
  LET back == IF ConnectedTo(counted, v, from) THEN {from} ELSE {}
      delta(e) == CutOwnDelta(counted, e, from, to)
  IN [qp \in {v} \X (DOMAIN own \cup back) |->
        LET p == qp[2]
        IN IF p = from THEN Op("add", - own[to])
           ELSE IF p = to THEN Op("remove", own[to])
           ELSE Op("update", MapThenSumSet(delta, hg.nets[v]))]

\* The queue: hypernodes to activate, those that are internal now, and the keys.
CutDiscovered(counted, v, from, to) == UNION {Inactive(e) \ {v} : e \in FullUpdate(counted, v, from, to)}
CutInternal(counted, v, from, to, cuts) ==
  {q \in DOMAIN key \ {v} : cuts[q] = 0 /\ \E e \in NotLocked(counted, v, from, to) : q \in hg.pins[e]}
CutKeysLeft(counted, v, from, to, cuts) ==
  LET lost == CutLost(counted, v, from, to)
  IN [q \in DOMAIN key \ ({v} \cup CutInternal(counted, v, from, to, cuts)) |->
        [p \in DOMAIN key[q] \ (IF q \in lost THEN {from} ELSE {}) |->
           key[q][p] + CutDeltaSum(counted, q, p, from, to, NotLocked(counted, v, from, to))]]
CutKeysAdded(k, counted, v, from, to) ==
  LET gained == CutGained(counted, v, from, to)
  IN [q \in DOMAIN k |-> IF q \in gained THEN (to :> CutGainIn(counted, q, to)) @@ k[q] ELSE k[q]]

\* fullUpdate counts the pins of a net that are marked, in the queue or about to be
\* activated.  A pin that has just been taken out of the queue counts for the nets
\* that are visited after that: for some.
NewFullyActive(counted, v, from, to, cuts) ==
  LET counts(e, gone) == \A q \in hg.pins[e] : q = v \/ state[q] = "marked" \/ q \in gone
                                               \/ (~ IsFixed(q) /\ (state[q] = "inactive" \/ cuts[q] > 0))
      visited == FullUpdate(counted, v, from, to)
      sure == {e \in visited : counts(e, {})}
      perhaps == {e \in visited : counts(e, CutInternal(counted, v, from, to, cuts))}
  IN {(fullyActive \ visited) \cup F : F \in {G \in SUBSET perhaps : sure \subseteq G}}
-----------------------------------------------------------------------------
CutCoarsening == Coarsening /\ UNCHANGED fullyActive
CutRestoreNets == RestoreNets /\ UNCHANGED fullyActive
CutUncontract == Uncontract /\ UNCHANGED fullyActive
CutSkipFlow == SkipFlow /\ UNCHANGED fullyActive

\* initializeImpl
CutBeginUncoarsening ==
  /\ N!InitializeNumCutHyperedges
  /\ metrics' = CurrentMetrics(Cut, block)
  /\ cache' = [v \in Hypernode |-> IF v \in hg.nodes THEN CutEntries(v) ELSE << >>]
  /\ UNCHANGED <<undo, queue, state, unremovable, moves, search, fullyActive>>

\* performMovesAndUpdateCacheImpl, its moves, and what the flow refiner leaves.
CutBeginDictated ==
  /\ search.stage = "flow"
  /\ MaxFlowMoves > 0
  /\ cache' = CutRecomputed(search.nodes)
  /\ state' = [v \in Hypernode |-> "inactive"]
  /\ Reset
  /\ fullyActive' = {}
  /\ search' = [search EXCEPT !.stage = "dictated", !.flow = TRUE]
  /\ UNCHANGED <<level, undo, metrics>>

CutDictatedMove(v, to) ==
  LET from == part[v]
      own == IF to \in DOMAIN cache[v] THEN cache[v] ELSE (to :> CutGainIn(netPart, v, to)) @@ cache[v]
  IN /\ search.stage = "dictated"
     /\ Cardinality({q \in Hypernode : state[q] = "marked"}) < MaxFlowMoves
     /\ state[v] = "inactive"
     /\ N!ChangeNodePart(v, to)
     /\ cache' = Changed([cache EXCEPT ![v] = own],
                         CutOpsOnOthers(netPart', v, from, to, TRUE) @@ CutOpsOnMoved(netPart', v, own, from, to))
     /\ state' = [state EXCEPT ![v] = "marked"]
     /\ unremovable' = WithBlock(v, from, to)
     /\ LET visited == FullUpdate(netPart', v, from, to)
        IN fullyActive' = (fullyActive \ visited)
                          \cup {e \in visited : \A q \in hg.pins[e] : state'[q] = "marked"}
     /\ UNCHANGED <<undo, queue, moves, metrics, search>>

CutEndDictated ==
  /\ search.stage = "dictated"
  /\ \E v \in Hypernode : state[v] = "marked"
  /\ metrics' = CurrentMetrics(Cut, block)
  /\ search' = [search EXCEPT !.stage = "refine"]
  /\ UNCHANGED <<level, members, fullyActive>>

\* refineImpl up to its loop.
CutRefine ==
  /\ search.stage = "refine"
  /\ LET nodes == ToSet(search.nodes)
         around == UNION {hg.pins[e] : e \in UNION {hg.nets[x] : x \in {y \in nodes : IsFixed(y)}}}
         A == Activatable(nodes \cup around, cutNets)
     IN /\ cache' = CutRecomputed(search.nodes)
        /\ key' = Inserted(<< >>, A, cache')
        /\ enabled' = NonEmpty(Underloaded(block), key')
        /\ state' = [v \in Hypernode |-> IF v \in A THEN "active" ELSE "inactive"]
  /\ unremovable' = [e \in Hyperedge |-> {}]
  /\ fullyActive' = {}
  /\ moves' = << >>
  /\ search' = [search EXCEPT !.stage = "moving", !.km1 = metrics.km1, !.best = 0,
                              !.initialKm1 = metrics.km1, !.initialImbalance = metrics.imbalance]
  /\ UNCHANGED <<level, undo, metrics>>

\* One iteration of its loop.
CutMove(v, to) ==
  LET from == part[v]
      taken == [q \in DOMAIN key \ {v} |-> key[q]]
      ops == CutOpsOnOthers(netPart', v, from, to, FALSE) @@ CutOpsOnMoved(netPart', v, cache[v], from, to)
      found == Activatable(CutDiscovered(netPart', v, from, to), cutNets')
      left == CutKeysLeft(netPart', v, from, to, cutNets')
      added == CutKeysAdded(left, netPart', v, from, to)
      new == CurrentMetrics(search.km1 - key[v][to], block')
      better == Improved(new)
  IN /\ search.stage = "moving"
     /\ Best(v, to)
     /\ Feasible(v, from, to)
     /\ N!ChangeNodePart(v, to)
     /\ cache' = Changed(cache, ops)
     /\ undo' = IF better THEN << >> ELSE Append(undo, RollbackElements(ops))
     /\ key' = Inserted(added, found, cache')
     /\ LET stay == NonEmpty(enabled, taken)
            less == IF to \in Underloaded(block') THEN stay ELSE stay \ {to}
            more == IF from \in Underloaded(block') /\ Queued(taken, from) THEN less \cup {from} ELSE less
            gainedTo == {to : q \in CutGained(netPart', v, from, to) \cap DOMAIN left}
            activated == UNION {DOMAIN cache'[q] : q \in found}
        IN enabled' = NonEmpty(more, left) \cup ((gainedTo \cup activated) \cap Underloaded(block'))
     /\ state' = [q \in Hypernode |-> IF q = v THEN "marked"
                                      ELSE IF q \in DOMAIN key' THEN "active"
                                      ELSE IF q \in DOMAIN key THEN "inactive" ELSE state[q]]
     /\ unremovable' = WithBlock(v, from, to)
     /\ fullyActive' \in NewFullyActive(netPart', v, from, to, cutNets')
     /\ moves' = Append(moves, [hn |-> v, from |-> from, to |-> to])
     /\ metrics' = IF better THEN new ELSE metrics
     /\ search' = [search EXCEPT !.km1 = new.km1, !.best = IF better THEN Len(moves') ELSE @]

\* The move is not feasible: v is marked, and that is all.
CutReject(v, to) ==
  /\ search.stage = "moving"
  /\ Best(v, to)
  /\ ~ Feasible(v, part[v], to)
  /\ key' = [q \in DOMAIN key \ {v} |-> key[q]]
  /\ enabled' = NonEmpty(enabled, key')
  /\ state' = [state EXCEPT ![v] = "marked"]
  /\ UNCHANGED <<level, gains, unremovable, moves, metrics, search, fullyActive>>

CutStopMoving == StopMoving /\ UNCHANGED fullyActive
CutRollback == Rollback /\ UNCHANGED fullyActive
CutEndSearch == EndSearch /\ UNCHANGED fullyActive

BothInit == Init /\ objective \in {"km1", "cut"} /\ fullyActive = {}

BothNext ==
  /\ UNCHANGED objective
  /\ \/ objective = "km1" /\ Next /\ UNCHANGED fullyActive
     \/ objective = "cut" /\ CutCoarsening
     \/ objective = "cut" /\ CutRestoreNets
     \/ objective = "cut" /\ CutUncontract
     \/ objective = "cut" /\ CutSkipFlow
     \/ objective = "cut" /\ CutBeginUncoarsening
     \/ objective = "cut" /\ CutBeginDictated
     \/ objective = "cut" /\ \E v \in Hypernode, b \in Block : CutDictatedMove(v, b)
     \/ objective = "cut" /\ CutEndDictated
     \/ objective = "cut" /\ CutRefine
     \/ objective = "cut" /\ \E v \in Hypernode, b \in Block : CutMove(v, b)
     \/ objective = "cut" /\ \E v \in Hypernode, b \in Block : CutReject(v, b)
     \/ objective = "cut" /\ CutStopMoving
     \/ objective = "cut" /\ CutRollback
     \/ objective = "cut" /\ CutEndSearch

BothSpec == BothInit /\ [][BothNext]_cutVars
-----------------------------------------------------------------------------
\* ASSERT_THAT_CACHE_IS_VALID_FOR_HN of this refiner: CacheExact for the cut.
CutCacheExact ==
  phase = "refining" /\ search.stage # "rollback" =>
    \A v \in hg.nodes :
      \/ search.stage \in {"flow", "refine"} /\ v \in ToSet(search.nodes)
      \/ cache[v] = CutEntries(v)
CachesExact == IF objective = "km1" THEN CacheExact ELSE CutCacheExact

\* The internal state that the assertions of updateNeighbours describe: queued are
\* the entries of the active hypernodes with their gains, although locked nets and
\* fully active nets change no key; the free border pins of a loose net, and all
\* free pins of a locked net, are active or marked.
CutQueueExact ==
  search.stage = "moving" =>
    /\ DOMAIN key = {v \in Hypernode : state[v] = "active"}
    /\ \A v \in DOMAIN key : IsBorder(v) /\ ~ IsFixed(v) /\ key[v] = cache[v]
    /\ \A e \in hg.edges : unremovable[e] # {} =>
         \A q \in hg.pins[e] : ~ IsFixed(q) /\ (IsBorder(q) \/ Locked(e)) => state[q] # "inactive"
    /\ \A b \in Block : b \in enabled <=> Queued(key, b) /\ b \in Underloaded(block)
QueuesExact == IF objective = "km1" THEN QueueExact ELSE CutQueueExact

\* A search ends with the metrics of the partition, no worse than it began.
SearchesNeverWorse ==
  [][search.stage = "rollback" /\ search'.stage # "rollback" =>
       LET new == CurrentMetrics(IF objective = "km1" THEN N!Km1 ELSE Cut, block)
       IN /\ metrics = new
          /\ new.km1 <= search.initialKm1
          /\ new.km1 = search.initialKm1 \/ new.imbalance > MaxImbalance =>
               new.imbalance <= search.initialImbalance]_cutVars
=============================================================================
