------------------------- MODULE InitialPartitioning -------------------------
(***************************************************************************)
(* Initial partitioning (kahypar/partition/initial_partition.h): the       *)
(* coarsest hypergraph is renumbered, one or a pool of flat partitioners   *)
(* partition it, and the partition is mapped back.  Besides greedy growing *)
(* the partitioners are breadth-first search, label propagation, random    *)
(* assignment and bin packing.                                             *)
(***************************************************************************)
EXTENDS GreedyGrowing

\* input: outer (the hypergraph) with its enabled hypernodes and nets, k,
\* objective, the configuration.
Init ==
  /\ input \in Inputs
  /\ hg = Induced(input.outer, input.enabledNodes, input.enabledNets)[1]
  /\ mapping = Induced(input.outer, input.enabledNodes, input.enabledNets)[2]
  /\ part = [v \in NodesOf(hg) |-> Unassigned]
  /\ nodes = NoList
  /\ upper = Bounds(EpsNum)
  /\ alg = Idle("start")
  /\ runs = [todo |-> input.algorithms, left |-> input.nruns, best |-> << >>, poolBest |-> << >>, produced |-> {}]

  /\ result = [v \in input.enabledNodes |-> Unassigned]
-----------------------------------------------------------------------------
(***************************************************************************)
(* Breadth-first search (bfs_initial_partitioner.h).  In turn, every block *)
(* takes the next hypernode of its queue.                                  *)
(***************************************************************************)
\* pushIncidentHypernodesIntoQueue
PushNeighbours(s, p, v) ==
  LET b == p[v]
      push(q, e) == q \o SelectSeq(IF Small(e) THEN Ascending(hg.pins[e]) ELSE << >>,
                                   LAMBDA w : IsUnassigned(p, w, 1) /\ <<b, w>> \notin s.pushed /\ w \notin Range(q))
      new == FoldLeft(push, << >>, Ascending({e \in NetsOf(v) : <<b, e>> \notin s.nets}))
  IN  [s EXCEPT !.queue[s.turn] = @ \o new,
                !.pushed = @ \cup {<<b, w>> : w \in Range(new)},
                !.nets = @ \cup {<<b, e>> : e \in NetsOf(v)}]

\* The next enabled block, in this round or the next one; or the end.
NextTurn(s) ==
  LET later == {b \in s.enabled : b > s.turn}
  IN  IF later # {} THEN [s EXCEPT !.turn = Min(later)]
      ELSE IF s.enabled = {} \/ s.assigned >= TotalWeight(hg) THEN Idle("refine")
      ELSE [s EXCEPT !.turn = Min(s.enabled)]

BeginBFS ==
  /\ Starts("bfs")
  /\ part' = ResetPart(1)
  /\ \E list \in Shuffled, starts \in StartNodes :
       /\ nodes' = list
       /\ alg' = NextTurn([phase |-> "bfs", unassigned |-> 1, queue |-> starts, enabled |-> Blocks \ {1},
                           nets |-> {}, pushed |-> {m \in Blocks \X NodesOf(hg) : m[2] \in Range(starts[m[1]])},
                           turn |-> -1, assigned |-> (input.perfect[1] * (EpsDen - EpsNum)) \div EpsDen])
  /\ UNCHANGED <<setting, upper, runs>>

\* The state s after the block whose turn it is took hypernode v (0: none) and
\* the partition became p.
AfterTurn(s, v, p) ==
  LET pushed == [s EXCEPT !.pushed = @ \cup {<<s.turn, v>>}]
      disabled == [s EXCEPT !.enabled = @ \ {s.turn}]
  IN  IF v = 0 THEN disabled
      ELSE IF IsFixed(v) \/ p[v] = s.turn THEN PushNeighbours([pushed EXCEPT !.assigned = @ + hg.weight[v]], p, v)
      ELSE IF s.queue[s.turn] = << >> THEN disabled
      ELSE pushed

TakeTurn ==
  /\ alg.phase = "bfs"
  /\ LET b == alg.turn
         queue == alg.queue[b]
         usable == {i \in DOMAIN queue : part[queue[i]] = 1 \/ IsFixed(queue[i])}
         rest == IF usable = {} THEN << >> ELSE SubSeq(queue, Min(usable) + 1, Len(queue))
         v == IF usable # {} THEN queue[Min(usable)] ELSE UnassignedNode(nodes, part, 1)
         takes == v # 0 /\ ~ IsFixed(v) /\ Assignable(part, v, b)
         p == IF takes THEN [part EXCEPT ![v] = b] ELSE part
     IN  /\ nodes' = IF usable # {} THEN nodes ELSE Pruned(nodes, part, 1)
         /\ part' = p
         /\ alg' = NextTurn(AfterTurn([alg EXCEPT !.queue[b] = rest], v, p))
  /\ UNCHANGED <<setting, upper, runs>>
-----------------------------------------------------------------------------
(***************************************************************************)
(* Label propagation (label_propagation_initial_partitioner.h).            *)
(***************************************************************************)

\* assignKConnectedHypernodesToPart: `count` hypernodes around each start node
AssignConnected(p, list, starts, b, count) ==
  LET visit(s, i) ==
        IF s.queue = << >> THEN s
        ELSE LET v == Head(s.queue)
                 new == s.p[v] = Unassigned
                 q == IF new /\ ~ IsFixed(v) THEN [s.p EXCEPT ![v] = b] ELSE s.p
                 push(queue, e) ==
                   queue \o SelectSeq(IF Small(e) THEN Ascending(hg.pins[e]) ELSE << >>,
                                      LAMBDA w : q[w] = Unassigned /\ w \notin s.seen \cup Range(queue))
                 queue == FoldLeft(push, Tail(s.queue), IF new THEN Ascending(NetsOf(v)) ELSE << >>)
                 done == s.assigned + (IF new THEN 1 ELSE 0) = count * Len(starts)
                 refill == ~ done /\ queue = << >>
                 u == UnassignedNode(s.list, q, Unassigned)
             IN  [p |-> q, seen |-> s.seen \cup Range(queue), assigned |-> s.assigned + IF new THEN 1 ELSE 0,
                  list |-> IF refill THEN Pruned(s.list, q, Unassigned) ELSE s.list,
                  queue |-> IF done \/ (refill /\ u = 0) THEN << >> ELSE IF refill THEN << u >> ELSE queue]
  IN  FoldLeft(visit, [p |-> p, list |-> list, queue |-> starts, seen |-> Range(starts), assigned |-> 0],
               [i \in 1 .. 2 * Cardinality(NodesOf(hg)) |-> i])

\* The start nodes grow, one block after the other.
BeginPropagation ==
  /\ Starts("lp")
  /\ \E list \in Shuffled, starts \in StartNodes :
       LET count == Max({1, Min({input.lpAssign, Cardinality(NodesOf(hg)) \div input.k})})
           grown == FoldLeft(LAMBDA s, b : AssignConnected(s.p, s.list, starts[b - 1], b - 1, count),
                             [p |-> ResetPart(Unassigned), list |-> list], [b \in 1 .. input.k |-> b])
       IN  /\ part' = grown.p
           /\ nodes' = grown.list
  /\ alg' = [phase |-> "lp", unassigned |-> Unassigned, unvisited |-> {v \in NodesOf(hg) : NetsOf(v) # {}},
             iterations |-> 0, converged |-> TRUE]
  /\ UNCHANGED <<setting, upper, runs>>

\* computeMaxGainMove: the scores of the blocks that v is next to.
WeightOf(E) == SumFunctionOnSet(hg.netWeight, E)
Score(v, b) ==
  LET within == {e \in NetsOf(v) : Connectivity(part, e) = 1}
      from == part[v]
  IN  IF from = Unassigned
      THEN WeightOf({e \in within : ConnectivitySet(hg, part, e) = {b}}) - WeightOf(within)
      ELSE WeightOf({e \in NetsOf(v) : /\ Connectivity(part, e) = 2
                                       /\ PinCount(part, e, from) = 1 /\ PinCount(part, e, b) # 0})
           - WeightOf({e \in within : PinCount(part, e, from) > 1})
ValidParts(v) ==
  LET nets == IF part[v] = Unassigned THEN NetsOf(v) ELSE {e \in NetsOf(v) : Connectivity(part, e) > 1}
  IN  UNION {ConnectivitySet(hg, part, e) : e \in nets} \ {part[v]}

\* The first block of the highest score that v fits into; for an assigned
\* hypernode the score must be positive.
MaxMove(v) ==
  LET fitting == {b \in ValidParts(v) : /\ Weight(part, b) + hg.weight[v] <= upper[b]
                                        /\ part[v] = Unassigned \/ Score(v, b) > 0}
      best == {b \in fitting : \A c \in fitting : Score(v, c) <= Score(v, b)}
  IN  IF best = {} THEN part[v] ELSE Min(best)

VisitNode ==
  /\ alg.phase = "lp"
  /\ \E v \in alg.unvisited :
       LET b == MaxMove(v)
           moves == ~ IsFixed(v) /\ b # part[v] /\ Assignable(part, v, b)
       IN  /\ part' = IF moves THEN [part EXCEPT ![v] = b] ELSE part
           /\ alg' = [alg EXCEPT !.unvisited = @ \ {v}, !.converged = @ /\ ~ moves]
  /\ UNCHANGED <<setting, nodes, upper, runs>>

\* assignHypernodeToPartWithMinimumPartWeight, for up to n unassigned hypernodes
LightestPart(p) ==
  CHOOSE b \in Blocks : \A c \in Blocks : Weight(p, b) < Weight(p, c) \/ (Weight(p, b) = Weight(p, c) /\ b <= c)
AssignRest(p, list, n) ==
  LET step(s, i) == LET v == UnassignedNode(s.list, s.p, Unassigned)
                    IN  [list |-> Pruned(s.list, s.p, Unassigned),
                         p |-> IF v = 0 THEN s.p ELSE [s.p EXCEPT ![v] = LightestPart(s.p)]]
  IN  FoldLeft(step, [list |-> list, p |-> p], [i \in 1 .. n |-> i])

EndSweep ==
  /\ alg.phase = "lp"
  /\ alg.unvisited = {}
  /\ LET n == Cardinality(NodesOf(hg))
         more == alg.converged /\ UnassignedNode(nodes, part, Unassigned) # 0
         filled == IF more THEN AssignRest(part, nodes, input.lpAssign) ELSE [list |-> nodes, p |-> part]
         over == (alg.converged /\ ~ more) \/ alg.iterations + 1 >= input.lpMaxIterations
         rest == IF over THEN AssignRest(filled.p, filled.list, n) ELSE filled
     IN  /\ part' = rest.p
         /\ nodes' = rest.list
         /\ alg' = IF over THEN Idle("refine")
                   ELSE [alg EXCEPT !.unvisited = {v \in NodesOf(hg) : NetsOf(v) # {}},
                                    !.iterations = @ + 1, !.converged = TRUE]
  /\ UNCHANGED <<setting, upper, runs>>
-----------------------------------------------------------------------------
(***************************************************************************)
(* Random assignment (random_initial_partitioner.h): a block that it fits  *)
(* into, or any.                                                           *)
(***************************************************************************)
BeginRandom ==
  /\ Starts("random")
  /\ part' = ResetPart(Unassigned)
  /\ alg' = [phase |-> "random", unassigned |-> Unassigned]
  /\ UNCHANGED <<setting, nodes, upper, runs>>

AssignRandomly ==
  /\ alg.phase = "random"
  /\ LET left == {v \in NodesOf(hg) : part[v] = Unassigned}
         v == Min(left)
         fitting == {b \in Blocks : Assignable(part, v, b)}
     IN  IF left = {} THEN UNCHANGED part /\ alg' = Idle("refine")
         ELSE /\ \E b \in IF fitting = {} THEN Blocks ELSE fitting : part' = [part EXCEPT ![v] = b]
              /\ UNCHANGED alg
  /\ UNCHANGED <<setting, nodes, upper, runs>>
-----------------------------------------------------------------------------
(***************************************************************************)
(* Bin packing (bin_packing_initial_partitioner.h): hypernodes in order of *)
(* descending weight get the block of their bin, or the next one that they *)
(* fit into.                                                               *)
(***************************************************************************)
DescendingOrders ==
  {o \in SetToSeqs(NodesOf(hg)) : \A i \in DOMAIN o : \A j \in DOMAIN o : i < j => hg.weight[o[i]] >= hg.weight[o[j]]}

BinWeights ==
  LET n == Sum(input.bins)
  IN  IF input.individual THEN input.maxBins
      ELSE [b \in 1 .. n |-> (((TotalWeight(hg) + n - 1) \div n) * (EpsDen + EpsNum)) \div EpsDen]

PackBins ==
  /\ Starts("bin_packing")
  /\ \E order \in DescendingOrders :
       LET ctx == [bins |-> input.bins, individual |-> input.individual, upper |-> [i \in 1 .. 2 |-> upper[i - 1]]]
           packed == TwoLevelPacking(hg.weight, [v \in NodesOf(hg) |-> hg.fixed[v] + 1], order, ctx, BinWeights)
           assign(p, v) ==
             IF IsFixed(v) THEN p
             ELSE LET b == packed[v] - 1
                      inTurn == [i \in 1 .. input.k |-> (b + i - 1) % input.k]
                      fitting == SelectSeq(inTurn, LAMBDA c : Assignable(p, v, c))
                  IN  [p EXCEPT ![v] = IF fitting = << >> THEN b ELSE Head(fitting)]
       IN  part' = FoldLeft(assign, ResetPart(Unassigned), order)
  /\ alg' = Idle("refine")
  /\ UNCHANGED <<setting, nodes, upper, runs>>
-----------------------------------------------------------------------------
\* The partition is applied to the hypergraph it was computed for.
MapBack ==
  /\ alg.phase = "partitioned"
  /\ result' = [v \in input.enabledNodes |-> part[CHOOSE u \in NodesOf(hg) : mapping[u] = v]]
  /\ alg' = Idle("done")
  /\ UNCHANGED <<input, hg, mapping, part, nodes, upper, runs>>

Ended == alg.phase = "done" /\ UNCHANGED vars

Next == \/ BeginGreedy \/ Grow \/ Release \/ StopGrowing
        \/ BeginBFS \/ TakeTurn
        \/ BeginPropagation \/ VisitNode \/ EndSweep
        \/ BeginRandom \/ AssignRandomly
        \/ PackBins
        \/ Refine \/ SelectBest \/ PoolSelect \/ MapBack
        \/ Ended

Spec == Init /\ [][Next]_vars
-----------------------------------------------------------------------------
(***************************************************************************)
(* The list of getUnassignedNode never loses a hypernode that has to be    *)
(* assigned: what was swapped behind the bound stays assigned until the    *)
(* next reset (initial_partitioner_base.h:263-277).                        *)
(***************************************************************************)
UnassignedFound ==
  LET list == IF alg.phase = "greedy" THEN alg.nodes ELSE nodes
      inUse == {list.list[i] : i \in 1 .. list.bound}
  IN  (alg.phase \in {"greedy", "bfs", "lp"}) =>
        {v \in NodesOf(hg) : ~ IsFixed(v) /\ part[v] = alg.unassigned} \subseteq inUse

(***************************************************************************)
(* The scores of label propagation are FM gains                            *)
(* (label_propagation_initial_partitioner.h:236-251, 321-336).             *)
(***************************************************************************)
ScoresAreGains ==
  (alg.phase = "lp") =>
    \A v \in {v \in NodesOf(hg) : ~ IsFixed(v)} : \A b \in ValidParts(v) : Score(v, b) = FMGain(part, v, b)

(***************************************************************************)
(* Every algorithm assigns every hypernode, and leaves the fixed vertices  *)
(* alone.                                                                  *)
(***************************************************************************)
AllAssigned ==
  (alg.phase \in {"refine", "select", "pool", "partitioned"}) =>
    \A v \in NodesOf(hg) : part[v] \in Blocks /\ (IsFixed(v) => part[v] = hg.fixed[v])

\* Whatever is assigned by is a gain: the keys of the queues and the scores.
AllGainsExact == GainsExact /\ ScoresAreGains

\* Nobody is overlooked on the way, nor in the end.
EveryoneAssigned == UnassignedFound /\ AllAssigned

(***************************************************************************)
(* Of all that the runs produced, the result is the best: a feasible       *)
(* partition if there was one, of the least objective among those, and of  *)
(* the least imbalance among those; and it is the input that has it.       *)
(***************************************************************************)
BestOfAllRuns ==
  (alg.phase = "done") =>
    LET feasible == {r \in runs.produced : IsFeasible(r[2])}
        outerCut == LET p == [v \in NodesOf(input.outer) |-> IF v \in input.enabledNodes THEN result[v] ELSE Unassigned]
                        cost(e) == LET c == Cardinality(ConnectivitySet(input.outer, p, e)) - 1
                                   IN  input.outer.netWeight[e] * IF input.objective = "cut" /\ c > 1 THEN 1 ELSE c
                    IN  SumFunctionOnSet([e \in input.enabledNets |-> cost(e)], input.enabledNets)
    IN  /\ <<outerCut, Imbalance(part)>> \in runs.produced
        /\ feasible # {} => /\ <<outerCut, Imbalance(part)>> \in feasible
                            /\ \A r \in feasible : outerCut < r[1] \/ (outerCut = r[1] /\ Imbalance(part) <= r[2])
=============================================================================
