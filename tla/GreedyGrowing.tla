---------------------------- MODULE GreedyGrowing ----------------------------
(***************************************************************************)
(* Greedy hypergraph growing                                               *)
(* (greedy_hypergraph_growing_initial_partitioner.h) with its policies for *)
(* the gain of a move (ip_gain_computation_policy.h) and for the next      *)
(* queue (ip_greedy_queue_selection_policy.h).                             *)
(*                                                                         *)
(* _pq, a KWayPriorityQueue, is external: the queue of each block is a     *)
(* part of the function `key` on pairs of hypernode and block; a queue is  *)
(* disabled when it becomes empty, and an insertion does not enable it.    *)
(***************************************************************************)
EXTENDS InitialPartitioner

InQueue(s, b) == {v \in NodesOf(hg) : <<v, b>> \in DOMAIN s.key}

\* The operations of the priority queue.
Enable(s, b) == IF InQueue(s, b) # {} THEN [s EXCEPT !.enabled = @ \cup {b}] ELSE s
Disable(s, b) == [s EXCEPT !.enabled = @ \ {b}]
InsertKey(s, v, b, gain) == [s EXCEPT !.key = (<<v, b>> :> gain) @@ @]
RemoveKey(s, v, b) ==
  [s EXCEPT !.key = [m \in DOMAIN @ \ {<<v, b>>} |-> @[m]],
            !.enabled = IF InQueue(s, b) = {v} THEN @ \ {b} ELSE @]
-----------------------------------------------------------------------------
(***************************************************************************)
(* Gains (input.gain): "fm", "max_net" or "max_pin".                       *)
(***************************************************************************)
\* calculateGain
FMGain(p, v, to) ==
  LET from == p[v]
      gain(e) ==
        LET w == hg.netWeight[e]
            lambda == Connectivity(p, e)
        IN  IF from = Unassigned THEN IF lambda = 1 /\ PinCount(p, e, to) = 0 THEN -w ELSE 0
            ELSE IF lambda = 1 /\ PinCount(p, e, from) > 1 THEN -w
            ELSE IF lambda = 2 /\ PinCount(p, e, from) = 1 /\ PinCount(p, e, to) > 0 THEN w
            ELSE 0
  IN  IF from = to THEN 0 ELSE SumFunctionOnSet([e \in NetsOf(v) |-> gain(e)], NetsOf(v))

Touching(p, v, to) == {e \in NetsOf(v) : PinCount(p, e, to) > 0}
Gain(p, v, to) ==
  CASE input.gain = "fm" -> FMGain(p, v, to)
    [] input.gain = "max_net" -> SumFunctionOnSet(hg.netWeight, Touching(p, v, to))
    [] input.gain = "max_pin" ->
         SumFunctionOnSet(hg.weight, UNION {PinsIn(hg, p, e, to) : e \in Touching(p, v, to)})

\* deltaGainUpdate: how net e changes the key of q for block b when v has moved
\* from the unassigned part into `to`.  (The variant of the last forgets the
\* nets of three pins.)
DeltaUnassigned(p, e, q, b, to) ==
  LET w == hg.netWeight[e]
      after == PinCount(p, e, to)
      lambda == Connectivity(p, e)
  IN  (IF after = 1 /\ lambda = 1 /\ b # to THEN -w ELSE 0)
      + (IF after = 1 /\ lambda = 2 /\ (b = to \/ PinCount(p, e, b) = 0) THEN w ELSE 0)
      + (IF lambda = 2 /\ after = Cardinality(hg.pins[e]) - 1 /\ b = to /\ p[q] # to THEN w ELSE 0)

LastOutside(p, e, q, b, from, to, after, before, size) ==
  LET w == hg.netWeight[e]
      joins == IF b = to /\ p[q] # to THEN w ELSE 0
      leaves == IF b = from /\ p[q] # from THEN -w ELSE 0
  IN  IF size = 3 /\ after = 2 /\ before = 2 THEN joins + leaves
      ELSE IF after = size - 1 THEN joins
      ELSE IF before = size - 1 THEN leaves
      ELSE 0

DeltaAssigned3Forgotten(p, e, q, b, from, to) ==
  LET w == hg.netWeight[e]
      size == Cardinality(hg.pins[e])
      after == PinCount(p, e, to)
      before == PinCount(p, e, from) + 1
  IN  (IF after = size THEN IF b # to THEN -w ELSE 0
       ELSE IF before = size THEN IF b # from THEN w ELSE 0
       ELSE 0)
      + IF size = 3 THEN 0 ELSE LastOutside(p, e, q, b, from, to, after, before, size)

DeltaAssigned(p, e, q, b, from, to) ==
  LET w == hg.netWeight[e]
      size == Cardinality(hg.pins[e])
      after == PinCount(p, e, to)
      before == PinCount(p, e, from) + 1
  IN  (IF after = size THEN IF b # to THEN -w ELSE 0
       ELSE IF before = size THEN IF b # from THEN w ELSE 0
       ELSE 0)
      + LastOutside(p, e, q, b, from, to, after, before, size)

DeltaMaxNet(p, e, b, from, to) ==
  (IF from # Unassigned /\ b = from /\ PinCount(p, e, from) = 0 THEN -hg.netWeight[e] ELSE 0)
  + (IF b = to /\ PinCount(p, e, to) = 1 THEN hg.netWeight[e] ELSE 0)

DeltaMaxPin(v, q, b, from, to) ==
  IF NetsOf(v) \cap NetsOf(q) = {} THEN 0
  ELSE IF b = to THEN hg.weight[v]
  ELSE IF from # Unassigned /\ b = from THEN -hg.weight[v] ELSE 0

Updated(key, p, v, from, to) ==
  LET delta(e, q, b) ==
        IF input.gain = "max_net" THEN DeltaMaxNet(p, e, b, from, to)
        ELSE IF q = v THEN 0
        ELSE IF from = Unassigned THEN DeltaUnassigned(p, e, q, b, to)
        ELSE DeltaAssigned(p, e, q, b, from, to)
  IN  [m \in DOMAIN key |->
         key[m] + IF input.gain = "max_pin" THEN DeltaMaxPin(v, m[1], m[2], from, to)
                  ELSE LET shared == NetsOf(v) \cap NetsOf(m[1])
                       IN  SumFunctionOnSet([e \in shared |-> delta(e, m[1], m[2])], shared)]
-----------------------------------------------------------------------------
(***************************************************************************)
(* The queues.  s holds `key`, `enabled`, the nets visited for each block  *)
(* (_hyperedge_in_queue) and the list of unassigned hypernodes.            *)
(***************************************************************************)

\* insertNodeIntoPQ
InsertNode(s, p, v, b) ==
  IF p[v] = b \/ IsFixed(v) \/ <<v, b>> \in DOMAIN s.key THEN s
  ELSE LET t == InsertKey(s, v, b, Gain(p, v, b))
       IN  IF b = s.unassigned THEN t ELSE Enable(t, b)

\* insertUnassignedHypernodeIntoPQ
InsertUnassigned(s, p, b) ==
  LET t == [s EXCEPT !.nodes = Pruned(s.nodes, p, s.unassigned)]
      v == UnassignedNode(s.nodes, p, s.unassigned)
  IN  IF v = 0 THEN t ELSE InsertNode(t, p, v, b)

\* removeHypernodeFromAllPQs.  (The variant lets a queue run dry.)
RemoveNodeOnly(s, p, v) ==
  FoldLeft(LAMBDA t, b : IF <<v, b - 1>> \in DOMAIN t.key THEN RemoveKey(t, v, b - 1) ELSE t,
           s, [b \in 1 .. input.k |-> b])

RemoveNode(s, p, v) ==
  LET remove(t, b) ==
        IF <<v, b>> \notin DOMAIN t.key THEN t
        ELSE RemoveKey(IF b \in t.enabled /\ InQueue(t, b) = {v} /\ p[v] # b THEN InsertUnassigned(t, p, b) ELSE t, v, b)
  IN  FoldLeft(LAMBDA t, b : remove(t, b - 1), s, [b \in 1 .. input.k |-> b])

\* insertAndUpdateNodesAfterMove
AfterMove(s, p, v, to) ==
  LET updated == IF IsFixed(v) THEN s ELSE [s EXCEPT !.key = Updated(@, p, v, s.unassigned, to)]
      insert(t, q) == IF p[q] = s.unassigned THEN InsertNode(t, p, q, to) ELSE t
      visit(t, e) ==
        IF <<to, e>> \in t.nets THEN t
        ELSE [FoldLeft(insert, t, IF Small(e) THEN Ascending(hg.pins[e]) ELSE << >>) EXCEPT !.nets = @ \cup {<<to, e>>}]
      removed == RemoveNode(FoldLeft(visit, updated, Ascending(NetsOf(v))), p, v)
  IN  IF to \in removed.enabled \/ IsFixed(v) THEN removed ELSE InsertUnassigned(removed, p, to)

\* The start nodes of all blocks.
Seeded(s, p, starts) ==
  LET seed(t, v, b) ==
        IF IsFixed(v) /\ hg.fixed[v] # s.unassigned THEN AfterMove(t, p, v, hg.fixed[v]) ELSE InsertNode(t, p, v, b)
  IN  FoldLeft(LAMBDA t, b : FoldLeft(LAMBDA r, v : seed(r, v, b - 1), t, starts[b - 1]),
               s, [b \in 1 .. input.k |-> b])

Overloaded(p, bounds) == {b \in Blocks : Weight(p, b) >= bounds[b]}

BeginGreedy ==
  /\ Starts("greedy")
  /\ \E list \in Shuffled, starts \in StartNodes :
       LET u == IF input.selection = "round_robin" THEN Unassigned ELSE 1
           empty == [phase |-> "greedy", unassigned |-> u, key |-> << >>, enabled |-> {}, nets |-> {},
                     nodes |-> list, current |-> 0, released |-> FALSE]
           s == Seeded(empty, ResetPart(u), starts)
       IN  /\ part' = ResetPart(u)
           /\ upper' = Bounds(0)
           /\ alg' = [s EXCEPT !.enabled = @ \ ({u} \cup Overloaded(ResetPart(u), Bounds(0)))]
  /\ UNCHANGED <<setting, nodes, runs>>
-----------------------------------------------------------------------------
(***************************************************************************)
(* nextQueueID: the hypernodes and blocks that may be chosen, with the     *)
(* queues as they are then.                                                *)
(***************************************************************************)
Maxima(s, B) ==
  LET heads == {m \in DOMAIN s.key : m[2] \in B}
  IN  {m \in heads : \A n \in heads : s.key[n] <= s.key[m]}
Taken(s, m) == [RemoveKey(s, m[1], m[2]) EXCEPT !.current = m[2]]
Candidates(s, B) == {[hn |-> m[1], to |-> m[2], gain |-> s.key[m], s |-> Taken(s, m)] : m \in Maxima(s, B)}

RoundRobin(s) ==
  LET inOrder == [i \in 1 .. input.k |-> (s.current + i) % input.k]
      on == SelectSeq(inOrder, LAMBDA b : b \in s.enabled)
  IN  IF on = << >> THEN {} ELSE Candidates(s, {Head(on)})

\* The next block of Sequential; the hypernode at the head that does not fit stays.
NextBlock(s) ==
  LET later == {b \in s.enabled : b > s.current} IN IF later = {} THEN {} ELSE Candidates(s, {Min(later)})

Sequential(s) ==
  LET b == s.current
      filling == Weight(part, b) < upper[b] /\ b \in s.enabled
      step(c) == IF Weight(part, b) + hg.weight[c.hn] > upper[b] THEN NextBlock(InsertKey(c.s, c.hn, b, c.gain)) ELSE {c}
  IN  IF s.released THEN Candidates(s, s.enabled)
      ELSE IF ~ filling THEN NextBlock(s)
      ELSE UNION {step(c) : c \in Candidates(s, {b})}

NextQueue(s) ==
  CASE input.selection = "round_robin" -> RoundRobin(s)
    [] input.selection = "global" -> Candidates(s, s.enabled)
    [] input.selection = "sequential" -> Sequential(s)

\* The unassigned part is as light as it may become.
LightEnough == alg.unassigned # Unassigned /\ Weight(part, alg.unassigned) < input.perfect[alg.unassigned]

\* One iteration of the loop, when a hypernode is found.
Grow ==
  /\ alg.phase = "greedy"
  /\ ~ LightEnough
  /\ \E c \in NextQueue(alg) :
       LET fits == Assignable(part, c.hn, c.to)
           p == [part EXCEPT ![c.hn] = c.to]
           s == AfterMove(c.s, p, c.hn, c.to)
       IN  /\ part' = IF fits THEN p ELSE part
           /\ alg' = IF ~ fits THEN Disable(InsertKey(c.s, c.hn, c.to, c.gain), c.to)
                     ELSE IF Weight(p, c.to) >= upper[c.to] THEN Disable(s, c.to) ELSE s
  /\ UNCHANGED <<setting, nodes, upper, runs>>

\* No queue is enabled: the bounds are released once.
Release ==
  /\ alg.phase = "greedy"
  /\ ~ LightEnough
  /\ NextQueue(alg) = {}
  /\ ~ alg.released
  /\ LET bounds == Bounds(EpsNum)
         reopen(s, b) ==
           IF b = s.unassigned \/ b \in s.enabled \/ Weight(part, b) >= bounds[b] THEN s
           ELSE IF InQueue(s, b) = {} THEN InsertUnassigned(s, part, b) ELSE Enable(s, b)
     IN  /\ upper' = bounds
         /\ alg' = [FoldLeft(LAMBDA s, b : reopen(s, b - 1), alg, [b \in 1 .. input.k |-> b])
                      EXCEPT !.released = TRUE, !.current = 0]
  /\ UNCHANGED <<setting, part, nodes, runs>>

\* Where a hypernode goes that is left over, whatever the weights are.
LeftoverBlock(p, v) == IF Gain(p, v, 0) > Gain(p, v, 1) THEN 0 ELSE 1

\* The loop ends.
StopGrowing ==
  /\ alg.phase = "greedy"
  /\ LightEnough \/ (NextQueue(alg) = {} /\ alg.released)
  /\ LET next(s, i) ==
           LET v == UnassignedNode(s.list, s.p, Unassigned)
           IN  IF v = 0 THEN s
               ELSE [list |-> Pruned(s.list, s.p, Unassigned), p |-> [s.p EXCEPT ![v] = LeftoverBlock(s.p, v)]]
     IN  part' = IF alg.unassigned # Unassigned THEN part
                 ELSE FoldLeft(next, [list |-> alg.nodes, p |-> part], [i \in 1 .. alg.nodes.bound |-> i]).p
  /\ upper' = Bounds(EpsNum)
  /\ alg' = Idle("refine")
  /\ UNCHANGED <<setting, nodes, runs>>
-----------------------------------------------------------------------------
(***************************************************************************)
(* The keys in all queues are the gains of the moves: deltaGainUpdate      *)
(* keeps up with every assignment, for every policy                        *)
(* (greedy_hypergraph_growing_initial_partitioner.h:316-334).              *)
(***************************************************************************)
GainsExact ==
  (alg.phase = "greedy") =>
    \A m \in DOMAIN alg.key : part[m[1]] = alg.unassigned /\ alg.key[m] = Gain(part, m[1], m[2])

(***************************************************************************)
(* Growth never stalls: an enabled queue has a hypernode and room in its   *)
(* block; a queue that is disabled is empty, or its block cannot take      *)
(* every hypernode any more; and if no queue is left that a block with     *)
(* room for all could use, nothing is unassigned                           *)
(* (greedy_hypergraph_growing_initial_partitioner.h:199-230).              *)
(***************************************************************************)
QueuesServeBlocks ==
  (alg.phase = "greedy") =>
    \A b \in Blocks \ {alg.unassigned} :
      IF b \in alg.enabled THEN InQueue(alg, b) # {} /\ Weight(part, b) < upper[b]
      ELSE Weight(part, b) + Largest(hg.weight) <= upper[b] =>
             \A v \in NodesOf(hg) : ~ IsFixed(v) => part[v] # alg.unassigned
=============================================================================
