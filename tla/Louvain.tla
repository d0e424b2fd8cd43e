------------------------------ MODULE Louvain ------------------------------
(***************************************************************************)
(* Community detection: the Louvain method (partition/preprocessing/       *)
(* louvain.h) for the modularity (modularity.h) of a graph                 *)
(* (datastructure/graph.h) that is built from the hypergraph.              *)
(*                                                                         *)
(* A graph has nodes 1 .. n and a symmetric weight for every two of them,  *)
(* 0 if there is no edge; w[v][v] is the self-loop of v, which contraction *)
(* leaves behind.  Clusters are numbered like the nodes.  What is a        *)
(* fraction in the code is an integer here: edge weights are multiples of  *)
(* 1 / Unit, gains are multiplied by the total weight m2 of the graph, the *)
(* quality is multiplied by its square.                                    *)
(*                                                                         *)
(* louvain says what comes next:                                           *)
(*   begin     a pass on the last graph of the hierarchy                   *)
(*   visit     the next node of an iteration of the pass, or its end       *)
(*   mapBack   assignClusterToNextLevelFinerGraph, or the end              *)
(*   done      the communities are set                                     *)
(***************************************************************************)
EXTENDS Extraction

CONSTANTS Hypernode, Hyperedge,
          Unit,
          NodeOrders(_),       \* bound: the orders in which n nodes may be visited
          MaxPassIterations,   \* community_detection.max_pass_iterations
          MinImprovement       \* .min_eps_improvement, in the unit of the quality

VARIABLES hg,            \* the structure of module Incidence
          edgeWeight,    \* the weight of each net
          input,         \* the parameters of this behaviour
          graphs,        \* _graph_hierarchy, without the clusters
          clusters,      \* the cluster of each node of each of these graphs
          mappings,      \* mapping_stack
          internal, total,           \* Modularity: _internal_weight, _total_weight
          order, position,           \* _random_node_order, and the next node in it
          clock, nodeStamp, clusterStamp,
          nodeMoves, iterations,
          quality,       \* cur_quality
          louvain,       \* see above
          communities    \* of each hypernode

pass == <<internal, total, order, position, clock, nodeStamp, clusterStamp, nodeMoves, iterations>>
louvainVars == <<graphs, clusters, mappings, pass, quality, louvain, communities>>

Sum(f) == SumFunction(f)
SumOver(f, S) == SumFunctionOnSet(f, S)
-----------------------------------------------------------------------------
(* Graphs.                                                                   *)

Size(g) == Len(g)
NodesIn(g) == DOMAIN g
Degree(g, v) == Sum(g[v])                                 \* weightedDegree
M2(g) == Sum([v \in NodesIn(g) |-> Degree(g, v)])         \* totalWeight

\* The constructor: hypernodes that are only in nets of two pins become a graph,
\* others a bipartite graph with the nets, which are numbered behind them.
IsGraph(s) == \A e \in s.edges : Cardinality(s.pins[e]) <= 2
NodeOf(s, v) == Cardinality({u \in s.nodes : u <= v})
PlainGraph(s, weights) ==
  LET hn == Ascending(s.nodes)
  IN  [i \in DOMAIN hn |-> [j \in DOMAIN hn |->
         SumOver(weights, {e \in s.edges : i # j /\ s.pins[e] = {hn[i], hn[j]}}) * Unit]]

\* LouvainEdgeWeight
PinWeight(s, weights, kind, e, v) ==
  CASE kind = "uniform"     -> weights[e] * Unit
    [] kind = "non_uniform" -> weights[e] * (Unit \div Cardinality(s.pins[e]))
    [] kind = "degree"      -> weights[e] * Cardinality(s.nets[v]) * (Unit \div Cardinality(s.pins[e]))

BipartiteGraph(s, weights, kind) ==
  LET hn == Ascending(s.nodes)
      he == Ascending(s.edges)
      pinWeight(i, j) ==
        LET v == hn[Min({i, j})] e == he[Max({i, j}) - Len(hn)]
        IN  IF v \in s.pins[e] THEN PinWeight(s, weights, kind, e, v) ELSE 0
      all == 1 .. Len(hn) + Len(he)
  IN  [i \in all |-> [j \in all |->
         IF (i <= Len(hn)) # (j <= Len(hn)) THEN pinWeight(i, j) ELSE 0]]

GraphOf(s, weights, kind) ==
  IF IsGraph(s) THEN PlainGraph(s, weights) ELSE BipartiteGraph(s, weights, kind)

\* Modularity::modularity, from scratch.
Modularity(g, c) ==
  LET of(C) == {v \in NodesIn(g) : c[v] = C}
      inside(C) == Sum([v \in of(C) |-> SumOver(g[v], of(C))])
      all(C) == Sum([v \in of(C) |-> Degree(g, v)])
  IN  Sum([C \in Range(c) |-> inside(C) * M2(g) - all(C) * all(C)])

\* contractClusters: the clusters are renumbered in the order of their first
\* nodes, and each becomes a node.
Renumbering(c) ==
  LET first(v) == Min({u \in DOMAIN c : c[u] = c[v]})
  IN  [v \in DOMAIN c |-> Cardinality({u \in DOMAIN c : first(u) = u /\ u <= first(v)})]
ContractedGraph(g, mapping) ==
  LET of(C) == {v \in NodesIn(g) : mapping[v] = C}
      n == Cardinality(Range(mapping))
  IN  [a \in 1 .. n |-> [b \in 1 .. n |-> Sum([v \in of(a) |-> SumOver(g[v], of(b))])]]
-----------------------------------------------------------------------------
(* One pass.                                                                 *)

graph == Last(graphs)
cluster == Last(clusters)

\* Modularity::quality, from the weights that are kept for each cluster.
TrackedQuality(in, all) ==
  Sum([C \in DOMAIN in |-> IF all[C] > 0 THEN in[C] * M2(graph) - all[C] * all[C] ELSE 0])

\* The weight of the edges between v and the others in cluster C.
WeightTo(v, C) == SumOver(graph[v], {u \in NodesIn(graph) \ {v} : cluster[u] = C})
Incident(v) == {cluster[u] : u \in {x \in NodesIn(graph) \ {v} : graph[v][x] > 0}}

\* gain, once v is taken out of its cluster.
Gain(v, C) ==
  LET others == IF cluster[v] = C THEN total[C] - Degree(graph, v) ELSE total[C]
  IN  WeightTo(v, C) * M2(graph) - others * Degree(graph, v)

\* remove and insert, of a node whose edges to that cluster weigh `weight`.
InternalChange(v, weight) == 2 * weight + graph[v][v]

\* Whether a cluster next to v has changed since v was visited.
Outdated(v) ==
  \E u \in NodesIn(graph) : graph[v][u] > 0 /\ nodeStamp[v] < clusterStamp[cluster[u]]

\* The clusters of greatest gain, if it is positive; else v stays.
BestClusters(v) ==
  LET better == {C \in Incident(v) : Gain(v, C) > 0}
  IN  IF better = {} THEN {cluster[v]}
      ELSE {C \in better : \A D \in better : Gain(v, D) <= Gain(v, C)}

\* What a move at this time marks as changed.  (The variant marks only the
\* cluster that the node has left.)
StampedLeft(from, to) == {from}
Stamped(from, to) == {from, to}

BeginLouvain ==
  LET g == GraphOf(hg, edgeWeight, input.edgeWeightType)
  IN  /\ louvain = "off"
      /\ graphs' = <<g>>
      /\ clusters' = << [v \in NodesIn(g) |-> v] >>
      /\ mappings' = << >>
      /\ quality' = Modularity(g, [v \in NodesIn(g) |-> v])
      /\ louvain' = "begin"
      /\ UNCHANGED <<pass, communities>>

BeginPass ==
  LET n == Size(graph)
  IN  /\ louvain = "begin"
      /\ \E o \in NodeOrders(n) : order' = o
      /\ internal' = [v \in 1 .. n |-> graph[v][v]]
      /\ total' = [v \in 1 .. n |-> Degree(graph, v)]
      /\ nodeStamp' = [v \in 1 .. n |-> 0]
      /\ clusterStamp' = [v \in 1 .. n |-> n]
      /\ clock' = 0 /\ position' = 1 /\ nodeMoves' = 0 /\ iterations' = 1
      /\ louvain' = "visit"
      /\ UNCHANGED <<graphs, clusters, mappings, quality, communities>>

Visit ==
  LET v == order[position]
      from == cluster[v]
  IN  /\ louvain = "visit"
      /\ position <= Len(order)
      /\ \E to \in IF Outdated(v) THEN BestClusters(v) ELSE {from} :
           LET removed == [internal EXCEPT ![from] = @ - InternalChange(v, WeightTo(v, from))]
           IN  /\ internal' = [removed EXCEPT ![to] = @ + InternalChange(v, WeightTo(v, to))]
               /\ total' = [C \in DOMAIN total |->
                              total[C] - (IF C = from THEN Degree(graph, v) ELSE 0)
                                       + (IF C = to THEN Degree(graph, v) ELSE 0)]
               /\ clusters' = [clusters EXCEPT ![Len(clusters)][v] = to]
               /\ clusterStamp' = [C \in DOMAIN clusterStamp |->
                                     IF to # from /\ C \in Stamped(from, to)
                                     THEN Max({clock, clusterStamp[C]}) ELSE clusterStamp[C]]
               /\ nodeMoves' = IF to # from THEN nodeMoves + 1 ELSE nodeMoves
      /\ nodeStamp' = [nodeStamp EXCEPT ![v] = clock]
      /\ clock' = clock + 1
      /\ position' = position + 1
      /\ UNCHANGED <<graphs, mappings, order, iterations, quality, louvain, communities>>

NextIteration ==
  /\ louvain = "visit"
  /\ position > Len(order)
  /\ nodeMoves > 0 /\ iterations < MaxPassIterations
  /\ position' = 1 /\ nodeMoves' = 0 /\ iterations' = iterations + 1
  /\ UNCHANGED <<graphs, clusters, mappings, internal, total, order, clock, nodeStamp,
                 clusterStamp, quality, louvain, communities>>

\* The end of a pass; after an improvement its clusters are contracted.
EndPass ==
  LET new == TrackedQuality(internal, total)
      mapping == Renumbering(cluster)
      coarse == ContractedGraph(graph, mapping)
  IN  /\ louvain = "visit"
      /\ position > Len(order)
      /\ nodeMoves = 0 \/ iterations = MaxPassIterations
      /\ quality' = new
      /\ IF new - quality > MinImprovement
         THEN /\ graphs' = Append(graphs, coarse)
              /\ clusters' = Append([clusters EXCEPT ![Len(clusters)] = mapping],
                                    [v \in NodesIn(coarse) |-> v])
              /\ mappings' = Append(mappings, mapping)
              /\ louvain' = "begin"
         ELSE louvain' = "mapBack" /\ UNCHANGED <<graphs, clusters, mappings>>
      /\ UNCHANGED <<pass, communities>>

\* assignClusterToNextLevelFinerGraph, at the end of run.
MapBack ==
  LET mapping == Last(mappings)
  IN  /\ louvain = "mapBack"
      /\ mappings # << >>
      /\ graphs' = Front(graphs)
      /\ clusters' = Append(Front(Front(clusters)), [v \in DOMAIN mapping |-> cluster[mapping[v]]])
      /\ mappings' = Front(mappings)
      /\ UNCHANGED <<pass, quality, louvain, communities>>

\* detectCommunities: the communities of the hypernodes.
SetCommunities ==
  /\ louvain = "mapBack"
  /\ mappings = << >>
  /\ communities' = [v \in Hypernode |-> IF v \in hg.nodes THEN cluster[NodeOf(hg, v)] ELSE Unassigned]
  /\ louvain' = "done"
  /\ graphs' = << >> /\ clusters' = << >> /\ order' = << >> /\ internal' = << >> /\ total' = << >>
  /\ nodeStamp' = << >> /\ clusterStamp' = << >> /\ clock' = 0 /\ position' = 0 /\ nodeMoves' = 0
  /\ iterations' = 0 /\ quality' = 0
  /\ UNCHANGED mappings

LouvainInit ==
  /\ graphs = << >> /\ clusters = << >> /\ mappings = << >> /\ internal = << >> /\ total = << >>
  /\ order = << >> /\ position = 0 /\ clock = 0 /\ nodeStamp = << >> /\ clusterStamp = << >>
  /\ nodeMoves = 0 /\ iterations = 0 /\ quality = 0 /\ louvain = "off"
-----------------------------------------------------------------------------
\* The clusters of the nodes of the first graph.
ProjectedCluster(v) ==
  cluster[FoldLeft(LAMBDA x, mapping : mapping[x], v, mappings)]

\* The assertion of run that contraction keeps the quality, and that of quality
\* that it is the modularity: on every graph of the hierarchy, after every move
\* of a node, the weights kept for the clusters give the modularity that the
\* communities have in the first graph.
QualityTracked ==
  LET modularity == Modularity(graphs[1], [v \in NodesIn(graphs[1]) |-> ProjectedCluster(v)])
  IN  /\ louvain = "visit" => TrackedQuality(internal, total) = modularity
      /\ louvain \in {"begin", "mapBack"} => quality = modularity

\* The time stamps: a pass that ends because no node has moved leaves a local
\* optimum, although nodes are skipped without looking at their gains.
SkippedInVain ==
  louvain = "visit" /\ position > Len(order) /\ nodeMoves = 0 =>
    \A v \in NodesIn(graph) : \A C \in Incident(v) :
      Gain(v, C) <= 0 \/ Gain(v, C) <= Gain(v, cluster[v])

CommunitiesExact == QualityTracked /\ SkippedInVain
=============================================================================
