----------------------------- MODULE Extraction -----------------------------
(***************************************************************************)
(* Hypergraphs as values, and the functions of                             *)
(* kahypar/datastructure/hypergraph.h that build one hypergraph from       *)
(* another: reindex, removeFixedVertices and                               *)
(* extractPartAsUnpartitionedHypergraphForBisection.                       *)
(*                                                                         *)
(* Hypernodes and hyperedges are numbered from 1 (from 0 in the code).     *)
(* Every one of these functions also returns the vector that maps the new  *)
(* hypernodes to the old ones; the result below is a pair <<h, mapping>>.  *)
(***************************************************************************)
EXTENDS Integers, FiniteSets, SequencesExt

Unassigned == -1    \* Hypergraph::kInvalidPartition

\* A hypergraph: the weight of each hypernode, the pins and the weight of each
\* hyperedge, and the fixed block of each hypernode (Unassigned: a free one).
NodesOf(h) == DOMAIN h.weight
EdgesOf(h) == DOMAIN h.pins
TotalWeight(h) == SumFunction(h.weight)
FixedVertices(h) == {v \in NodesOf(h) : h.fixed[v] # Unassigned}

\* What is known of a partition: the blocks of a net, and its pins in one.
PinsIn(h, part, e, b) == {v \in h.pins[e] : part[v] = b}
ConnectivitySet(h, part, e) == {part[v] : v \in h.pins[e]} \ {Unassigned}
BlockWeight(h, part, b) == SumFunctionOnSet(h.weight, {v \in NodesOf(h) : part[v] = b})

\* metrics::objective: the weight of the nets in the cut, counted once or once
\* for each block but one.
Objective(h, part, objective) ==
  LET cost == [e \in EdgesOf(h) |->
                 LET lambda == Cardinality(ConnectivitySet(h, part, e))
                 IN  h.netWeight[e] * IF objective = "km1" THEN Max({lambda - 1, 0})
                                      ELSE IF lambda > 1 THEN 1 ELSE 0]
  IN  SumFunction(cost)

\* The members of a set of numbers in their order.
Ascending(S) == [i \in 1 .. Cardinality(S) |-> CHOOSE x \in S : Cardinality({y \in S : y <= x}) = i]

\* The hypergraph of the hypernodes V and, restricted to them, the nets E, both
\* renumbered in the order of their numbers.
Induced(h, V, E) ==
  LET mapping == Ascending(V)
      nets == Ascending(E)
      index == [v \in V |-> Cardinality({u \in V : u <= v})]
  IN  << [weight    |-> [i \in DOMAIN mapping |-> h.weight[mapping[i]]],
          pins      |-> [j \in DOMAIN nets |-> {index[v] : v \in h.pins[nets[j]] \cap V}],
          netWeight |-> [j \in DOMAIN nets |-> h.netWeight[nets[j]]],
          fixed     |-> [i \in DOMAIN mapping |-> h.fixed[mapping[i]]]],
         mapping >>

\* removeFixedVertices: nets with fewer than two free pins disappear.
WithoutFixedVertices(h) ==
  LET free == NodesOf(h) \ FixedVertices(h)
  IN  Induced(h, free, {e \in EdgesOf(h) : Cardinality(h.pins[e] \cap free) > 1})

\* extractPartAsUnpartitionedHypergraphForBisection.  For the connectivity a net
\* is split at the cut, for the cut a net in the cut is dropped: it counts once,
\* however often it is cut again.  (The variant splits the nets for either
\* objective.)
ExtractedPartSplittingAll(h, part, b, objective) ==
  Induced(h, {v \in NodesOf(h) : part[v] = b},
             {e \in EdgesOf(h) : Cardinality(PinsIn(h, part, e, b)) > 1})

ExtractedPart(h, part, b, objective) ==
  Induced(h, {v \in NodesOf(h) : part[v] = b},
          IF objective = "km1"
          THEN {e \in EdgesOf(h) : Cardinality(PinsIn(h, part, e, b)) > 1}
          ELSE {e \in EdgesOf(h) : ConnectivitySet(h, part, e) = {b}})
=============================================================================
