---------------------------- MODULE Preprocessing ----------------------------
(***************************************************************************)
(* What the top-level partitioner does to a hypergraph before it is        *)
(* partitioned: deduplication (hypergraph_deduplicator.h), the removal of  *)
(* nets with a single pin and of large nets, and pin sparsification        *)
(* (min_hash_sparsifier.h, adaptive_lsh.h).                                *)
(*                                                                         *)
(* The operations are functions of the structure of module Incidence; the  *)
(* order in which they are done and undone is module Pipeline.             *)
(***************************************************************************)
EXTENDS Extraction

CONSTANTS Hypernode, Hyperedge,   \* 1 .. n and 1 .. m: those of every input
          NumHashFunctions,       \* min_hash_sparsifier.num_hash_functions
          MinClusterSize, MaxClusterSize,
          Word                    \* 2^32: the counters of the LSH wrap around here

VARIABLES hg,           \* the structure of module Incidence
          edgeWeight,   \* the weight of each hyperedge
          log           \* unused here: the two removers keep lists of their own

I == INSTANCE Incidence WITH InitPins <- [e \in Hyperedge |-> {}], InitNumPins <- 0,
                             InitWeight <- [v \in Hypernode |-> 0]

\* The structure as a hypergraph of module Extraction.
AsHypergraph(s, weights, fixed) ==
  [weight    |-> [v \in s.nodes |-> s.weight[v]],
   pins      |-> [e \in s.edges |-> s.pins[e]],
   netWeight |-> [e \in s.edges |-> weights[e]],
   fixed     |-> [v \in s.nodes |-> fixed[v]]]

(***************************************************************************)
(* Deduplication.  Hashing finds, for each element, the first one that is  *)
(* equal to it: only such elements enter the chains of the hash table.     *)
(***************************************************************************)
\* The hypernode that stays for v, and the pairs <<u, v>> of the contractions in
\* their order.  The weights, the blocks and the fixed vertices are not compared.
IdenticalNode(s, v) == Min({u \in s.nodes : s.nets[u] = s.nets[v]})
IdenticalNodes(s) ==
  LET removed == Ascending({v \in s.nodes : IdenticalNode(s, v) # v})
  IN  [i \in DOMAIN removed |-> << IdenticalNode(s, removed[i]), removed[i] >>]

\* The same for nets.
ParallelNet(s, e) == Min({f \in s.edges : s.pins[f] = s.pins[e]})
ParallelNets(s) ==
  LET removed == Ascending({e \in s.edges : ParallelNet(s, e) # e})
  IN  [i \in DOMAIN removed |-> << ParallelNet(s, removed[i]), removed[i] >>]

ContractAll(s, pairs) == FoldLeft(LAMBDA t, p : I!Contracted(t, p[1], p[2]), s, pairs)
UncontractAll(s, pairs) == FoldLeft(LAMBDA t, p : I!Uncontracted(t, p[1], p[2]), s, pairs)
RemoveAll(s, nets) == FoldLeft(LAMBDA t, e : I!Removed(t, e), s, nets)
RestoreAll(s, nets) == FoldLeft(LAMBDA t, e : I!Restored(t, e), s, nets)

\* The weight of a parallel net moves to its representative, and back.
MergeWeights(weights, pairs) == FoldLeft(LAMBDA w, p : [w EXCEPT ![p[1]] = @ + w[p[2]]], weights, pairs)
SplitWeights(weights, pairs) == FoldLeft(LAMBDA w, p : [w EXCEPT ![p[1]] = @ - w[p[2]]], weights, pairs)

\* uncontract puts v into the block of its representative.
InheritAll(part, pairs) == FoldLeft(LAMBDA f, p : [f EXCEPT ![p[2]] = f[p[1]]], part, pairs)

(***************************************************************************)
(* Sanitizing: the nets the two removers take out, in the order they do.   *)
(***************************************************************************)
SingleNodeNets(s) == Ascending({e \in s.edges : Cardinality(s.pins[e]) = 1})
LargeNets(s, threshold) == Ascending({e \in s.edges : Cardinality(s.pins[e]) > threshold})

(***************************************************************************)
(* Sparsification.  Hypernodes whose incident nets hash to the same value  *)
(* are put into one cluster, until a cluster has MinClusterSize.           *)
(***************************************************************************)
FreeNodes(fixed) == {v \in Hypernode : fixed[v] = Unassigned}

\* The clusters before the first hash function.  `size` counts 1 for every
\* hypernode and `remaining` counts removed hypernodes too.
NoClusters(s, fixed) ==
  [cluster |-> [v \in s.nodes |-> v], size |-> [v \in Hypernode |-> 1], active |-> Hypernode,
   remaining |-> Cardinality(FreeNodes(fixed)), round |-> 0]

\* The clusters of fixed vertices take part in nothing.
ActiveClusters(lsh, s, fixed) == lsh.active \ {lsh.cluster[v] : v \in s.nodes \ FreeNodes(fixed)}

\* One member u of the bucket of cur joins the cluster of cur, unless the bucket
\* search has stopped.  Sizes grow and shrink by weights, though they started at 1.
Join(lsh, c, u, s) ==
  LET w == s.weight[u]
      grown == [[lsh.size EXCEPT ![lsh.cluster[u]] = (@ - w) % Word] EXCEPT ![c] = (@ + w) % Word]
  IN  IF lsh.stopped \/ lsh.cluster[u] \notin lsh.active THEN lsh
      ELSE IF (lsh.size[c] + w) % Word > MaxClusterSize THEN [lsh EXCEPT !.stopped = TRUE]
      ELSE [lsh EXCEPT !.cluster[u] = c, !.size = grown,
                       !.inactive = IF grown[c] >= MinClusterSize THEN @ \cup {c} ELSE @,
                       !.active = IF grown[c] >= MinClusterSize THEN @ \ {c} ELSE @,
                       !.visited = @ \cup {u}, !.joined = @ \cup {u}]

\* runIncrementalBfs of one hypernode and of all, in the order of their numbers.
\* bucket: the hash value of each hypernode; a bucket is ordered by number, and
\* hypernodes that have joined leave theirs.
Explore(lsh, cur, s, bucket) ==
  IF cur \in lsh.visited \/ lsh.cluster[cur] \notin lsh.active THEN lsh
  ELSE LET members == Ascending({u \in lsh.inBuckets : bucket[u] = bucket[cur]})
           done == FoldLeft(LAMBDA l, u : Join(l, lsh.cluster[cur], u, s),
                            [lsh EXCEPT !.visited = @ \cup {cur}, !.stopped = FALSE, !.joined = {}], members)
       IN  [done EXCEPT !.inBuckets = @ \ done.joined]

Round(lsh, s, fixed, bucket) ==
  LET active == ActiveClusters(lsh, s, fixed)
      start == [cluster |-> lsh.cluster, size |-> lsh.size, active |-> active, visited |-> {}, joined |-> {},
                inactive |-> {}, stopped |-> FALSE,
                inBuckets |-> {v \in s.nodes : lsh.cluster[v] \in active}]
      end == FoldLeft(LAMBDA l, v : Explore(l, v, s, bucket), start, Ascending(s.nodes))
  IN  [cluster |-> end.cluster, size |-> end.size, active |-> end.active, round |-> lsh.round + 1,
       remaining |-> (lsh.remaining - SumFunctionOnSet(end.size, end.inactive)) % Word]

\* Equal nets give equal hash values; otherwise any two may or may not collide.
Hashes(s) == {bucket \in [s.nodes -> 1 .. 2] : \A u, v \in s.nodes : s.nets[u] = s.nets[v] => bucket[u] = bucket[v]}

\* build(): another round?  The test that is to stop it early counts hypernodes
\* that are in a cluster, which all are, not clusters.
Goes(lsh, s, fixed) ==
  /\ lsh.remaining > 0
  /\ lsh.round < NumHashFunctions
  /\ lsh.round > 0 => Cardinality(s.nodes) > Cardinality(FreeNodes(fixed)) \div 2

\* reenumerateClusters: numbers in the order of first appearance.
Renumbered(cluster) ==
  LET FirstMember(c) == Min({v \in DOMAIN cluster : cluster[v] = c})
      firsts == {FirstMember(cluster[v]) : v \in DOMAIN cluster}
  IN  [v \in DOMAIN cluster |-> Cardinality({u \in firsts : u <= FirstMember(cluster[v])})]

\* buildSparsifiedHypergraph: a net becomes the set of the clusters of its pins.
\* Two nets with the same image are merged if the clusters appear in the same
\* order in both; the order of pins is not modelled: `found` are the nets that are
\* found to be like the first net with their image.
Image(h, cluster, e) == {cluster[v] : v \in h.pins[e]}
MergedInto(h, cluster, found, e) ==
  IF e \in found THEN Min({f \in EdgesOf(h) : Image(h, cluster, f) = Image(h, cluster, e)}) ELSE e

\* (The variant keeps the weight of the first of merged nets only.)
FirstNetWeight(h, cluster, found, e) == h.netWeight[e]
SparseNetWeight(h, cluster, found, e) ==
  SumFunctionOnSet(h.netWeight, {f \in EdgesOf(h) : MergedInto(h, cluster, found, f) = e})

\* Nets within one cluster disappear; a cluster has the weight of its members and,
\* if it is that of a fixed vertex, its block.
Sparsified(h, cluster, found) ==
  LET Members(c) == {v \in NodesOf(h) : cluster[v] = c}
      clusters == {cluster[v] : v \in NodesOf(h)}
      kept == {e \in EdgesOf(h) : Cardinality(Image(h, cluster, e)) > 1 /\ MergedInto(h, cluster, found, e) = e}
  IN  [weight    |-> [c \in clusters |-> SumFunctionOnSet(h.weight, Members(c))],
       pins      |-> [e \in kept |-> Image(h, cluster, e)],
       netWeight |-> [e \in kept |-> SparseNetWeight(h, cluster, found, e)],
       fixed     |-> [c \in clusters |-> Max({h.fixed[v] : v \in Members(c)})]]
=============================================================================
