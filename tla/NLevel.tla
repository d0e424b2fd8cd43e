------------------------------- MODULE NLevel -------------------------------
(***************************************************************************)
(* The n-level scheme of direct k-way partitioning: the client of the      *)
(* hypergraph data structure.  CoarsenerBase contracts one pair at a time  *)
(* and lets HypergraphPruner remove the nets that the contraction made     *)
(* superfluous; VertexPairCoarsenerBase undoes the contractions one by one *)
(* with local search after each; direct_kway::partition repeats both in    *)
(* V-cycles; and a soft time limit may cut the uncoarsening short.         *)
(*                                                                         *)
(* Every step of this module makes at most one call into the hypergraph,   *)
(* the action of that call in module Hypergraph is a conjunct of it.       *)
(* Within doUncoarsen, `pc` says how far the handler of a level has come   *)
(* and `cursor` is the index of its current loop:                          *)
(*   idle      between levels, nothing uncontracted yet in this V-cycle    *)
(*   parallel  restoreParallelHyperedges      single  restoreSingle...     *)
(*   search    the level is restored, local search moves hypernodes        *)
(***************************************************************************)
EXTENDS Integers, FiniteSets, SequencesExt

CONSTANTS Hypernode, Hyperedge, InitPins, InitNumPins, InitWeight,
          Block, NoBlock, NoCount, FixedPart, MaxVCycles,  \* see Hypergraph
          InitEdgeWeight,   \* the weight of each net, as read from the input
          MaxNodeWeight,    \* coarsening.max_allowed_node_weight
          TimeLimited       \* the V-cycles in which the soft time limit may be exceeded

ASSUME HypergraphAssumption == /\ IsFiniteSet(Hypernode) /\ Hypernode # {}
                               /\ IsFiniteSet(Hyperedge)
                               /\ InitPins \in [Hyperedge -> SUBSET Hypernode]
                               /\ InitNumPins \in Nat
                               /\ InitWeight \in [Hypernode -> Nat]
                               /\ IsFiniteSet(Block) /\ Block # {} /\ NoBlock \notin Block
                               /\ NoCount \notin Int
                               /\ FixedPart \in [Hypernode -> Block \cup {NoBlock}]
                               /\ MaxVCycles \in Nat
ASSUME EdgeWeightAssumption == InitEdgeWeight \in [Hyperedge -> Nat]
ASSUME MaxNodeWeightAssumption == MaxNodeWeight \in Nat
ASSUME TimeLimitedAssumption == TimeLimited \subseteq 0 .. MaxVCycles

VARIABLES hg, log, phase, vcycle, part, netPart, cutNets, block, fixedVertices,
          edgeWeight,       \* weight of each net, merged nets included
          hash,             \* of each net: how often each hypernode is in the sum
          history,          \* _history, the stack of coarsening mementos
          removedSingle,    \* _removed_single_node_hyperedges
          removedParallel,  \* _removed_parallel_hyperedges
          maxWeights,       \* _max_hn_weights
          pc, cursor,       \* see above
          timeUp            \* time_limit_triggered

hypergraph == <<hg, log, phase, vcycle, part, netPart, cutNets, block, fixedVertices>>
pruner == <<removedSingle, removedParallel>>
loop == <<pc, cursor>>
vars == <<hypergraph, edgeWeight, hash, history, pruner, maxWeights, loop, timeUp>>

H == INSTANCE Hypergraph

Memento == [u : Hypernode, v : Hypernode,
            singleBegin : Nat, singleSize : Nat, parallelBegin : Nat, parallelSize : Nat]
ParallelHE == [representative : Hyperedge, removed : Hyperedge]
MaxWeight == [numNodes : Nat, weight : Nat]

Heaviest(weight, N) == Max({weight[v] : v \in N})

\* The hash of a net is the sum over its pins.
HashOf(pins) == [v \in Hypernode |-> IF v \in pins THEN 1 ELSE 0]
-----------------------------------------------------------------------------
Init ==
  /\ H!Init
  /\ edgeWeight = InitEdgeWeight
  /\ hash = [e \in Hyperedge |-> HashOf(InitPins[e])]
  /\ history = << >>
  /\ removedSingle = << >>
  /\ removedParallel = << >>
  /\ maxWeights = << [numNodes |-> Cardinality(Hypernode), weight |-> Heaviest(InitWeight, Hypernode)] >>
  /\ pc = "idle" /\ cursor = 0
  /\ timeUp = FALSE

\* What the rater may propose to contract: neighbours in one block, light
\* enough together, a fixed v only with a u fixed to the same block.  (The
\* rating itself is left open.)
Rated(u, v) ==
  /\ {u, v} \subseteq hg.nodes
  /\ u # v
  /\ \E e \in hg.nets[u] : v \in hg.pins[e]
  /\ hg.weight[u] + hg.weight[v] <= MaxNodeWeight
  /\ part[u] = part[v]
  /\ H!IsFixed(v) => FixedPart[u] = FixedPart[v]

\* What the pruner still has to remove after the last contraction.  Parallel
\* nets are looked for among the nets of equal hash, and the net that absorbed
\* another one stays.
SingleNets == {e \in hg.nets[Last(history).u] : Cardinality(hg.pins[e]) = 1}

Absorbing == {removedParallel[i].representative :
                i \in (Last(history).parallelBegin + 1) .. Len(removedParallel)}

ParallelNets(rep) ==
  {e \in hg.nets[Last(history).u] \ (Absorbing \cup {rep}) :
     /\ hash[e] = hash[rep]
     /\ Cardinality(hg.pins[e]) = Cardinality(hg.pins[rep])
     /\ hg.pins[e] \subseteq hg.pins[rep]}

Pruned ==
  history # << >> =>
    /\ SingleNets = {}
    /\ \A rep \in hg.nets[Last(history).u] : ParallelNets(rep) = {}

\* contract finds v in each of its nets: "v is not last entry in adjacency
\* array!"
Contractible(v) == \A e \in hg.nets[v] : v \in hg.pins[e]

\* contract maintains the hash of every net of v.
ContractedHash(u, v) ==
  [e \in Hyperedge |->
     IF e \notin hg.nets[v] THEN hash[e]
     ELSE IF u \in hg.pins[e] THEN [hash[e] EXCEPT ![v] = @ - 1]
     ELSE [hash[e] EXCEPT ![v] = @ - 1, ![u] = @ + 1]]

\* A representative u of weight w that is heavier than all before it, at a
\* level of n hypernodes, is recorded.  (The variant looks at the weight that
\* u had before the contraction.)
RaisedTooLate(u, w, n) ==
  IF hg.weight[u] > Last(maxWeights).weight
  THEN Append(maxWeights, [numNodes |-> n, weight |-> w]) ELSE maxWeights
RaisedMaxWeights(u, w, n) ==
  IF w > Last(maxWeights).weight
  THEN Append(maxWeights, [numNodes |-> n, weight |-> w]) ELSE maxWeights

\* performContraction(u, v) up to the calls of the pruner, which RemoveSingle
\* and RemoveParallel make: nothing else happens before Pruned holds.
PerformContraction(u, v) ==
  /\ Pruned
  /\ Rated(u, v)
  /\ Contractible(v)
  /\ H!Contract(u, v)
  /\ hash' = ContractedHash(u, v)
  /\ history' = Append(history, [u |-> u, v |-> v,
                                 singleBegin |-> Len(removedSingle), singleSize |-> 0,
                                 parallelBegin |-> Len(removedParallel), parallelSize |-> 0])
  /\ maxWeights' = RaisedMaxWeights(u, hg'.weight[u], Cardinality(hg'.nodes))
  /\ UNCHANGED <<edgeWeight, pruner, loop, timeUp>>

\* One iteration of removeSingleNodeHyperedges.
RemoveSingle(e) ==
  /\ history # << >>
  /\ e \in SingleNets
  /\ H!RemoveEdge(e)
  /\ removedSingle' = Append(removedSingle, e)
  /\ history' = [history EXCEPT ![Len(history)].singleSize = @ + 1]
  /\ UNCHANGED <<edgeWeight, hash, removedParallel, maxWeights, loop, timeUp>>

\* The weight of a removed parallel net is added to its representative, and
\* taken off when the net is restored.  (The variant
\* forgets it.)
NotMerged(rep, e) == edgeWeight
Merged(rep, e) == [edgeWeight EXCEPT ![rep] = @ + edgeWeight[e]]

Split(rep, e) == [edgeWeight EXCEPT ![rep] = @ - edgeWeight[e]]

\* removeParallelHyperedge(rep, e), within removeParallelHyperedges.
RemoveParallel(rep, e) ==
  /\ history # << >>
  /\ SingleNets = {}
  /\ rep \in hg.nets[Last(history).u]
  /\ e \in ParallelNets(rep)
  /\ H!RemoveEdge(e)
  /\ edgeWeight' = Merged(rep, e)
  /\ removedParallel' = Append(removedParallel, [representative |-> rep, removed |-> e])
  /\ history' = [history EXCEPT ![Len(history)].parallelSize = @ + 1]
  /\ UNCHANGED <<hash, removedSingle, maxWeights, loop, timeUp>>

\* initial::partition, possibly in several attempts.
SetNodePart(v, b) ==
  /\ Pruned
  /\ H!SetNodePart(v, b)
  /\ UNCHANGED <<edgeWeight, hash, history, pruner, maxWeights, loop, timeUp>>

ResetPartitioning ==
  /\ phase \in {"coarsening", "initial"}
  /\ Pruned
  /\ H!ResetPartitioning
  /\ UNCHANGED <<edgeWeight, hash, history, pruner, maxWeights, loop, timeUp>>

\* The coarsest level is partitioned and uncoarsening begins.
InitializeNumCutHyperedges ==
  /\ Pruned
  /\ H!InitializeNumCutHyperedges
  /\ pc' = "idle"
  /\ UNCHANGED <<edgeWeight, hash, history, pruner, maxWeights, cursor, timeUp>>
-----------------------------------------------------------------------------
\* Where the loops of restoreParallelHyperedges and of
\* restoreSingleNodeHyperedges begin, as positions in the pruner's vectors.
\* (The variant is off by one.)
LastParallel(m) == m.parallelBegin + m.parallelSize

LastSingleOffByOne(m) == m.singleBegin + m.singleSize + 1
LastSingle(m) == m.singleBegin + m.singleSize

\* doUncoarsen's loop: the time limit is not exceeded, and uncontract calls
\* restoreParallelHyperedges.
BeginLevel ==
  /\ phase = "refining"
  /\ pc \in {"idle", "search"}
  /\ history # << >>
  /\ pc' = "parallel"
  /\ cursor' = LastParallel(Last(history))
  /\ UNCHANGED <<hypergraph, edgeWeight, hash, history, pruner, maxWeights, timeUp>>

\* One iteration of restoreParallelHyperedges.
RestoreParallel ==
  /\ pc = "parallel"
  /\ cursor > Last(history).parallelBegin
  /\ LET pair == removedParallel[cursor]
     IN /\ H!RestoreParallelEdge(pair.representative)
        /\ edgeWeight' = Split(pair.representative, pair.removed)
  /\ removedParallel' = Front(removedParallel)
  /\ cursor' = cursor - 1
  /\ UNCHANGED <<hash, history, removedSingle, maxWeights, pc, timeUp>>

ParallelRestored ==
  /\ pc = "parallel"
  /\ cursor = Last(history).parallelBegin
  /\ pc' = "single"
  /\ cursor' = LastSingle(Last(history))
  /\ UNCHANGED <<hypergraph, edgeWeight, hash, history, pruner, maxWeights, timeUp>>

\* One iteration of restoreSingleNodeHyperedges.
RestoreSingle ==
  /\ pc = "single"
  /\ cursor > Last(history).singleBegin
  /\ H!RestoreEdge
  /\ removedSingle' = Front(removedSingle)
  /\ cursor' = cursor - 1
  /\ UNCHANGED <<edgeWeight, hash, history, removedParallel, maxWeights, pc, timeUp>>

\* The rest of uncontract.  The edge hashes are left as they are.
Uncontract ==
  /\ pc = "single"
  /\ cursor = Last(history).singleBegin
  /\ maxWeights' = IF Cardinality(hg.nodes) > Last(maxWeights).numNodes
                   THEN Front(maxWeights) ELSE maxWeights
  /\ H!Uncontract
  /\ history' = Front(history)
  /\ pc' = "search"
  /\ UNCHANGED <<edgeWeight, hash, pruner, cursor, timeUp>>

\* One move of performLocalSearch, by any of the refiners.
ChangeNodePart(v, b) ==
  /\ pc = "search"
  /\ H!ChangeNodePart(v, b)
  /\ UNCHANGED <<edgeWeight, hash, history, pruner, maxWeights, loop, timeUp>>

\* restoreMemento for all that is left of the history, from its end: the block
\* of every hypernode.  (The variant runs over the history from its begin.)
ProjectedInOrder ==
  LET restored(p, m) == [p EXCEPT ![m.v] = p[m.u]] IN FoldLeft(restored, part, history)
ProjectedPart ==
  LET restored(p, m) == [p EXCEPT ![m.v] = p[m.u]] IN FoldLeft(restored, part, Reverse(history))

\* The soft time limit is exceeded: only restoreMemento is called for what is
\* left of the history.  Nets, weights and the pruner's vectors stay.
SoftTimeLimit ==
  LET nodes == {m.v : m \in ToSet(history)}
      freed(b) == {m.v : m \in {m \in ToSet(history) : FixedPart[m.u] = b /\ ~ H!IsFixed(m.v)}}
  IN /\ vcycle \in TimeLimited
     /\ phase = "refining"
     /\ pc \in {"idle", "search"}
     /\ history # << >>
     /\ hg' = [hg EXCEPT !.nodes = @ \cup nodes]
     /\ part' = ProjectedPart
     /\ block' = [b \in Block |->
                    [block[b] EXCEPT
                       !.size = @ + Cardinality({v \in nodes : part'[v] = b}),
                       !.fixedWeight = @ - H!WeightOf(hg, freed(b))]]
     /\ fixedVertices' = fixedVertices \cup {v \in nodes : H!IsFixed(v)}
     /\ history' = << >>
     /\ log' = << >>   \* nothing will be undone any more
     /\ timeUp' = TRUE
     /\ pc' = "idle"
     /\ UNCHANGED <<phase, vcycle, netPart, cutNets, edgeWeight, hash, pruner, maxWeights, cursor>>

\* resetEdgeHashes, for the enabled nets.  (The variant leaves them stale.)
StaleHashes == hash
ResetEdgeHashes == [e \in Hyperedge |-> IF e \in hg.edges THEN HashOf(hg.pins[e]) ELSE hash[e]]

\* partitionVCycle: the edge hashes of the enabled nets are reset first.
StartVCycle ==
  /\ pc \in {"idle", "search"}
  /\ H!StartVCycle
  /\ hash' = ResetEdgeHashes
  /\ pc' = "idle"
  /\ UNCHANGED <<edgeWeight, history, pruner, maxWeights, cursor, timeUp>>

Uncoarsening == BeginLevel \/ RestoreParallel \/ ParallelRestored \/ RestoreSingle \/ Uncontract

Next == \/ \E u, v \in Hypernode : PerformContraction(u, v)
        \/ \E e \in Hyperedge : RemoveSingle(e)
        \/ \E rep, e \in Hyperedge : RemoveParallel(rep, e)
        \/ \E v \in Hypernode, b \in Block : SetNodePart(v, b)
        \/ ResetPartitioning
        \/ InitializeNumCutHyperedges
        \/ Uncoarsening
        \/ \E v \in Hypernode, b \in Block : ChangeNodePart(v, b)
        \/ SoftTimeLimit
        \/ StartVCycle

\* The loop of doUncoarsen runs on: local search ends at every level.
Spec == Init /\ [][Next]_vars /\ WF_vars(Uncoarsening)
-----------------------------------------------------------------------------
TypeOK ==
  /\ H!TypeOK
  /\ edgeWeight \in [Hyperedge -> Nat]
  /\ hash \in [Hyperedge -> [Hypernode -> Int]]
  /\ history \in Seq(Memento)
  /\ removedSingle \in Seq(Hyperedge)
  /\ removedParallel \in Seq(ParallelHE)
  /\ maxWeights \in Seq(MaxWeight)
  /\ pc \in {"idle", "parallel", "single", "search"}
  /\ cursor \in Nat
  /\ timeUp \in BOOLEAN

\* Between contractions no net is left that the rater and the pruner assume
\* away ("parallel HE removal failed", edgeSize > 1), anywhere in the
\* hypergraph, if the input has none.
NoSuperfluousNets ==
  LET proper(E, pins) == /\ \A e \in E : Cardinality(pins[e]) > 1
                         /\ \A e, f \in E : e # f => pins[e] # pins[f]
  IN phase = "coarsening" /\ Pruned /\ proper(Hyperedge, InitPins) => proper(hg.edges, hg.pins)

\* The pruner restores the nets in exactly the reverse of the order in which
\* they were removed, although it keeps single and parallel nets apart and
\* finds them by an index: the client's part of the bargain of Incidence.
RestoresInReverse ==
  /\ pc = "parallel" /\ cursor > Last(history).parallelBegin =>
       /\ cursor = Len(removedParallel)
       /\ Last(log).op = "remove"
       /\ Last(log).e = removedParallel[cursor].removed
  /\ pc = "single" /\ cursor > Last(history).singleBegin =>
       /\ cursor = Len(removedSingle)
       /\ Last(log).op = "remove"
       /\ Last(log).e = removedSingle[cursor]
  /\ pc = "single" /\ cursor = Last(history).singleBegin =>
       /\ Last(log).op = "contract"
       /\ Last(log).u = Last(history).u
       /\ Last(log).v = Last(history).v

\* The connectivity metric of a level, over its merged nets, is the one the
\* projected partition has on the input: also when the time limit left the
\* nets contracted.
SumOver(E, f) == MapThenSumSet(LAMBDA e : f[e], E)
Km1 == SumOver(hg.edges, [e \in hg.edges |-> edgeWeight[e] * (netPart[e].connectivity - 1)])
Connected(e) == {H!Projected(v) : v \in InitPins[e]}
ProjectedKm1 == SumOver(Hyperedge, [e \in Hyperedge |-> InitEdgeWeight[e] * (Cardinality(Connected(e)) - 1)])
MetricOfInput == phase = "refining" => Km1 = ProjectedKm1

\* _max_hn_weights bounds the weight of every hypernode of the level that
\* local search works on (it is the slack it adds to the block weights).
MaxWeightBounds ==
  ~ timeUp => \A v \in hg.nodes : hg.weight[v] <= Last(maxWeights).weight

\* When the history is used up, everything has been given back: all nets
\* restored with the weight they had in the input.
NetsHandedBack ==
  history = << >> /\ ~ timeUp =>
    /\ log = << >> /\ removedSingle = << >> /\ removedParallel = << >>
    /\ edgeWeight = InitEdgeWeight

\* What coarsening has recorded fits what uncoarsening does with it.
RecordsExact == TypeOK /\ RestoresInReverse /\ MaxWeightBounds /\ NetsHandedBack

\* The time limit projects the partition of the level to the input, and the
\* block weights, which it leaves alone, are those of the projected partition.
TimeLimitProjects ==
  [][timeUp' /\ ~ timeUp =>
       /\ \A v \in Hypernode : part'[v] = H!Projected(v)
       /\ \A b \in Block : block'[b].weight =
            H!WeightOf([weight |-> InitWeight], {v \in Hypernode : part'[v] = b})]_vars

\* Uncoarsening reaches the input hypergraph.
UncoarseningEnds == phase = "refining" ~> history = << >>

\* Whatever the rater may propose satisfies the assertion in contract.
RatedIsContractible ==
  phase = "coarsening" /\ Pruned => \A u, v \in Hypernode : Rated(u, v) => Contractible(v)
=============================================================================
