----------------------------- MODULE Hypergraph -----------------------------
(***************************************************************************)
(* GenericHypergraph (kahypar/datastructure/hypergraph.h): the incidence   *)
(* structure of module Incidence together with everything the class keeps  *)
(* about the partition, incrementally and redundantly: the block of every  *)
(* hypernode, the pin counts, connectivity and connectivity set of every   *)
(* net, the number of cut nets at every hypernode, and weight, size and    *)
(* fixed weight of every block.                                            *)
(*                                                                         *)
(* The class is driven by the multilevel scheme (partition/multilevel.h,   *)
(* partition/direct_kway.h), and `phase` is where that scheme stands:      *)
(*   coarsening  contractions and removals; of an unpartitioned hypergraph *)
(*               the first time, of a partitioned one in a V-cycle;        *)
(*   initial     the coarsest hypergraph is being partitioned;             *)
(*   refining    contractions and removals are undone in reverse order,    *)
(*               hypernodes move between blocks.                           *)
(***************************************************************************)
EXTENDS Integers, FiniteSets, SequencesExt

CONSTANTS Hypernode, Hyperedge, InitPins, InitNumPins, InitWeight,
          Block,        \* 0 .. _k - 1
          NoBlock,      \* kInvalidPartition
          NoCount,      \* kInvalidCount
          FixedPart,    \* the block each fixed vertex is fixed to, else NoBlock
          MaxVCycles    \* global_search_iterations

ASSUME IncidenceAssumption == /\ IsFiniteSet(Hypernode)
                              /\ IsFiniteSet(Hyperedge)
                              /\ InitPins \in [Hyperedge -> SUBSET Hypernode]
                              /\ InitNumPins \in Nat
                              /\ InitWeight \in [Hypernode -> Nat]
ASSUME BlockAssumption == IsFiniteSet(Block) /\ Block # {} /\ NoBlock \notin Block
ASSUME NoCountAssumption == NoCount \notin Int
ASSUME FixedPartAssumption == FixedPart \in [Hypernode -> Block \cup {NoBlock}]
ASSUME MaxVCyclesAssumption == MaxVCycles \in Nat

VARIABLES hg,            \* the incidence structure, see Incidence
          log,           \* what is not yet undone, see Incidence
          phase,         \* see above
          vcycle,        \* V-cycles started so far
          part,          \* part_id of each hypernode
          netPart,       \* of each net: pins per block, connectivity, blocks
          cutNets,       \* num_incident_cut_hes of each hypernode
          block,         \* PartInfo of each block: weight, size, fixedWeight
          fixedVertices  \* _fixed_vertices, a SparseSet

vars == <<hg, log, phase, vcycle, part, netPart, cutNets, block, fixedVertices>>

I == INSTANCE Incidence

NetPart == [count        : [Block -> Int \cup {NoCount}],
            connectivity : Int,
            blocks       : SUBSET Block]

PartInfo == [weight : Int, size : Int, fixedWeight : Int]

IsFixed(v) == FixedPart[v] # NoBlock
Assigned(v) == part[v] # NoBlock
AllAssigned == \A v \in hg.nodes : Assigned(v)
NoneAssigned == \A v \in hg.nodes : ~ Assigned(v)

WeightOf(s, N) == MapThenSumSet(LAMBDA v : s.weight[v], N)

\* fixed_vertex_weight of block b, added up from scratch.
FixedWeight(b) == WeightOf(hg, {v \in fixedVertices : FixedPart[v] = b})
-----------------------------------------------------------------------------
\* decrementPinCountInPart and incrementPinCountInPart on the record of a net.
\* Each also maintains connectivity and connectivity set.  (The variant
\* forgets the connectivity set.)
DecrementedKeepingBlock(c, b) ==
  LET n == c.count[b] - 1
  IN [count        |-> [c.count EXCEPT ![b] = n],
      connectivity |-> IF n = 0 THEN c.connectivity - 1 ELSE c.connectivity,
      blocks       |-> c.blocks]

Decremented(c, b) ==
  LET n == c.count[b] - 1
  IN [count        |-> [c.count EXCEPT ![b] = n],
      connectivity |-> IF n = 0 THEN c.connectivity - 1 ELSE c.connectivity,
      blocks       |-> IF n = 0 THEN c.blocks \ {b} ELSE c.blocks]

Incremented(c, b) ==
  LET n == c.count[b] + 1
  IN [count        |-> [c.count EXCEPT ![b] = n],
      connectivity |-> IF n = 1 THEN c.connectivity + 1 ELSE c.connectivity,
      blocks       |-> IF n = 1 THEN c.blocks \cup {b} ELSE c.blocks]

NoPins == [count |-> [b \in Block |-> 0], connectivity |-> 0, blocks |-> {}]

\* invalidatePartitionPinCounts: connectivity and blocks are cleared here,
\* not in resetPartitionPinCounts when the net is restored.
Invalidated == [NoPins EXCEPT !.count = [b \in Block |-> NoCount]]

\* resetPartitionPinCounts, then one increment per assigned pin of net e.
Recounted(e) ==
  LET reset == [netPart[e] EXCEPT !.count = [b \in Block |-> 0]]
  IN FoldSet(LAMBDA v, c : Incremented(c, part[v]), reset, {v \in hg.pins[e] : Assigned(v)})

\* What contract(u, v) does to the pin counts of a hypergraph that is already
\* partitioned.  (The variant forgets that v is cut off.)
UncutCounts(u, v) == netPart
ContractedCounts(u, v) ==
  [e \in Hyperedge |-> IF e \in I!SharedNets(hg, u, v) /\ Assigned(v)
                       THEN Decremented(netPart[e], part[v]) ELSE netPart[e]]

\* restoreMemento: v inherits the block of u; the block gains a hypernode, and
\* the fixed weight that a free v had added to a fixed u is taken off again.
\* (The variant leaves v without its block.)
NotInherited(u, v) == part
InheritedPart(u, v) == [part EXCEPT ![v] = part[u]]

RestoredPartInfo(u, v) ==
  [b \in Block |->
     [block[b] EXCEPT
        !.size = IF b = part[u] THEN @ + 1 ELSE @,
        !.fixedWeight = IF b = FixedPart[u] /\ ~ IsFixed(v) THEN @ - hg.weight[v] ELSE @]]

\* updatePartInfo(v, from, to).
UpdatedPartInfo(v, from, to) ==
  [block EXCEPT ![from].weight = @ - hg.weight[v], ![from].size = @ - 1,
                ![to].weight = @ + hg.weight[v], ![to].size = @ + 1]
-----------------------------------------------------------------------------
\* The constructor, and setFixedVertex for every fixed vertex.
Init ==
  /\ I!Init
  /\ phase = "coarsening"
  /\ vcycle = 0
  /\ part = [v \in Hypernode |-> NoBlock]
  /\ netPart = [e \in Hyperedge |-> NoPins]
  /\ cutNets = [v \in Hypernode |-> 0]
  /\ fixedVertices = {v \in Hypernode : IsFixed(v)}
  /\ block = [b \in Block |-> [weight |-> 0, size |-> 0, fixedWeight |-> FixedWeight(b)]]

\* contract(u, v).  A free v contracted into a fixed u becomes fixed weight;
\* a fixed v leaves the set of fixed vertices.  The size of the block is left
\* as it is, although the block loses a hypernode if it is partitioned.
Contract(u, v) ==
  /\ phase = "coarsening"
  /\ NoneAssigned \/ vcycle > 0
  /\ part[u] = part[v]
  /\ IsFixed(v) => FixedPart[u] = FixedPart[v]
  /\ I!Contract(u, v)
  /\ netPart' = ContractedCounts(u, v)
  /\ block' = IF IsFixed(u) /\ ~ IsFixed(v)
              THEN [block EXCEPT ![FixedPart[u]].fixedWeight = @ + hg.weight[v]] ELSE block
  /\ fixedVertices' = IF IsFixed(u) THEN fixedVertices \ {v} ELSE fixedVertices
  /\ UNCHANGED <<phase, vcycle, part, cutNets>>

\* removeEdge(e), as the pruner calls it: for a net with a single pin, or one
\* with the same pins as another net.
Parallel(e, rep) == rep \in hg.edges /\ rep # e /\ hg.pins[rep] = hg.pins[e]

RemoveEdge(e) ==
  /\ phase = "coarsening"
  /\ Cardinality(hg.pins[e]) = 1 \/ \E rep \in Hyperedge : Parallel(e, rep)
  /\ I!RemoveEdge(e)
  /\ netPart' = [netPart EXCEPT ![e] = Invalidated]
  /\ UNCHANGED <<phase, vcycle, part, cutNets, block, fixedVertices>>

\* setNodePart(v, b): the block of v after initial partitioning.
SetNodePart(v, b) ==
  /\ phase = "initial" \/ (phase = "coarsening" /\ vcycle = 0)
  /\ v \in hg.nodes
  /\ ~ Assigned(v)
  /\ IsFixed(v) => FixedPart[v] = b
  /\ phase' = "initial"
  /\ part' = [part EXCEPT ![v] = b]
  /\ block' = [block EXCEPT ![b].weight = @ + hg.weight[v], ![b].size = @ + 1]
  /\ netPart' = [e \in Hyperedge |-> IF e \in hg.nets[v] THEN Incremented(netPart[e], b) ELSE netPart[e]]
  /\ UNCHANGED <<hg, log, vcycle, cutNets, fixedVertices>>

\* resetPartitioning(), also for what is disabled: between two runs of initial
\* partitioning, and (through reset()) when an evolutionary combination
\* partitions anew what it coarsened along its parents.
ResetPartitioning ==
  /\ phase \in {"coarsening", "initial"} \/ log = << >>
  /\ phase' = "initial"
  /\ part' = [v \in Hypernode |-> NoBlock]
  /\ cutNets' = [v \in Hypernode |-> 0]
  /\ netPart' = [e \in Hyperedge |-> NoPins]
  /\ block' = [b \in Block |-> [weight |-> 0, size |-> 0, fixedWeight |-> FixedWeight(b)]]
  /\ UNCHANGED <<hg, log, vcycle, fixedVertices>>

\* initializeNumCutHyperedges(), also zeroing what is disabled: required
\* before the first undo step.
CutNetsOf(v) == Cardinality({e \in hg.edges : v \in hg.pins[e] /\ netPart[e].connectivity > 1})
InitialCutNets == [v \in Hypernode |-> IF v \in hg.nodes THEN CutNetsOf(v) ELSE 0]

InitializeNumCutHyperedges ==
  /\ phase \in {"coarsening", "initial"}
  /\ AllAssigned
  /\ phase' = "refining"
  /\ cutNets' = InitialCutNets
  /\ UNCHANGED <<hg, log, vcycle, part, netPart, block, fixedVertices>>

\* uncontract(memento), restoreMemento and restoreRepresentative included.
Uncontract ==
  LET u == Last(log).u
      v == Last(log).v
      cutOff == I!CutOffNets(hg, u, v)
      reused == I!ReusedNets(hg, u, v)
      counted == [e \in Hyperedge |-> IF e \in cutOff THEN Incremented(netPart[e], part[u]) ELSE netPart[e]]
      cut(E) == Cardinality({e \in E : counted[e].connectivity > 1})
  IN /\ phase = "refining"
     /\ I!Uncontract
     /\ part' = InheritedPart(u, v)
     /\ netPart' = counted
     /\ cutNets' = [cutNets EXCEPT ![u] = @ - cut(reused), ![v] = @ + cut(cutOff) + cut(reused)]
     /\ block' = RestoredPartInfo(u, v)
     /\ fixedVertices' = IF IsFixed(u) /\ IsFixed(v) THEN fixedVertices \cup {v} ELSE fixedVertices
     /\ UNCHANGED <<phase, vcycle>>

\* restoreEdge(e) for a net with a single pin.
RestoreEdge ==
  /\ phase = "refining"
  /\ I!RestoreEdge
  /\ LET e == Last(log).e
     IN /\ Cardinality(hg.pins[e]) = 1
        /\ netPart' = [netPart EXCEPT ![e] = Recounted(e)]
  /\ UNCHANGED <<phase, vcycle, part, cutNets, block, fixedVertices>>

\* restoreEdge(e, old_representative) for a net with the pins of another net.
\* Whether e is cut is read off the representative.
RestoreParallelEdge(rep) ==
  /\ phase = "refining"
  /\ I!RestoreEdge
  /\ LET e == Last(log).e
     IN /\ Cardinality(hg.pins[e]) # 1
        /\ Parallel(e, rep)
        /\ netPart' = [netPart EXCEPT ![e] = Recounted(e)]
        /\ cutNets' = [v \in Hypernode |-> IF v \in hg.pins[e] /\ netPart[rep].connectivity > 1
                                           THEN cutNets[v] + 1 ELSE cutNets[v]]
  /\ UNCHANGED <<phase, vcycle, part, block, fixedVertices>>

\* changeNodePart(v, from, to): which nets became internal or cut is inferred
\* from the pin counts of the two blocks alone.
Moved(e, from, to) == Incremented(Decremented(netPart[e], from), to)

BecameInternal(e, from, to) ==
  LET c == Moved(e, from, to)
  IN c.count[from] = 0 /\ c.count[to] # 1 /\ c.count[to] = Cardinality(hg.pins[e])

BecameCut(e, from, to) ==
  LET c == Moved(e, from, to)
  IN c.count[from] # 0 /\ c.count[to] = 1 /\ c.count[from] = Cardinality(hg.pins[e]) - 1

ChangeNodePart(v, to) ==
  LET from == part[v]
  IN /\ phase = "refining"
     /\ v \in hg.nodes
     /\ to # from
     /\ ~ IsFixed(v)
     /\ part' = [part EXCEPT ![v] = to]
     /\ block' = UpdatedPartInfo(v, from, to)
     /\ netPart' = [e \in Hyperedge |-> IF e \in hg.nets[v] THEN Moved(e, from, to) ELSE netPart[e]]
     /\ cutNets' = [p \in Hypernode |->
                      cutNets[p]
                      + Cardinality({e \in hg.nets[v] : p \in hg.pins[e] /\ BecameCut(e, from, to)})
                      - Cardinality({e \in hg.nets[v] : p \in hg.pins[e] /\ BecameInternal(e, from, to)})]
     /\ UNCHANGED <<hg, log, phase, vcycle, fixedVertices>>

\* direct_kway::partition begins the next V-cycle: the partitioned hypergraph
\* is coarsened again.
StartVCycle ==
  /\ phase \in {"initial", "refining"}
  /\ log = << >>
  /\ AllAssigned
  /\ vcycle < MaxVCycles
  /\ phase' = "coarsening"
  /\ vcycle' = vcycle + 1
  /\ UNCHANGED <<hg, log, part, netPart, cutNets, block, fixedVertices>>

Next == \/ \E u, v \in Hypernode : Contract(u, v)
        \/ \E e \in Hyperedge : RemoveEdge(e)
        \/ \E v \in Hypernode, b \in Block : SetNodePart(v, b)
        \/ ResetPartitioning
        \/ InitializeNumCutHyperedges
        \/ Uncontract
        \/ RestoreEdge
        \/ \E rep \in Hyperedge : RestoreParallelEdge(rep)
        \/ \E v \in Hypernode, b \in Block : ChangeNodePart(v, b)
        \/ StartVCycle

Spec == Init /\ [][Next]_vars
-----------------------------------------------------------------------------
TypeOK ==
  /\ I!TypeOK
  /\ phase \in {"coarsening", "initial", "refining"}
  /\ vcycle \in 0 .. MaxVCycles
  /\ part \in [Hypernode -> Block \cup {NoBlock}]
  /\ netPart \in [Hyperedge -> NetPart]
  /\ cutNets \in [Hypernode -> Int]
  /\ block \in [Block -> PartInfo]
  /\ fixedVertices \in SUBSET Hypernode

\* The pin counts of every enabled net are those of its pins, and
\* connectivity and connectivity set are what the counts say, through
\* contractions, removals, moves and restorations.
PinCountsExact ==
  \A e \in hg.edges :
    /\ \A b \in Block : netPart[e].count[b] = Cardinality({v \in hg.pins[e] : part[v] = b})
    /\ netPart[e].blocks = {part[v] : v \in hg.pins[e]} \ {NoBlock}
    /\ netPart[e].connectivity = Cardinality(netPart[e].blocks)

\* The assertions at the end of uncontract and in isBorderNode: while
\* refining, num_incident_cut_hes counts the incident nets that are cut.
CutNetsExact ==
  phase = "refining" =>
    \A v \in hg.nodes : cutNets[v] = Cardinality({e \in hg.nets[v] : netPart[e].connectivity > 1})

\* PartInfo stores "the number of hypernodes currently assigned to block".
SizesExact == \A b \in Block : block[b].size = Cardinality({v \in hg.nodes : part[v] = b})
BlockSizesExact == phase = "refining" => SizesExact

\* The weight of a block is that of its hypernodes at every level, its size
\* their number as long as no partitioned hypergraph has been contracted; the
\* set of fixed vertices and the fixed weights follow the enabled fixed
\* vertices.
PartInfoExact ==
  /\ \A b \in Block : /\ block[b].weight = WeightOf(hg, {v \in hg.nodes : part[v] = b})
                      /\ block[b].fixedWeight = FixedWeight(b)
  /\ vcycle = 0 => SizesExact
  /\ fixedVertices = {v \in hg.nodes : IsFixed(v)}

\* All that is kept about the partition, at every level.
PartitionDataExact == TypeOK /\ PinCountsExact /\ CutNetsExact /\ PartInfoExact

\* The projected partition: each hypernode of the input is in the block of
\* the hypernode that represents it on the current level.
Up(l, x) == IF l.op = "contract" /\ l.v = x THEN l.u ELSE x

Represented(ops, v) ==
  LET after[i \in 0 .. Len(ops)] == IF i = 0 THEN v ELSE Up(ops[i], after[i - 1])
  IN after

Representative(v) == Represented(log, v)[Len(log)]

Projected(v) == part[Representative(v)]

\* Undoing a level, whatever it restores, leaves the projected partition of
\* the input unchanged: only moves change it.
UndoKeepsPartition ==
  [][Len(log') < Len(log) => \A v \in Hypernode : Projected(v)' = Projected(v)]_vars

\* Every net of the level connects the blocks that it connects in the input
\* under the projected partition: the cut and the connectivity of a coarse
\* net are those of the input net.
ObjectiveProjected ==
  phase = "refining" =>
    \A e \in hg.edges : netPart[e].blocks = {Projected(v) : v \in InitPins[e]}
=============================================================================
