-------------------------- MODULE HypergraphProofs --------------------------
(***************************************************************************)
(* Proofs about Hypergraph: for every hypergraph, every number of blocks,  *)
(* every choice of fixed vertices and every number of V-cycles, the        *)
(* incidences are those of module Incidence, and what the class keeps      *)
(* about the partition is exact at every level.                            *)
(***************************************************************************)
EXTENDS Hypergraph, SetSums, SequenceTheorems

\* The proofs about Incidence, for the incidence structure of this module.
P == INSTANCE IncidenceProofs

\* The operators of the library modules that an instance brings its own
\* copies of.
LEMMA SameLibrary ==
  /\ \A S : P!IsFiniteSet(S) <=> IsFiniteSet(S)
  /\ \A S : I!IsFiniteSet(S) <=> IsFiniteSet(S)
  /\ \A S : P!Cardinality(S) = Cardinality(S)
  /\ \A S : I!Cardinality(S) = Cardinality(S)
  /\ \A s : P!Last(s) = Last(s) /\ P!Front(s) = Front(s)
  /\ \A s : I!Last(s) = Last(s) /\ I!Front(s) = Front(s)
<1>1. \A S : (P!IsFiniteSet(S) <=> IsFiniteSet(S)) /\ (I!IsFiniteSet(S) <=> IsFiniteSet(S))
  BY DEF P!IsFiniteSet, I!IsFiniteSet, IsFiniteSet
<1>2. \A S : P!Cardinality(S) = Cardinality(S)
  BY <1>1 DEF P!Cardinality, Cardinality
<1>3. \A S : I!Cardinality(S) = Cardinality(S)
  BY <1>1 DEF I!Cardinality, Cardinality
<1>4. \A s : P!Last(s) = Last(s) /\ P!Front(s) = Front(s)
  BY DEF P!Last, P!Front, Last, Front
<1>5. \A s : I!Last(s) = Last(s) /\ I!Front(s) = Front(s)
  BY DEF I!Last, I!Front, Last, Front
<1> QED BY <1>1, <1>2, <1>3, <1>4, <1>5

\* The constants satisfy the assumptions of Incidence.
LEMMA IncidenceConstants ==
  /\ P!IsFiniteSet(Hypernode) /\ P!IsFiniteSet(Hyperedge)
  /\ InitPins \in [Hyperedge -> SUBSET Hypernode]
  /\ InitNumPins \in Nat
  /\ InitWeight \in [Hypernode -> Nat]
BY IncidenceAssumption, SameLibrary

\* The operations on structures are the same in both instances of Incidence.
LEMMA SameOperations ==
  /\ \A s, u, v : I!SharedNets(s, u, v) = P!SharedNets(s, u, v)
  /\ \A s, u, v : I!Contracted(s, u, v) = P!Contracted(s, u, v)
  /\ \A s, u, v : I!CutOffNets(s, u, v) = P!CutOffNets(s, u, v)
  /\ \A s, u, v : I!ReusedNets(s, u, v) = P!ReusedNets(s, u, v)
  /\ \A s, u, v : I!Uncontracted(s, u, v) = P!Uncontracted(s, u, v)
  /\ \A s, e : I!Removed(s, e) = P!Removed(s, e)
  /\ \A s, e : I!Restored(s, e) = P!Restored(s, e)
  /\ I!Original = P!Original
<1>1. \A s, u, v : I!SharedNets(s, u, v) = P!SharedNets(s, u, v)
  BY DEF I!SharedNets, P!SharedNets
<1>2. \A s, u, v : I!Contracted(s, u, v) = P!Contracted(s, u, v)
  <2> SUFFICES ASSUME NEW s, NEW u, NEW v PROVE I!Contracted(s, u, v) = P!Contracted(s, u, v)
    OBVIOUS
  <2>1. I!SharedNets(s, u, v) = P!SharedNets(s, u, v)
    BY <1>1
  <2>2. I!Cardinality(P!SharedNets(s, u, v)) = P!Cardinality(P!SharedNets(s, u, v))
    BY SameLibrary
  <2> QED BY <2>1, <2>2, Zenon DEF I!Contracted, P!Contracted
<1>3. \A s, u, v : I!CutOffNets(s, u, v) = P!CutOffNets(s, u, v)
  BY SameLibrary DEF I!CutOffNets, P!CutOffNets
<1>4. \A s, u, v : I!ReusedNets(s, u, v) = P!ReusedNets(s, u, v)
  BY <1>3 DEF I!ReusedNets, P!ReusedNets
<1>5. \A s, u, v : I!Uncontracted(s, u, v) = P!Uncontracted(s, u, v)
  <2> SUFFICES ASSUME NEW s, NEW u, NEW v PROVE I!Uncontracted(s, u, v) = P!Uncontracted(s, u, v)
    OBVIOUS
  <2> QED BY <1>3, <1>4, SameLibrary, Zenon DEF I!Uncontracted, P!Uncontracted
<1>6. \A s, e : I!Removed(s, e) = P!Removed(s, e)
  BY SameLibrary DEF I!Removed, P!Removed
<1>7. \A s, e : I!Restored(s, e) = P!Restored(s, e)
  BY SameLibrary DEF I!Restored, P!Restored
<1>8. I!Original = P!Original
  BY DEF I!Original, P!Original
<1> QED BY <1>1, <1>2, <1>3, <1>4, <1>5, <1>6, <1>7, <1>8

\* So are the actions.
LEMMA SameActions ==
  /\ I!Init <=> P!Init
  /\ I!Next <=> P!Next
  /\ I!vars = P!vars
  /\ I!TypeOK <=> P!TypeOK
<1>1. ASSUME NEW u, NEW v PROVE I!Contract(u, v) <=> P!Contract(u, v)
  BY SameOperations DEF I!Contract, P!Contract
<1>2. ASSUME NEW e PROVE I!RemoveEdge(e) <=> P!RemoveEdge(e)
  BY SameOperations DEF I!RemoveEdge, P!RemoveEdge
<1>3. I!Uncontract <=> P!Uncontract
  BY SameOperations, SameLibrary DEF I!Uncontract, P!Uncontract, I!Undoes, P!Undoes
<1>4. I!RestoreEdge <=> P!RestoreEdge
  BY SameOperations, SameLibrary DEF I!RestoreEdge, P!RestoreEdge, I!Undoes, P!Undoes
<1>5. I!Init <=> P!Init
  BY SameOperations DEF I!Init, P!Init
<1>6. I!Next <=> P!Next
  BY <1>1, <1>2, <1>3, <1>4 DEF I!Next, P!Next
<1>7. I!vars = P!vars
  BY DEF I!vars, P!vars
<1>8. I!TypeOK <=> P!TypeOK
  BY DEF I!TypeOK, P!TypeOK, I!Structure, P!Structure, I!LogEntry, P!LogEntry
<1> QED BY <1>5, <1>6, <1>7, <1>8

\* Every step of the hypergraph is a step of its incidence structure, or
\* leaves the incidences and the log as they are.
LEMMA StepIncidence ==
  ASSUME [Next]_vars
  PROVE  [I!Next]_(I!vars)
<1> USE DEF I!vars, I!Next
<1>1. ASSUME NEW u \in Hypernode, NEW v \in Hypernode, Contract(u, v) PROVE I!Next
  BY <1>1 DEF Contract
<1>2. ASSUME NEW e \in Hyperedge, RemoveEdge(e) PROVE I!Next
  BY <1>2 DEF RemoveEdge
<1>3. ASSUME NEW v \in Hypernode, NEW b \in Block, SetNodePart(v, b) PROVE UNCHANGED I!vars
  BY <1>3 DEF SetNodePart
<1>4. CASE ResetPartitioning
  BY <1>4 DEF ResetPartitioning
<1>5. CASE InitializeNumCutHyperedges
  BY <1>5 DEF InitializeNumCutHyperedges
<1>6. CASE Uncontract
  BY <1>6 DEF Uncontract
<1>7. CASE RestoreEdge
  BY <1>7 DEF RestoreEdge
<1>8. ASSUME NEW rep \in Hyperedge, RestoreParallelEdge(rep) PROVE I!Next
  BY <1>8 DEF RestoreParallelEdge
<1>9. ASSUME NEW v \in Hypernode, NEW b \in Block, ChangeNodePart(v, b) PROVE UNCHANGED I!vars
  BY <1>9 DEF ChangeNodePart
<1>10. CASE StartVCycle
  BY <1>10 DEF StartVCycle
<1>11. CASE UNCHANGED vars
  BY <1>11 DEF vars
<1> QED BY <1>1, <1>2, <1>3, <1>4, <1>5, <1>6, <1>7, <1>8, <1>9, <1>10, <1>11 DEF Next

\* Whatever is kept about a partition, the incidences behave as those of
\* Incidence: the theorems about it hold of the whole class.
THEOREM ImplementsIncidence == Spec => I!Spec
<1>1. Init => I!Init
  BY DEF Init
<1>2. [Next]_vars => [I!Next]_(I!vars)
  BY StepIncidence
<1> QED BY <1>1, <1>2, PTL DEF Spec, I!Spec

\* In particular, the log leads from the input to the current level.
\* Nothing is logged of the input.
LEMMA ChainBegins ==
  ASSUME Init
  PROVE  P!UndoChain
BY IncidenceConstants, SameActions, P!ChainBegins DEF Init

\* Every step keeps it so.
LEMMA ChainKept ==
  ASSUME P!UndoChain, [Next]_vars
  PROVE  P!UndoChain'
<1>1. [P!Next]_(P!vars)
  BY StepIncidence, SameActions DEF I!vars, P!vars
<1> QED BY <1>1, IncidenceConstants, P!ChainKept

\* So it is at every level.
LEMMA Chained == Spec => []P!UndoChain
<1>1. Init => P!UndoChain
  BY ChainBegins
<1>2. P!UndoChain /\ [Next]_vars => P!UndoChain'
  BY ChainKept
<1> QED BY <1>1, <1>2, PTL DEF Spec
-----------------------------------------------------------------------------
\* The pins among S that f puts in block b.
In(S, f, b) == {x \in S : f[x] = b}

\* What PinCountsExact says of one net: c is right for a net with pins S under
\* partition f.
Exact(c, S, f) ==
  /\ \A b \in Block : c.count[b] = Cardinality(In(S, f, b))
  /\ c.blocks = {b \in Block : In(S, f, b) # {}}
  /\ c.connectivity = Cardinality(c.blocks)

Partition == [Hypernode -> Block \cup {NoBlock}]

\* What the invariant PartitionDataExact says of the nets, in the terms of
\* Exact.
LEMMA ExactMeans ==
  ASSUME NEW s, NEW f \in Partition, s.edges \in SUBSET Hyperedge, s.pins \in [Hyperedge -> SUBSET Hypernode],
         NEW np
  PROVE  (\A e \in s.edges : Exact(np[e], s.pins[e], f)) <=>
         (\A e \in s.edges :
            /\ \A b \in Block : np[e].count[b] = Cardinality(In(s.pins[e], f, b))
            /\ np[e].blocks = {f[v] : v \in s.pins[e]} \ {NoBlock}
            /\ np[e].connectivity = Cardinality(np[e].blocks))
<1>1. ASSUME NEW e \in s.edges
      PROVE  {b \in Block : In(s.pins[e], f, b) # {}} = {f[v] : v \in s.pins[e]} \ {NoBlock}
  <2>1. s.pins[e] \in SUBSET Hypernode /\ e \in Hyperedge
    OBVIOUS
  <2>2. \A x \in s.pins[e] : f[x] \in Block \cup {NoBlock}
    BY <2>1 DEF Partition
  <2> QED BY <2>2, BlockAssumption DEF In
<1> QED BY <1>1 DEF Exact

\* The pins of a net in one block, and the blocks of a net, are finitely many.
LEMMA FinitePins ==
  ASSUME NEW S \in SUBSET Hypernode, NEW f, NEW b
  PROVE  /\ IsFiniteSet(S) /\ Cardinality(S) \in Nat
         /\ IsFiniteSet(In(S, f, b)) /\ Cardinality(In(S, f, b)) \in Nat
<1>1. IsFiniteSet(Hypernode)
  BY IncidenceAssumption
<1>2. In(S, f, b) \in SUBSET Hypernode
  BY DEF In
<1> QED BY <1>1, <1>2, FS_Subset, FS_CardinalityType

\* Sets of blocks can be counted.
LEMMA FiniteBlocks ==
  ASSUME NEW B \in SUBSET Block
  PROVE  IsFiniteSet(B) /\ Cardinality(B) \in Nat
BY BlockAssumption, FS_Subset, FS_CardinalityType

\* incrementPinCountInPart keeps the data of a net exact when block b gets one
\* pin v more and the pins in the other blocks stay.
LEMMA IncrementedExact ==
  ASSUME NEW c \in NetPart, NEW S \in SUBSET Hypernode, NEW f, NEW T \in SUBSET Hypernode, NEW h,
         NEW b \in Block, NEW v, Exact(c, S, f),
         v \notin In(S, f, b),
         In(T, h, b) = In(S, f, b) \cup {v},
         \A d \in Block \ {b} : In(T, h, d) = In(S, f, d)
  PROVE  Exact(Incremented(c, b), T, h) /\ Incremented(c, b) \in NetPart
<1> DEFINE n == c.count[b] + 1
           r == Incremented(c, b)
<1>1. /\ r.count = [c.count EXCEPT ![b] = n]
      /\ r.connectivity = IF n = 1 THEN c.connectivity + 1 ELSE c.connectivity
      /\ r.blocks = IF n = 1 THEN c.blocks \cup {b} ELSE c.blocks
      /\ r = [count |-> r.count, connectivity |-> r.connectivity, blocks |-> r.blocks]
  BY DEF Incremented
<1>2. /\ c.count \in [Block -> Int \cup {NoCount}] /\ c.connectivity \in Int /\ c.blocks \in SUBSET Block
  BY DEF NetPart
<1>3. /\ IsFiniteSet(In(S, f, b))
      /\ c.count[b] = Cardinality(In(S, f, b)) /\ c.count[b] \in Nat
  BY FinitePins DEF Exact
<1> HIDE DEF r
<1>4. r.count[b] = Cardinality(In(T, h, b))
  <2>1. Cardinality(In(S, f, b) \cup {v}) = Cardinality(In(S, f, b)) + 1
    BY <1>3, FS_AddElement
  <2> QED BY <1>1, <1>2, <1>3, <2>1
<1>5. \A d \in Block : r.count[d] = Cardinality(In(T, h, d))
  BY <1>1, <1>2, <1>4 DEF Exact
<1>6. b \in c.blocks <=> n # 1
  BY <1>3, FS_EmptySet DEF Exact
<1>7. r.blocks = {d \in Block : In(T, h, d) # {}}
  <2>1. ASSUME NEW d \in Block \ {b} PROVE d \in r.blocks <=> In(T, h, d) # {}
    <3>1. In(T, h, d) = In(S, f, d)
      OBVIOUS
    <3> QED BY <1>1, <3>1 DEF Exact
  <2>2. b \in r.blocks /\ In(T, h, b) # {}
    BY <1>1, <1>6
  <2>3. r.blocks \in SUBSET Block
    BY <1>1, <1>2
  <2> QED BY <2>1, <2>2, <2>3
<1>8. r.connectivity = Cardinality(r.blocks)
  <2>1. c.connectivity = Cardinality(c.blocks) /\ IsFiniteSet(c.blocks)
    BY <1>2, FiniteBlocks DEF Exact
  <2>2. n = 1 => Cardinality(c.blocks \cup {b}) = Cardinality(c.blocks) + 1
    BY <1>6, <2>1, FS_AddElement
  <2> QED BY <1>1, <2>1, <2>2
<1>9. r \in NetPart
  <2>1. r.count \in [Block -> Int \cup {NoCount}] /\ r.connectivity \in Int /\ r.blocks \in SUBSET Block
    BY <1>1, <1>2, <1>3
  <2> QED BY <1>1, <2>1 DEF NetPart
<1> QED BY <1>5, <1>7, <1>8, <1>9 DEF Exact, r

\* decrementPinCountInPart, when block b loses its pin v.
LEMMA DecrementedExact ==
  ASSUME NEW c \in NetPart, NEW S \in SUBSET Hypernode, NEW f, NEW T \in SUBSET Hypernode, NEW h,
         NEW b \in Block, NEW v, Exact(c, S, f),
         v \in In(S, f, b),
         In(T, h, b) = In(S, f, b) \ {v},
         \A d \in Block \ {b} : In(T, h, d) = In(S, f, d)
  PROVE  Exact(Decremented(c, b), T, h) /\ Decremented(c, b) \in NetPart
<1> DEFINE n == c.count[b] - 1
           r == Decremented(c, b)
<1>1. /\ r.count = [c.count EXCEPT ![b] = n]
      /\ r.connectivity = IF n = 0 THEN c.connectivity - 1 ELSE c.connectivity
      /\ r.blocks = IF n = 0 THEN c.blocks \ {b} ELSE c.blocks
      /\ r = [count |-> r.count, connectivity |-> r.connectivity, blocks |-> r.blocks]
  BY DEF Decremented
<1>2. /\ c.count \in [Block -> Int \cup {NoCount}] /\ c.connectivity \in Int /\ c.blocks \in SUBSET Block
  BY DEF NetPart
<1>3. /\ IsFiniteSet(In(S, f, b))
      /\ c.count[b] = Cardinality(In(S, f, b)) /\ c.count[b] \in Nat
  BY FinitePins DEF Exact
<1> HIDE DEF r
<1>4. r.count[b] = Cardinality(In(T, h, b)) /\ r.count[b] = n /\ n \in Int
  <2>1. Cardinality(In(S, f, b) \ {v}) = Cardinality(In(S, f, b)) - 1
    BY <1>3, FS_RemoveElement
  <2> QED BY <1>1, <1>2, <1>3, <2>1
<1>5. \A d \in Block : r.count[d] = Cardinality(In(T, h, d))
  BY <1>1, <1>2, <1>4 DEF Exact
<1>6. b \in c.blocks
  BY DEF Exact
<1>7. r.blocks = {d \in Block : In(T, h, d) # {}}
  <2>1. ASSUME NEW d \in Block \ {b} PROVE d \in r.blocks <=> In(T, h, d) # {}
    <3>1. In(T, h, d) = In(S, f, d)
      OBVIOUS
    <3> QED BY <1>1, <3>1 DEF Exact
  <2>2. b \in r.blocks <=> In(T, h, b) # {}
    <3>1. IsFiniteSet(In(T, h, b))
      BY FinitePins
    <3>2. n = 0 <=> In(T, h, b) = {}
      BY <1>4, <3>1, FS_EmptySet
    <3> QED BY <1>1, <1>6, <3>2
  <2>3. r.blocks \in SUBSET Block
    BY <1>1, <1>2
  <2> QED BY <2>1, <2>2, <2>3
<1>8. r.connectivity = Cardinality(r.blocks)
  <2>1. c.connectivity = Cardinality(c.blocks) /\ IsFiniteSet(c.blocks)
    BY <1>2, FiniteBlocks DEF Exact
  <2>2. Cardinality(c.blocks \ {b}) = Cardinality(c.blocks) - 1
    BY <1>6, <2>1, FS_RemoveElement
  <2> QED BY <1>1, <2>1, <2>2
<1>9. r \in NetPart
  <2>1. r.count \in [Block -> Int \cup {NoCount}] /\ r.connectivity \in Int /\ r.blocks \in SUBSET Block
    BY <1>1, <1>2, <1>4
  <2> QED BY <1>1, <2>1 DEF NetPart
<1> QED BY <1>5, <1>7, <1>8, <1>9 DEF Exact, r

\* The data of a net stays exact if a pin v is renamed to u in the same block,
\* or if no pin that is assigned changes.
LEMMA RenamedExact ==
  ASSUME NEW c, NEW S \in SUBSET Hypernode, NEW f, NEW h, NEW v \in S, NEW u \in Hypernode \ S,
         Exact(c, S, f), h[u] = f[v], \A x \in S \ {v} : h[x] = f[x]
  PROVE  Exact(c, (S \ {v}) \cup {u}, h)
<1> DEFINE T == (S \ {v}) \cup {u}
<1>1. ASSUME NEW b \in Block
      PROVE  /\ Cardinality(In(T, h, b)) = Cardinality(In(S, f, b))
             /\ In(T, h, b) # {} <=> In(S, f, b) # {}
  <2>1. CASE f[v] = b
    <3>1. In(T, h, b) = (In(S, f, b) \ {v}) \cup {u} /\ v \in In(S, f, b) /\ u \notin In(S, f, b) \ {v}
      BY <2>1 DEF In
    <3>2. IsFiniteSet(In(S, f, b)) /\ Cardinality(In(S, f, b)) \in Nat
      BY FinitePins
    <3>3. /\ IsFiniteSet(In(S, f, b) \ {v})
          /\ Cardinality(In(S, f, b) \ {v}) = Cardinality(In(S, f, b)) - 1
      BY <3>1, <3>2, FS_RemoveElement
    <3>4. Cardinality((In(S, f, b) \ {v}) \cup {u}) = Cardinality(In(S, f, b) \ {v}) + 1
      BY <3>1, <3>3, FS_AddElement
    <3>5. Cardinality(In(T, h, b)) = Cardinality(In(S, f, b))
      <4>1. Cardinality(In(T, h, b)) = (Cardinality(In(S, f, b)) - 1) + 1
        BY <3>1, <3>3, <3>4
      <4> QED BY <3>2, <4>1
    <3> QED BY <3>1, <3>5
  <2>2. CASE f[v] # b
    <3>1. In(T, h, b) = In(S, f, b)
      BY <2>2 DEF In
    <3> QED BY <3>1
  <2> QED BY <2>1, <2>2
<1>2. {b \in Block : In(T, h, b) # {}} = {b \in Block : In(S, f, b) # {}}
  BY <1>1
<1> QED BY <1>1, <1>2 DEF Exact

\* The data of a net stays exact when no block gains or loses a pin.
LEMMA UnchangedExact ==
  ASSUME NEW c, NEW S, NEW T, NEW f, NEW h, Exact(c, S, f),
         \A b \in Block : In(T, h, b) = In(S, f, b)
  PROVE  Exact(c, T, h)
BY DEF Exact
-----------------------------------------------------------------------------
\* The inductive invariant has, besides what is to be proved and besides the
\* log of Incidence, what the operations rely on without checking it.

\* A removed net connects no blocks: restoring it sets its counts to zero, but
\* neither its connectivity nor its connectivity set.
RemovedNetsCleared ==
  \A e \in Hyperedge \ hg.edges : netPart[e].connectivity = 0 /\ netPart[e].blocks = {}

\* Coarsening is of a hypergraph with no block assigned the first time and with
\* all blocks assigned in a V-cycle; refinement is of a complete partition.
AssignmentComplete ==
  /\ phase = "coarsening" => IF vcycle = 0 THEN NoneAssigned ELSE AllAssigned
  /\ phase = "refining" => AllAssigned

\* Uncontraction adds to the number of cut nets of v: it must find a zero.
ContractedCountNothing ==
  phase = "refining" => \A v \in Hypernode \ hg.nodes : cutNets[v] = 0

\* The fixed vertices that are contracted are so into vertices of their block.
FixedIntoFixed ==
  \A i \in 1 .. Len(log) :
    log[i].op = "contract" /\ IsFixed(log[i].v) => FixedPart[log[i].u] = FixedPart[log[i].v]

\* TypeOK without the part that is Incidence's.
PartitionTypeOK ==
  /\ phase \in {"coarsening", "initial", "refining"}
  /\ vcycle \in 0 .. MaxVCycles
  /\ part \in Partition
  /\ netPart \in [Hyperedge -> NetPart]
  /\ cutNets \in [Hypernode -> Int]
  /\ block \in [Block -> PartInfo]
  /\ fixedVertices \in SUBSET Hypernode

\* PinCountsExact, net by net.
NetsExact == \A e \in hg.edges : Exact(netPart[e], hg.pins[e], part)

\* PartInfoExact, with what it depends on as parameters: structure, partition,
\* the record of each block, the fixed vertices, and the number of V-cycles.
InfoExact(s, f, info, fixed, cycle) ==
  /\ \A b \in Block :
       /\ info[b].weight = WeightOf(s, In(s.nodes, f, b))
       /\ info[b].fixedWeight = WeightOf(s, In(s.nodes, FixedPart, b))
       /\ cycle = 0 => info[b].size = Cardinality(In(s.nodes, f, b))
  /\ fixed = {v \in s.nodes : IsFixed(v)}

Inv ==
  /\ PartitionTypeOK
  /\ NetsExact
  /\ RemovedNetsCleared
  /\ AssignmentComplete
  /\ CutNetsExact
  /\ ContractedCountNothing
  /\ InfoExact(hg, part, block, fixedVertices, vcycle)
  /\ FixedIntoFixed
-----------------------------------------------------------------------------
\* What the proofs use of a well-formed structure.
Sound(s) ==
  /\ s.nodes \in SUBSET Hypernode
  /\ s.edges \in SUBSET Hyperedge
  /\ s.pins \in [Hyperedge -> SUBSET Hypernode]
  /\ s.nets \in [Hypernode -> SUBSET Hyperedge]
  /\ s.weight \in [Hypernode -> Int]
  /\ \A v \in s.nodes, e \in Hyperedge : e \in s.nets[v] <=> e \in s.edges /\ v \in s.pins[e]
  /\ \A e \in s.edges : s.pins[e] \in SUBSET s.nodes

\* t is s with v contracted into u.
Merges(s, u, v, t) ==
  /\ Sound(s) /\ Sound(t)
  /\ u \in s.nodes /\ v \in s.nodes /\ u # v
  /\ t.nodes = s.nodes \ {v}
  /\ t.edges = s.edges
  /\ t.pins = [e \in Hyperedge |-> IF e \in s.nets[v] THEN (s.pins[e] \ {v}) \cup {u} ELSE s.pins[e]]
  /\ t.nets = [s.nets EXCEPT ![u] = @ \cup s.nets[v]]
  /\ t.weight = [s.weight EXCEPT ![u] = @ + s.weight[v]]

\* t is s without net e.
Drops(s, e, t) ==
  /\ Sound(s) /\ Sound(t)
  /\ e \in s.edges
  /\ t.nodes = s.nodes
  /\ t.edges = s.edges \ {e}
  /\ t.pins = s.pins
  /\ t.nets = [v \in Hypernode |-> IF v \in s.pins[e] THEN s.nets[v] \ {e} ELSE s.nets[v]]
  /\ t.weight = s.weight

\* The well-formed structures of Incidence are the sound ones.
LEMMA WellFormedSound == ASSUME NEW s, P!WellFormed(s) PROVE Sound(s)
BY DEF P!WellFormed, P!Dual, P!Structure, Sound

\* Contracting v into u merges v into u: in every net, u stands for both.
LEMMA ContractedMerges ==
  ASSUME NEW s, P!WellFormed(s), NEW u \in s.nodes, NEW v \in s.nodes, u # v
  PROVE  Merges(s, u, v, P!Contracted(s, u, v))
<1>1. P!WellFormed(P!Contracted(s, u, v))
  BY IncidenceConstants, P!ContractedWellFormed
<1>2. Sound(s) /\ Sound(P!Contracted(s, u, v))
  BY <1>1, WellFormedSound
<1> QED BY <1>2 DEF P!Contracted, Merges

\* Removing a net takes it out of the nets of its pins, and nothing else.
LEMMA RemovedDrops ==
  ASSUME NEW s, P!WellFormed(s), NEW e \in s.edges
  PROVE  Drops(s, e, P!Removed(s, e))
<1>1. P!WellFormed(P!Removed(s, e))
  BY IncidenceConstants, P!RemovedWellFormed
<1>2. Sound(s) /\ Sound(P!Removed(s, e))
  BY <1>1, WellFormedSound
<1> QED BY <1>2 DEF P!Removed, Drops

\* The current hypergraph is sound, and the log is a sequence of operations.
LEMMA CurrentSound ==
  ASSUME P!UndoChain
  PROVE  Sound(hg) /\ log \in Seq(P!LogEntry) /\ Len(log) \in Nat
<1>1. P!WellFormed(hg) /\ log \in Seq(P!LogEntry)
  BY DEF P!UndoChain, P!TypeOK
<1> QED BY <1>1, WellFormedSound

\* A contraction merges.
LEMMA ContractMerges ==
  ASSUME P!UndoChain, NEW u \in Hypernode, NEW v \in Hypernode, I!Contract(u, v)
  PROVE  /\ Merges(hg, u, v, hg')
         /\ log' = Append(log, [op |-> "contract", u |-> u, v |-> v, before |-> hg])
         /\ I!SharedNets(hg, u, v) = hg.nets[u] \cap hg.nets[v]
<1>1. P!WellFormed(hg) /\ u \in hg.nodes /\ v \in hg.nodes /\ u # v
  BY DEF P!UndoChain, I!Contract
<1>2. hg' = P!Contracted(hg, u, v)
  BY SameOperations DEF I!Contract
<1>3. I!SharedNets(hg, u, v) = hg.nets[u] \cap hg.nets[v]
  BY <1>1, IncidenceConstants, P!InferredNets, SameOperations
<1> QED BY <1>1, <1>2, <1>3, ContractedMerges DEF I!Contract

\* An uncontraction is a contraction read backwards, and infers its nets.
LEMMA UncontractMerges ==
  ASSUME P!UndoChain, I!Uncontract
  PROVE  LET u == Last(log).u
             v == Last(log).v
         IN  /\ Merges(hg', u, v, hg)
             /\ I!CutOffNets(hg, u, v) = hg'.nets[u] \cap hg'.nets[v]
             /\ I!ReusedNets(hg, u, v) = hg'.nets[v] \ hg'.nets[u]
             /\ log # << >> /\ log' = Front(log)
             /\ Last(log).op = "contract" /\ hg' = Last(log).before
<1> DEFINE l == log[Len(log)]
<1>1. P!Uncontract
  BY SameOperations, SameLibrary DEF I!Uncontract, P!Uncontract, I!Undoes, P!Undoes
<1>2. log # << >> /\ log' = Front(log) /\ hg' = Last(log).before
  BY <1>1, IncidenceConstants, P!UndoRestores, SameLibrary
<1>3. log \in Seq(P!LogEntry) /\ Len(log) \in Nat /\ Len(log) # 0 /\ Last(log) = l
  BY <1>2, CurrentSound, EmptySeq DEF Last
<1>4. l.op = "contract"
  BY <1>3, SameLibrary DEF I!Uncontract, I!Undoes
<1>5. P!LeadsTo(l, hg)
  BY <1>3 DEF P!UndoChain, P!After
<1>6. /\ P!WellFormed(l.before)
      /\ l.u \in l.before.nodes /\ l.v \in l.before.nodes /\ l.u # l.v
      /\ hg = P!Contracted(l.before, l.u, l.v)
  BY <1>4, <1>5 DEF P!LeadsTo
<1> HIDE DEF l
<1>7. Merges(l.before, l.u, l.v, hg)
  BY <1>6, ContractedMerges
<1>8. /\ P!CutOffNets(hg, l.u, l.v) = l.before.nets[l.u] \cap l.before.nets[l.v]
      /\ P!ReusedNets(hg, l.u, l.v) = l.before.nets[l.v] \ l.before.nets[l.u]
  BY <1>6, IncidenceConstants, P!InferredNets
<1> QED BY <1>2, <1>3, <1>4, <1>7, <1>8, SameOperations

\* The action that removes a net does so, and logs it.
LEMMA RemoveDrops ==
  ASSUME P!UndoChain, NEW e \in Hyperedge, I!RemoveEdge(e)
  PROVE  /\ Drops(hg, e, hg')
         /\ log' = Append(log, [op |-> "remove", e |-> e, before |-> hg])
<1>1. P!WellFormed(hg) /\ e \in hg.edges
  BY DEF P!UndoChain, I!RemoveEdge
<1>2. hg' = P!Removed(hg, e)
  BY SameOperations DEF I!RemoveEdge
<1> QED BY <1>1, <1>2, RemovedDrops DEF I!RemoveEdge

\* Restoring a net is undoing such a removal, the last logged step.
LEMMA RestoreDrops ==
  ASSUME P!UndoChain, I!RestoreEdge
  PROVE  /\ Drops(hg', Last(log).e, hg)
         /\ log # << >> /\ log' = Front(log)
         /\ Last(log).op = "remove" /\ hg' = Last(log).before
<1> DEFINE l == log[Len(log)]
<1>1. P!RestoreEdge
  BY SameOperations, SameLibrary DEF I!RestoreEdge, P!RestoreEdge, I!Undoes, P!Undoes
<1>2. log # << >> /\ log' = Front(log) /\ hg' = Last(log).before
  BY <1>1, IncidenceConstants, P!UndoRestores, SameLibrary
<1>3. log \in Seq(P!LogEntry) /\ Len(log) \in Nat /\ Len(log) # 0 /\ Last(log) = l
  BY <1>2, CurrentSound, EmptySeq DEF Last
<1>4. l.op = "remove"
  BY <1>3, SameLibrary DEF I!RestoreEdge, I!Undoes
<1>5. P!LeadsTo(l, hg)
  BY <1>3 DEF P!UndoChain, P!After
<1>6. P!WellFormed(l.before) /\ l.e \in l.before.edges /\ hg = P!Removed(l.before, l.e)
  BY <1>4, <1>5 DEF P!LeadsTo
<1> HIDE DEF l
<1>7. Drops(l.before, l.e, hg)
  BY <1>6, RemovedDrops
<1> QED BY <1>2, <1>3, <1>4, <1>7

\* The current hypergraph is what the last logged operation has made of another.
LEMMA LastUndoes ==
  ASSUME P!UndoChain, log # << >>
  PROVE  /\ Last(log).op = "contract" => Merges(Last(log).before, Last(log).u, Last(log).v, hg)
         /\ Last(log).op = "remove" => Drops(Last(log).before, Last(log).e, hg)
<1> DEFINE l == log[Len(log)]
<1>1. log \in Seq(P!LogEntry) /\ Len(log) \in Nat /\ Len(log) # 0 /\ Last(log) = l
  BY CurrentSound, EmptySeq DEF Last
<1>2. P!LeadsTo(l, hg)
  BY <1>1 DEF P!UndoChain, P!After
<1> HIDE DEF l
<1>3. ASSUME l.op = "contract" PROVE Merges(l.before, l.u, l.v, hg)
  BY <1>2, <1>3, ContractedMerges DEF P!LeadsTo
<1>4. ASSUME l.op = "remove" PROVE Drops(l.before, l.e, hg)
  BY <1>2, <1>4, RemovedDrops DEF P!LeadsTo
<1> QED BY <1>1, <1>3, <1>4
-----------------------------------------------------------------------------
\* The weight of hypernodes is the sum of their weights.
LEMMA WeightIsTotal == \A s, N : WeightOf(s, N) = Total(s.weight, N)
BY DEF WeightOf, Total, MapThenSumSet, MapThenFoldSet

\* The weight of a set of hypernodes is a number.
LEMMA WeightType ==
  ASSUME NEW s, Sound(s), NEW N \in SUBSET Hypernode
  PROVE  IsFiniteSet(N) /\ WeightOf(s, N) \in Int
<1>1. IsFiniteSet(N) /\ \A x \in N : s.weight[x] \in Int
  BY IncidenceAssumption, FS_Subset DEF Sound
<1> QED BY <1>1, TotalStep, WeightIsTotal

\* Contraction does not change the weight of hypernodes that u is not among.
LEMMA ApartWeight ==
  ASSUME NEW s, NEW t, NEW u, NEW v, Merges(s, u, v, t), NEW M \in SUBSET s.nodes, u \notin M
  PROVE  WeightOf(t, M) = WeightOf(s, M)
<1>1. /\ Sound(s) /\ M \in SUBSET Hypernode
      /\ t.weight = [s.weight EXCEPT ![u] = @ + s.weight[v]]
  BY DEF Merges, Sound
<1>2. s.weight \in [Hypernode -> Int]
  BY <1>1 DEF Sound
<1>3. IsFiniteSet(M) /\ \A x \in M : s.weight[x] \in Int /\ t.weight[x] = s.weight[x]
  BY <1>1, <1>2, WeightType
<1>4. Total(t.weight, M) = Total(s.weight, M)
  BY <1>3, TotalEqual
<1> QED BY <1>4, WeightIsTotal

\* Contraction moves the weight of v to u: it does not change the weight of
\* hypernodes with both or without either, and adds to that of others with u.
LEMMA MergedWeight ==
  ASSUME NEW s, NEW t, NEW u, NEW v, Merges(s, u, v, t), NEW N \in SUBSET s.nodes
  PROVE  /\ u \in N /\ v \in N => WeightOf(t, N \ {v}) = WeightOf(s, N)
         /\ u \notin N => WeightOf(t, N) = WeightOf(s, N)
         /\ u \in N => WeightOf(t, N) = WeightOf(s, N) + s.weight[v]
<1>1. /\ Sound(s) /\ Sound(t) /\ u \in Hypernode /\ v \in Hypernode /\ u # v
      /\ N \in SUBSET Hypernode
      /\ t.weight = [s.weight EXCEPT ![u] = @ + s.weight[v]]
  BY DEF Merges, Sound
<1>2. IsFiniteSet(N) /\ IsFiniteSet(N \ {u}) /\ IsFiniteSet((N \ {v}) \ {u}) /\ IsFiniteSet(N \ {v})
  BY <1>1, WeightType
<1>3. s.weight \in [Hypernode -> Int] /\ t.weight \in [Hypernode -> Int]
  BY <1>1 DEF Sound
<1>4. /\ \A x \in N : s.weight[x] \in Int /\ t.weight[x] \in Int
      /\ s.weight[u] \in Int /\ s.weight[v] \in Int
      /\ t.weight[u] = s.weight[u] + s.weight[v]
      /\ \A x \in Hypernode \ {u} : t.weight[x] = s.weight[x]
  BY <1>1, <1>3
<1>5. ASSUME NEW M \in SUBSET N, u \notin M PROVE Total(t.weight, M) = Total(s.weight, M)
  <2>1. IsFiniteSet(M) /\ \A x \in M : s.weight[x] \in Int /\ t.weight[x] = s.weight[x]
    BY <1>1, <1>2, <1>4, <1>5, FS_Subset
  <2> QED BY <2>1, TotalEqual
<1>6. ASSUME u \in N PROVE Total(t.weight, N) = Total(s.weight, N) + s.weight[v]
  <2>1. Total(t.weight, N) = t.weight[u] + Total(t.weight, N \ {u})
    BY <1>2, <1>4, <1>6, TotalRemove
  <2>2. Total(s.weight, N) = s.weight[u] + Total(s.weight, N \ {u})
    BY <1>2, <1>4, <1>6, TotalRemove
  <2>3. Total(t.weight, N \ {u}) = Total(s.weight, N \ {u})
    BY <1>5
  <2>4. Total(s.weight, N \ {u}) \in Int
    BY <1>2, <1>4, TotalStep
  <2> QED BY <1>4, <2>1, <2>2, <2>3, <2>4
<1>7. ASSUME u \in N, v \in N PROVE Total(t.weight, N \ {v}) = Total(s.weight, N)
  <2>1. Total(t.weight, N) = t.weight[v] + Total(t.weight, N \ {v})
    BY <1>2, <1>4, <1>7, TotalRemove
  <2>2. Total(t.weight, N \ {v}) \in Int /\ Total(s.weight, N) \in Int
    BY <1>2, <1>4, TotalStep
  <2>3. t.weight[v] = s.weight[v]
    BY <1>1, <1>4
  <2>4. Total(t.weight, N) = Total(s.weight, N) + s.weight[v]
    BY <1>6, <1>7
  <2>5. Total(s.weight, N) + s.weight[v] = s.weight[v] + Total(t.weight, N \ {v})
    BY <2>1, <2>3, <2>4
  <2> QED BY <1>4, <2>2, <2>5
<1> QED BY <1>5, <1>6, <1>7, WeightIsTotal

\* Hypernodes of which one joins or leaves.
LEMMA WeightAdd ==
  ASSUME NEW s, Sound(s), NEW N \in SUBSET Hypernode, NEW v \in Hypernode \ N
  PROVE  WeightOf(s, N \cup {v}) = WeightOf(s, N) + s.weight[v]
<1>1. IsFiniteSet(N \cup {v}) /\ WeightOf(s, N) \in Int /\ s.weight[v] \in Int
  BY WeightType DEF Sound
<1>2. \A x \in N \cup {v} : s.weight[x] \in Int
  BY DEF Sound
<1>3. Total(s.weight, N \cup {v}) = s.weight[v] + Total(s.weight, (N \cup {v}) \ {v})
  BY <1>1, <1>2, TotalRemove
<1>4. (N \cup {v}) \ {v} = N
  OBVIOUS
<1>5. WeightOf(s, N \cup {v}) = s.weight[v] + WeightOf(s, N)
  BY <1>3, <1>4, WeightIsTotal
<1> QED BY <1>1, <1>5

\* A set weighs less by the weight of the hypernode taken out of it.
LEMMA WeightRemove ==
  ASSUME NEW s, Sound(s), NEW N \in SUBSET Hypernode, NEW v \in N
  PROVE  WeightOf(s, N \ {v}) = WeightOf(s, N) - s.weight[v]
<1>1. IsFiniteSet(N) /\ WeightOf(s, N) \in Int /\ WeightOf(s, N \ {v}) \in Int /\ s.weight[v] \in Int
  BY WeightType DEF Sound
<1>2. \A x \in N : s.weight[x] \in Int
  BY DEF Sound
<1>3. Total(s.weight, N) = s.weight[v] + Total(s.weight, N \ {v})
  BY <1>1, <1>2, TotalRemove
<1> QED BY <1>1, <1>3, WeightIsTotal
-----------------------------------------------------------------------------
\* The data of the nets, operation by operation.
NetsTyped == netPart \in [Hyperedge -> NetPart]
NetsKept == NetsTyped /\ NetsExact /\ RemovedNetsCleared

\* A contraction keeps the data of the nets exact: u and v are in the same
\* block, and a net loses v, or has u in its place.
LEMMA ContractNets ==
  ASSUME P!UndoChain, Inv, NEW u \in Hypernode, NEW v \in Hypernode, Contract(u, v)
  PROVE  NetsKept'
<1>1. /\ Merges(hg, u, v, hg')
      /\ I!SharedNets(hg, u, v) = hg.nets[u] \cap hg.nets[v]
  BY ContractMerges DEF Contract
<1>2. /\ part[u] = part[v] /\ part' = part /\ part \in Partition
      /\ \A e \in Hyperedge : netPart[e] \in NetPart
      /\ netPart' = [e \in Hyperedge |-> IF e \in hg.nets[u] \cap hg.nets[v] /\ part[v] # NoBlock
                                         THEN Decremented(netPart[e], part[v]) ELSE netPart[e]]
  BY <1>1 DEF Contract, ContractedCounts, Inv, PartitionTypeOK, Assigned
<1>3. /\ \A x \in hg.nodes, e \in Hyperedge : e \in hg.nets[x] <=> e \in hg.edges /\ x \in hg.pins[e]
      /\ hg'.edges = hg.edges /\ hg.edges \in SUBSET Hyperedge
      /\ u \in hg.nodes /\ v \in hg.nodes /\ u # v
      /\ \A e \in Hyperedge : /\ hg.pins[e] \in SUBSET Hypernode
                              /\ hg'.pins[e] \in SUBSET Hypernode
                              /\ hg'.pins[e] = IF e \in hg.nets[v] THEN (hg.pins[e] \ {v}) \cup {u}
                                                                   ELSE hg.pins[e]
  BY <1>1 DEF Merges, Sound
<1>4. ASSUME NEW e \in hg.edges
      PROVE  Exact(netPart'[e], hg'.pins[e], part) /\ netPart'[e] \in NetPart
  <2> DEFINE S == hg.pins[e]
             T == hg'.pins[e]
  <2>1. Exact(netPart[e], S, part) /\ e \in Hyperedge /\ S \in SUBSET Hypernode /\ T \in SUBSET Hypernode
    BY <1>3 DEF Inv, NetsExact
  <2>2. CASE e \in hg.nets[u] \cap hg.nets[v] /\ part[v] # NoBlock
    <3>1. netPart'[e] = Decremented(netPart[e], part[v]) /\ part[v] \in Block
      BY <1>2, <2>1, <2>2 DEF Partition
    <3>2. T = S \ {v} /\ v \in S
      <4>1. u \in S /\ v \in S /\ u # v /\ T = (S \ {v}) \cup {u}
        BY <1>3, <2>1, <2>2
      <4> HIDE DEF S, T
      <4> QED BY <4>1
    <3>3. /\ v \in In(S, part, part[v])
          /\ In(T, part, part[v]) = In(S, part, part[v]) \ {v}
          /\ \A d \in Block \ {part[v]} : In(T, part, d) = In(S, part, d)
      BY <3>2 DEF In
    <3> HIDE DEF S, T
    <3>4. netPart[e] \in NetPart
      BY <1>2, <2>1
    <3>5. Exact(Decremented(netPart[e], part[v]), T, part) /\ Decremented(netPart[e], part[v]) \in NetPart
      BY <2>1, <3>1, <3>3, <3>4, DecrementedExact
    <3> QED BY <3>1, <3>5 DEF T
  <2>3. CASE e \in hg.nets[u] \cap hg.nets[v] /\ part[v] = NoBlock
    <3>1. netPart'[e] = netPart[e] /\ T = S \ {v}
      <4>1. u \in S /\ v \in S /\ u # v /\ T = (S \ {v}) \cup {u} /\ netPart'[e] = netPart[e]
        BY <1>2, <1>3, <2>1, <2>3
      <4> HIDE DEF S, T
      <4> QED BY <4>1
    <3>2. \A b \in Block : In(T, part, b) = In(S, part, b)
      BY <2>3, <3>1, BlockAssumption DEF In
    <3> QED BY <1>2, <2>1, <3>1, <3>2, UnchangedExact
  <2>4. CASE e \in hg.nets[v] /\ e \notin hg.nets[u]
    <3>1. netPart'[e] = netPart[e] /\ T = (S \ {v}) \cup {u} /\ v \in S /\ u \in Hypernode \ S
      BY <1>2, <1>3, <2>1, <2>4
    <3>2. Exact(netPart[e], T, part)
      BY <1>2, <2>1, <3>1, RenamedExact
    <3> QED BY <1>2, <2>1, <3>1, <3>2
  <2>5. CASE e \notin hg.nets[v]
    BY <1>2, <1>3, <2>1, <2>5
  <2> QED BY <2>2, <2>3, <2>4, <2>5
<1>5. ASSUME NEW e \in Hyperedge \ hg.edges PROVE netPart'[e] = netPart[e]
  BY <1>2, <1>3
<1>6. NetsTyped'
  <2>1. \A e \in Hyperedge : netPart'[e] \in NetPart
    BY <1>2, <1>4, <1>5
  <2> QED BY <1>2, <2>1 DEF NetsTyped
<1>7. NetsExact'
  BY <1>2, <1>3, <1>4 DEF NetsExact
<1>8. RemovedNetsCleared'
  BY <1>3, <1>5 DEF RemovedNetsCleared, Inv
<1> QED BY <1>6, <1>7, <1>8 DEF NetsKept

\* Removing a net keeps the data of the others.
LEMMA RemoveEdgeNets ==
  ASSUME P!UndoChain, Inv, NEW e \in Hyperedge, RemoveEdge(e)
  PROVE  NetsKept'
<1>1. Drops(hg, e, hg')
  BY RemoveDrops DEF RemoveEdge
<1>2. /\ netPart' = [netPart EXCEPT ![e] = Invalidated] /\ part' = part
      /\ netPart \in [Hyperedge -> NetPart]
  BY DEF RemoveEdge, Inv, PartitionTypeOK
<1>3. Invalidated \in NetPart /\ Invalidated.connectivity = 0 /\ Invalidated.blocks = {}
  BY DEF Invalidated, NoPins, NetPart
<1>4. NetsTyped'
  BY <1>2, <1>3 DEF NetsTyped
<1>5. hg'.edges = hg.edges \ {e} /\ hg'.pins = hg.pins /\ hg.edges \in SUBSET Hyperedge
  BY <1>1 DEF Drops, Sound
<1>6. NetsExact'
  BY <1>2, <1>5 DEF NetsExact, Inv
<1>7. RemovedNetsCleared'
  BY <1>2, <1>3, <1>5 DEF RemovedNetsCleared, Inv
<1> QED BY <1>4, <1>6, <1>7 DEF NetsKept

\* Assigning a hypernode counts it in each of its nets, once.
LEMMA SetNodePartNets ==
  ASSUME P!UndoChain, Inv, NEW v \in Hypernode, NEW b \in Block, SetNodePart(v, b)
  PROVE  NetsKept'
<1>1. /\ v \in hg.nodes /\ part[v] = NoBlock /\ part' = [part EXCEPT ![v] = b] /\ part \in Partition
      /\ netPart' = [e \in Hyperedge |-> IF e \in hg.nets[v] THEN Incremented(netPart[e], b) ELSE netPart[e]]
      /\ hg' = hg
      /\ \A e \in Hyperedge : netPart[e] \in NetPart
  BY DEF SetNodePart, Assigned, Inv, PartitionTypeOK
<1>2. /\ \A e \in Hyperedge : e \in hg.nets[v] <=> e \in hg.edges /\ v \in hg.pins[e]
      /\ \A e \in Hyperedge : hg.pins[e] \in SUBSET Hypernode
      /\ hg.edges \in SUBSET Hyperedge
  BY <1>1, CurrentSound DEF Sound
<1>3. ASSUME NEW e \in hg.edges
      PROVE  Exact(netPart'[e], hg.pins[e], part') /\ netPart'[e] \in NetPart
  <2> DEFINE S == hg.pins[e]
  <2>1. Exact(netPart[e], S, part) /\ e \in Hyperedge /\ S \in SUBSET Hypernode
    BY <1>2 DEF Inv, NetsExact
  <2>2. CASE v \in S
    <3>1. /\ v \notin In(S, part, b)
          /\ In(S, part', b) = In(S, part, b) \cup {v}
          /\ \A d \in Block \ {b} : In(S, part', d) = In(S, part, d)
      BY <1>1, <2>1, <2>2, BlockAssumption DEF In, Partition
    <3>2. netPart'[e] = Incremented(netPart[e], b)
      BY <1>1, <1>2, <2>1, <2>2
    <3> HIDE DEF S
    <3>3. netPart[e] \in NetPart
      BY <1>1, <2>1
    <3>4. Exact(Incremented(netPart[e], b), S, part') /\ Incremented(netPart[e], b) \in NetPart
      BY <2>1, <3>1, <3>3, IncrementedExact
    <3> QED BY <3>2, <3>4 DEF S
  <2>3. CASE v \notin S
    <3>1. \A d \in Block : In(S, part', d) = In(S, part, d)
      BY <1>1, <2>1, <2>3 DEF In, Partition
    <3>2. netPart'[e] = netPart[e]
      BY <1>1, <1>2, <2>1, <2>3
    <3> QED BY <1>1, <2>1, <3>1, <3>2, UnchangedExact
  <2> QED BY <2>2, <2>3
<1>4. ASSUME NEW e \in Hyperedge \ hg.edges PROVE netPart'[e] = netPart[e]
  BY <1>1, <1>2
<1>5. NetsTyped'
  <2>1. \A e \in Hyperedge : netPart'[e] \in NetPart
    BY <1>1, <1>3, <1>4
  <2> QED BY <1>1, <2>1 DEF NetsTyped
<1>6. NetsExact'
  BY <1>1, <1>3 DEF NetsExact
<1>7. RemovedNetsCleared'
  BY <1>1, <1>4 DEF RemovedNetsCleared, Inv
<1> QED BY <1>5, <1>6, <1>7 DEF NetsKept

\* Nothing is assigned, no pin is counted.
LEMMA NoPinsExact ==
  ASSUME NEW S \in SUBSET Hypernode
  PROVE  NoPins \in NetPart /\ Exact(NoPins, S, [v \in Hypernode |-> NoBlock])
<1> DEFINE f == [v \in Hypernode |-> NoBlock]
<1>1. \A b \in Block : In(S, f, b) = {}
  BY BlockAssumption DEF In
<1> HIDE DEF f
<1>2. NoPins \in NetPart /\ NoPins.connectivity = 0 /\ NoPins.blocks = {} /\ \A b \in Block : NoPins.count[b] = 0
  BY DEF NoPins, NetPart
<1> QED BY <1>1, <1>2, FS_EmptySet DEF Exact, f

\* After a reset no net has a pin in a block, which is what its data says.
LEMMA ResetPartitioningNets ==
  ASSUME P!UndoChain, Inv, ResetPartitioning
  PROVE  NetsKept'
<1>1. hg' = hg /\ part' = [v \in Hypernode |-> NoBlock] /\ netPart' = [e \in Hyperedge |-> NoPins]
  BY DEF ResetPartitioning
<1>2. \A e \in Hyperedge : hg.pins[e] \in SUBSET Hypernode
  BY CurrentSound DEF Sound
<1>3. hg.edges \in SUBSET Hyperedge
  BY CurrentSound DEF Sound
<1>4. NetsTyped'
  BY <1>1, NoPinsExact DEF NetsTyped
<1>5. NetsExact'
  BY <1>1, <1>2, <1>3, NoPinsExact DEF NetsExact
<1>6. RemovedNetsCleared'
  BY <1>1 DEF RemovedNetsCleared, NoPins
<1> QED BY <1>4, <1>5, <1>6 DEF NetsKept

\* An uncontraction keeps the data of the nets: v enters the block of u.
LEMMA UncontractNets ==
  ASSUME P!UndoChain, Inv, Uncontract
  PROVE  NetsKept'
<1> DEFINE u == Last(log).u
           v == Last(log).v
<1>1. /\ Merges(hg', u, v, hg)
      /\ I!CutOffNets(hg, u, v) = hg'.nets[u] \cap hg'.nets[v]
  BY UncontractMerges DEF Uncontract
<1>2. /\ part' = [part EXCEPT ![v] = part[u]] /\ part \in Partition
      /\ netPart' = [e \in Hyperedge |-> IF e \in I!CutOffNets(hg, u, v)
                                         THEN Incremented(netPart[e], part[u]) ELSE netPart[e]]
      /\ \A e \in Hyperedge : netPart[e] \in NetPart
      /\ \A x \in hg.nodes : part[x] # NoBlock
  BY DEF Uncontract, InheritedPart, Inv, PartitionTypeOK, AssignmentComplete, AllAssigned, Assigned
<1> HIDE DEF u, v
<1>3. /\ \A x \in hg'.nodes, e \in Hyperedge : e \in hg'.nets[x] <=> e \in hg'.edges /\ x \in hg'.pins[e]
      /\ hg'.edges = hg.edges /\ hg.edges \in SUBSET Hyperedge
      /\ u \in hg'.nodes /\ v \in hg'.nodes /\ u # v /\ hg'.nodes \in SUBSET Hypernode
      /\ hg.nodes = hg'.nodes \ {v}
      /\ \A e \in hg.edges : hg.pins[e] \in SUBSET hg.nodes
      /\ \A e \in Hyperedge : /\ hg.pins[e] \in SUBSET Hypernode
                              /\ hg'.pins[e] \in SUBSET Hypernode
                              /\ hg.pins[e] = IF e \in hg'.nets[v] THEN (hg'.pins[e] \ {v}) \cup {u}
                                                                   ELSE hg'.pins[e]
  BY <1>1 DEF Merges, Sound
<1>4. /\ u \in Hypernode /\ v \in Hypernode /\ part[u] \in Block
      /\ part'[v] = part[u] /\ \A x \in Hypernode \ {v} : part'[x] = part[x]
  BY <1>2, <1>3 DEF Partition
<1>5. ASSUME NEW e \in hg.edges
      PROVE  Exact(netPart'[e], hg'.pins[e], part') /\ netPart'[e] \in NetPart
  <2> DEFINE S == hg.pins[e]
             T == hg'.pins[e]
  <2>1. Exact(netPart[e], S, part) /\ e \in Hyperedge /\ S \in SUBSET Hypernode /\ T \in SUBSET Hypernode
        /\ v \notin S /\ netPart[e] \in NetPart
    BY <1>2, <1>3 DEF Inv, NetsExact
  <2>2. CASE e \in hg'.nets[u] \cap hg'.nets[v]
    <3>1. T = S \cup {v} /\ u \in S
      <4>1. S = (T \ {v}) \cup {u} /\ u \in T /\ v \in T
        BY <1>3, <2>1, <2>2
      <4> HIDE DEF S, T
      <4> QED BY <4>1
    <3>2. netPart'[e] = Incremented(netPart[e], part[u])
      BY <1>1, <1>2, <2>1, <2>2
    <3> HIDE DEF S, T
    <3>3. /\ v \notin In(S, part, part[u])
          /\ In(T, part', part[u]) = In(S, part, part[u]) \cup {v}
          /\ \A d \in Block \ {part[u]} : In(T, part', d) = In(S, part, d)
      BY <1>4, <2>1, <3>1 DEF In
    <3>4. Exact(Incremented(netPart[e], part[u]), T, part') /\ Incremented(netPart[e], part[u]) \in NetPart
      BY <1>4, <2>1, <3>3, IncrementedExact
    <3> QED BY <3>2, <3>4 DEF T
  <2>3. CASE e \in hg'.nets[v] /\ e \notin hg'.nets[u]
    <3>1. T = (S \ {u}) \cup {v} /\ u \in S
      <4>1. S = (T \ {v}) \cup {u} /\ u \notin T /\ v \in T
        BY <1>3, <2>1, <2>3
      <4> HIDE DEF S, T
      <4> QED BY <4>1
    <3>2. netPart'[e] = netPart[e]
      BY <1>1, <1>2, <2>1, <2>3
    <3> HIDE DEF S, T
    <3>3. part'[v] = part[u] /\ v \in Hypernode \ S /\ \A x \in S \ {u} : part'[x] = part[x]
      BY <1>4, <2>1
    <3>4. Exact(netPart[e], (S \ {u}) \cup {v}, part')
      BY <2>1, <3>1, <3>3, RenamedExact
    <3> QED BY <2>1, <3>1, <3>2, <3>4 DEF T
  <2>4. CASE e \notin hg'.nets[v]
    <3>1. T = S /\ netPart'[e] = netPart[e]
      BY <1>1, <1>2, <1>3, <2>1, <2>4
    <3> HIDE DEF S, T
    <3>2. \A d \in Block : In(T, part', d) = In(S, part, d)
      BY <1>4, <2>1, <3>1 DEF In
    <3>3. Exact(netPart[e], T, part')
      BY <2>1, <3>2, UnchangedExact
    <3> QED BY <2>1, <3>1, <3>3 DEF T
  <2> QED BY <2>2, <2>3, <2>4
<1>6. ASSUME NEW e \in Hyperedge \ hg.edges PROVE netPart'[e] = netPart[e]
  BY <1>1, <1>2, <1>3
<1>7. NetsTyped'
  <2>1. \A e \in Hyperedge : netPart'[e] \in NetPart
    BY <1>2, <1>5, <1>6
  <2> QED BY <1>2, <2>1 DEF NetsTyped
<1>8. NetsExact'
  BY <1>3, <1>5 DEF NetsExact
<1>9. RemovedNetsCleared'
  BY <1>3, <1>6 DEF RemovedNetsCleared, Inv
<1> QED BY <1>7, <1>8, <1>9 DEF NetsKept

\* Moving a hypernode moves one pin of each of its nets.
LEMMA ChangeNodePartNets ==
  ASSUME P!UndoChain, Inv, NEW v \in Hypernode, NEW to \in Block, ChangeNodePart(v, to)
  PROVE  NetsKept'
<1> DEFINE from == part[v]
<1>1. /\ v \in hg.nodes /\ to # from /\ part' = [part EXCEPT ![v] = to] /\ part \in Partition
      /\ netPart' = [e \in Hyperedge |-> IF e \in hg.nets[v] THEN Moved(e, from, to) ELSE netPart[e]]
      /\ hg' = hg
      /\ \A e \in Hyperedge : netPart[e] \in NetPart
      /\ \A x \in hg.nodes : part[x] # NoBlock
  BY DEF ChangeNodePart, Inv, PartitionTypeOK, AssignmentComplete, AllAssigned, Assigned
<1>2. /\ \A e \in Hyperedge : e \in hg.nets[v] <=> e \in hg.edges /\ v \in hg.pins[e]
      /\ \A e \in Hyperedge : hg.pins[e] \in SUBSET Hypernode
      /\ hg.edges \in SUBSET Hyperedge
  BY <1>1, CurrentSound DEF Sound
<1>3. from \in Block /\ part'[v] = to /\ \A x \in Hypernode \ {v} : part'[x] = part[x]
  BY <1>1 DEF Partition
<1>4. ASSUME NEW e \in hg.edges
      PROVE  Exact(netPart'[e], hg.pins[e], part') /\ netPart'[e] \in NetPart
  <2> DEFINE S == hg.pins[e]
             c == Decremented(netPart[e], from)
  <2>1. Exact(netPart[e], S, part) /\ e \in Hyperedge /\ S \in SUBSET Hypernode /\ netPart[e] \in NetPart
    BY <1>1, <1>2 DEF Inv, NetsExact
  <2>2. CASE v \in S
    <3>1. netPart'[e] = Incremented(c, to)
      BY <1>1, <1>2, <2>1, <2>2 DEF Moved
    <3> HIDE DEF S
    <3>2. /\ v \in In(S, part, from)
          /\ In(S \ {v}, part, from) = In(S, part, from) \ {v}
          /\ \A d \in Block \ {from} : In(S \ {v}, part, d) = In(S, part, d)
      BY <1>3, <2>2 DEF In
    <3>3. S \ {v} \in SUBSET Hypernode
      BY <2>1
    <3> HIDE DEF from
    <3>4. Exact(c, S \ {v}, part) /\ c \in NetPart
      BY <1>3, <2>1, <3>2, <3>3, DecrementedExact
    <3>5. /\ v \notin In(S \ {v}, part, to)
          /\ In(S, part', to) = In(S \ {v}, part, to) \cup {v}
          /\ \A d \in Block \ {to} : In(S, part', d) = In(S \ {v}, part, d)
      BY <1>3, <2>1, <2>2 DEF In
    <3> HIDE DEF c
    <3>6. Exact(Incremented(c, to), S, part') /\ Incremented(c, to) \in NetPart
      BY <2>1, <3>3, <3>4, <3>5, IncrementedExact
    <3> QED BY <3>1, <3>6 DEF S
  <2>3. CASE v \notin S
    <3>1. netPart'[e] = netPart[e]
      BY <1>1, <1>2, <2>1, <2>3
    <3> HIDE DEF S
    <3>2. \A d \in Block : In(S, part', d) = In(S, part, d)
      BY <1>3, <2>1, <2>3 DEF In
    <3>3. Exact(netPart[e], S, part')
      BY <2>1, <3>2, UnchangedExact
    <3> QED BY <2>1, <3>1, <3>3 DEF S
  <2> QED BY <2>2, <2>3
<1>5. ASSUME NEW e \in Hyperedge \ hg.edges PROVE netPart'[e] = netPart[e]
  BY <1>1, <1>2
<1>6. NetsTyped'
  <2>1. \A e \in Hyperedge : netPart'[e] \in NetPart
    BY <1>1, <1>4, <1>5
  <2> QED BY <1>1, <2>1 DEF NetsTyped
<1>7. NetsExact'
  BY <1>1, <1>4 DEF NetsExact
<1>8. RemovedNetsCleared'
  BY <1>1, <1>5 DEF RemovedNetsCleared, Inv
<1> QED BY <1>6, <1>7, <1>8 DEF NetsKept
-----------------------------------------------------------------------------
\* Restoring a net counts its pins from scratch, one after the other.
Counted(base, A, f) == FoldSet(LAMBDA v, c : Incremented(c, f[v]), base, A)

\* The counts of a net that is not removed.
CountedNet == [count : [Block -> Int], connectivity : Int, blocks : SUBSET Block]

\* Counting a pin keeps the form of the data of a net.
LEMMA IncrementedCounted ==
  ASSUME NEW c \in CountedNet, NEW b \in Block
  PROVE  Incremented(c, b) \in CountedNet
BY DEF CountedNet, Incremented

\* Counting the pins of a set from zero is exact for that set.
LEMMA CountedExact ==
  ASSUME NEW A \in SUBSET Hypernode, NEW f \in Partition, \A v \in A : f[v] \in Block
  PROVE  Exact(Counted(NoPins, A, f), A, f) /\ Counted(NoPins, A, f) \in NetPart
<1> DEFINE op == [p \in A \X CountedNet |-> Incremented(p[2], f[p[1]])]
           Solves(g) == g = [s \in SUBSET A |-> IF s = {} THEN NoPins ELSE Incremented(g[s \ {First(s)}], f[First(s)])]
<1>1. IsFiniteSet(A)
  BY FinitePins
<1>2. NoPins \in CountedNet
  BY DEF NoPins, CountedNet
<1>3. op \in [A \X CountedNet -> CountedNet]
  BY IncrementedCounted
<1>4. PICK g \in [SUBSET A -> CountedNet] : IsFold(g, A, NoPins, op, FirstOf(A))
  <2> HIDE DEF op
  <2> QED BY <1>1, <1>2, <1>3, FoldExists, FirstPicks
<1>5. \A s \in SUBSET A : s # {} => First(s) \in s /\ s \ {First(s)} \in SUBSET A
  BY DEF First
<1>6. \A s \in SUBSET A : g[s] = IF s = {} THEN NoPins ELSE Incremented(g[s \ {First(s)}], f[First(s)])
  <2>1. \A s \in SUBSET A : FirstOf(A)[s] = First(s)
    BY FirstPicks
  <2>2. \A s \in SUBSET A : g[s] = IF s = {} THEN NoPins ELSE op[<<First(s), g[s \ {First(s)}]>>]
    BY <1>4, <2>1 DEF IsFold
  <2> QED BY <1>4, <1>5, <2>2
<1>7. Solves(g)
  BY <1>4, <1>6
<1> DEFINE h == CHOOSE k : Solves(k)
<1>8. Solves(h)
  <2> HIDE DEF Solves
  <2> QED BY <1>7
<1>9. Counted(NoPins, A, f) = h[A]
  BY DEF Counted, FoldSet, MapThenFoldSet, First
<1>10. \A s \in SUBSET A : h[s] = IF s = {} THEN NoPins ELSE Incremented(h[s \ {First(s)}], f[First(s)])
  <2> HIDE DEF h
  <2> QED BY <1>8
<1> HIDE DEF h, op, Solves
<1> DEFINE Good == {s \in SUBSET A : h[s] \in NetPart /\ Exact(h[s], s, f)}
<1>11. \A s \in SUBSET A : (\A t \in SUBSET s : t # s => t \in Good) => s \in Good
  <2> SUFFICES ASSUME NEW s \in SUBSET A, \A t \in SUBSET s : t # s => t \in Good
               PROVE  h[s] \in NetPart /\ Exact(h[s], s, f)
    OBVIOUS
  <2>1. CASE s = {}
    <3>1. h[s] = NoPins
      BY <1>10, <2>1
    <3>2. Exact(NoPins, s, [v \in Hypernode |-> NoBlock]) /\ NoPins \in NetPart
      BY NoPinsExact
    <3>3. \A b \in Block : In(s, f, b) = In(s, [v \in Hypernode |-> NoBlock], b)
      BY <2>1 DEF In
    <3> QED BY <3>1, <3>2, <3>3, UnchangedExact
  <2>2. CASE s # {}
    <3> DEFINE x == First(s)
               t == s \ {x}
    <3>1. x \in s /\ f[x] \in Block
      BY <1>5, <2>2
    <3>2. h[t] \in NetPart /\ Exact(h[t], t, f)
      BY <3>1
    <3>3. h[s] = Incremented(h[t], f[x])
      BY <1>10, <2>2
    <3>4. t \in SUBSET Hypernode /\ s \in SUBSET Hypernode
      OBVIOUS
    <3>5. /\ x \notin In(t, f, f[x])
          /\ In(s, f, f[x]) = In(t, f, f[x]) \cup {x}
          /\ \A d \in Block \ {f[x]} : In(s, f, d) = In(t, f, d)
      BY <3>1 DEF In
    <3> HIDE DEF x, t
    <3>6. Exact(Incremented(h[t], f[x]), s, f) /\ Incremented(h[t], f[x]) \in NetPart
      BY <3>1, <3>2, <3>4, <3>5, IncrementedExact
    <3> QED BY <3>3, <3>6
  <2> QED BY <2>1, <2>2
<1>12. \A s \in SUBSET A : s \in Good
  <2> HIDE DEF Good
  <2> QED BY <1>1, <1>11, SubsetInduction
<1> QED BY <1>9, <1>12

\* A net that is restored starts from cleared data and is exact afterwards.
LEMMA RecountedExact ==
  ASSUME P!UndoChain, Inv, NEW e \in Hyperedge \ hg.edges
  PROVE  Exact(Recounted(e), hg.pins[e], part) /\ Recounted(e) \in NetPart
<1> DEFINE A == {v \in hg.pins[e] : Assigned(v)}
           reset == [netPart[e] EXCEPT !.count = [b \in Block |-> 0]]
<1>1. hg.pins[e] \in SUBSET Hypernode /\ part \in Partition /\ netPart[e] \in NetPart
  BY CurrentSound DEF Inv, PartitionTypeOK, Sound
<1>2. reset = NoPins
  <2>1. netPart[e] = [count |-> netPart[e].count, connectivity |-> 0, blocks |-> {}]
    BY <1>1 DEF Inv, RemovedNetsCleared, NetPart
  <2>2. [[count |-> netPart[e].count, connectivity |-> 0, blocks |-> {}] EXCEPT !.count = [b \in Block |-> 0]]
          = [count |-> [b \in Block |-> 0], connectivity |-> 0, blocks |-> {}]
    OBVIOUS
  <2> QED BY <2>1, <2>2, Zenon DEF NoPins
<1>3. Recounted(e) = Counted(reset, A, part)
  BY DEF Recounted, Counted, FoldSet, MapThenFoldSet
<1>4. A \in SUBSET Hypernode /\ \A v \in A : part[v] \in Block
  BY <1>1 DEF Assigned, Partition
<1>5. \A b \in Block : In(hg.pins[e], part, b) = In(A, part, b)
  BY BlockAssumption DEF In, Assigned
<1> HIDE DEF A, reset
<1>6. Exact(Counted(NoPins, A, part), A, part) /\ Counted(NoPins, A, part) \in NetPart
  BY <1>1, <1>4, CountedExact
<1> QED BY <1>2, <1>3, <1>5, <1>6, UnchangedExact

\* What both ways of restoring a net do to the data of the nets.
LEMMA RestoredNets ==
  ASSUME P!UndoChain, Inv, NEW e, Drops(hg', e, hg), part' = part,
         netPart' = [netPart EXCEPT ![e] = Recounted(e)]
  PROVE  NetsKept'
<1>1. /\ hg.edges = hg'.edges \ {e} /\ hg'.pins = hg.pins /\ e \in hg'.edges
      /\ hg'.edges \in SUBSET Hyperedge
  BY DEF Drops, Sound
<1>2. Exact(Recounted(e), hg.pins[e], part) /\ Recounted(e) \in NetPart
  BY <1>1, RecountedExact
<1>3. netPart \in [Hyperedge -> NetPart]
  BY DEF Inv, PartitionTypeOK
<1>4. NetsTyped'
  BY <1>1, <1>2, <1>3 DEF NetsTyped
<1>5. NetsExact'
  BY <1>1, <1>2, <1>3 DEF NetsExact, Inv
<1>6. RemovedNetsCleared'
  BY <1>1, <1>3 DEF RemovedNetsCleared, Inv
<1> QED BY <1>4, <1>5, <1>6 DEF NetsKept

\* A restored net counts its pins anew.
LEMMA RestoreNets ==
  ASSUME P!UndoChain, Inv, RestoreEdge \/ \E rep \in Hyperedge : RestoreParallelEdge(rep)
  PROVE  NetsKept'
<1> DEFINE e == Last(log).e
<1>1. I!RestoreEdge /\ part' = part /\ netPart' = [netPart EXCEPT ![e] = Recounted(e)]
  BY DEF RestoreEdge, RestoreParallelEdge
<1> QED BY <1>1, RestoreDrops, RestoredNets
-----------------------------------------------------------------------------
\* The data of the blocks, operation by operation.
LEMMA InfoMeans ==
  ASSUME NEW s, NEW f, NEW info, NEW fixed, NEW cycle
  PROVE  InfoExact(s, f, info, fixed, cycle) <=>
           /\ \A b \in Block : /\ info[b].weight = WeightOf(s, {v \in s.nodes : f[v] = b})
                               /\ info[b].fixedWeight = WeightOf(s, {v \in fixed : FixedPart[v] = b})
           /\ cycle = 0 => \A b \in Block : info[b].size = Cardinality({v \in s.nodes : f[v] = b})
           /\ fixed = {v \in s.nodes : IsFixed(v)}
<1> SUFFICES ASSUME fixed = {v \in s.nodes : IsFixed(v)}
             PROVE  InfoExact(s, f, info, fixed, cycle) <=>
                      /\ \A b \in Block : /\ info[b].weight = WeightOf(s, {v \in s.nodes : f[v] = b})
                                          /\ info[b].fixedWeight = WeightOf(s, {v \in fixed : FixedPart[v] = b})
                      /\ cycle = 0 => \A b \in Block : info[b].size = Cardinality({v \in s.nodes : f[v] = b})
  BY DEF InfoExact
<1>1. ASSUME NEW b \in Block PROVE {v \in fixed : FixedPart[v] = b} = In(s.nodes, FixedPart, b)
  BY BlockAssumption DEF In, IsFixed
<1>2. ASSUME NEW b \in Block PROVE {v \in s.nodes : f[v] = b} = In(s.nodes, f, b)
  BY DEF In
<1> QED BY <1>1, <1>2 DEF InfoExact

InfoTyped == block \in [Block -> PartInfo]
InfoKept == InfoTyped /\ InfoExact(hg, part, block, fixedVertices, vcycle)

\* A contraction keeps weights and sizes of the blocks exact.
LEMMA ContractInfo ==
  ASSUME P!UndoChain, Inv, NEW u \in Hypernode, NEW v \in Hypernode, Contract(u, v)
  PROVE  InfoKept'
<1>1. Merges(hg, u, v, hg')
  BY ContractMerges DEF Contract
<1>2. /\ u \in hg.nodes /\ v \in hg.nodes /\ u # v /\ hg'.nodes = hg.nodes \ {v}
      /\ hg.weight[v] \in Int /\ hg.nodes \in SUBSET Hypernode /\ Sound(hg)
  BY <1>1 DEF Merges, Sound
<1>3. /\ part' = part /\ part[u] = part[v] /\ vcycle' = vcycle
      /\ IsFixed(v) => FixedPart[u] = FixedPart[v]
      /\ fixedVertices' = IF IsFixed(u) THEN fixedVertices \ {v} ELSE fixedVertices
      /\ block' = IF IsFixed(u) /\ ~ IsFixed(v)
                  THEN [block EXCEPT ![FixedPart[u]].fixedWeight = @ + hg.weight[v]] ELSE block
  BY DEF Contract
<1>4. block \in [Block -> PartInfo] /\ InfoExact(hg, part, block, fixedVertices, vcycle)
  BY DEF Inv, PartitionTypeOK
<1>5. IsFixed(u) => FixedPart[u] \in Block
  BY FixedPartAssumption DEF IsFixed
<1>6. \A b \in Block : In(hg.nodes, part, b) \in SUBSET hg.nodes /\ In(hg.nodes, FixedPart, b) \in SUBSET hg.nodes
  BY DEF In
<1>7. ASSUME NEW b \in Block
      PROVE  /\ block'[b] = IF FixedPart[u] = b /\ ~ IsFixed(v)
                            THEN [block[b] EXCEPT !.fixedWeight = @ + hg.weight[v]] ELSE block[b]
             /\ block[b] \in PartInfo
  BY <1>3, <1>4, <1>5, BlockAssumption DEF IsFixed
<1>8. ASSUME NEW b \in Block
      PROVE  /\ block'[b].weight = block[b].weight /\ block'[b].size = block[b].size
             /\ block'[b].fixedWeight = IF FixedPart[u] = b /\ ~ IsFixed(v)
                                        THEN block[b].fixedWeight + hg.weight[v] ELSE block[b].fixedWeight
             /\ block'[b] \in PartInfo
  <2>1. block[b] \in PartInfo
    BY <1>7
  <2>2. CASE FixedPart[u] = b /\ ~ IsFixed(v)
    <3>1. block'[b] = [block[b] EXCEPT !.fixedWeight = @ + hg.weight[v]]
      BY <1>7, <2>2
    <3>2. block[b].fixedWeight + hg.weight[v] \in Int
      BY <1>2, <2>1 DEF PartInfo
    <3> QED BY <2>1, <2>2, <3>1, <3>2 DEF PartInfo
  <2>3. CASE ~ (FixedPart[u] = b /\ ~ IsFixed(v))
    BY <1>7, <2>1, <2>3
  <2> QED BY <2>2, <2>3
<1>9. ASSUME NEW b \in Block PROVE block'[b].weight = WeightOf(hg', In(hg'.nodes, part, b))
  <2> DEFINE N == In(hg.nodes, part, b)
  <2>1. In(hg'.nodes, part, b) = N \ {v} /\ (u \in N <=> v \in N)
    BY <1>2, <1>3 DEF In
  <2>2. block'[b].weight = WeightOf(hg, N)
    BY <1>4, <1>8 DEF InfoExact
  <2> HIDE DEF N
  <2>3. v \notin N => N \ {v} = N
    OBVIOUS
  <2>4. N \in SUBSET hg.nodes
    BY <1>6 DEF N
  <2>5. WeightOf(hg', N \ {v}) = WeightOf(hg, N)
    <3>1. CASE v \in N
      BY <1>1, <2>1, <2>4, <3>1, MergedWeight
    <3>2. CASE v \notin N
      <4>1. WeightOf(hg', N) = WeightOf(hg, N)
        BY <1>1, <2>1, <2>4, <3>2, MergedWeight
      <4> QED BY <2>3, <3>2, <4>1
    <3> QED BY <3>1, <3>2
  <2> QED BY <2>1, <2>2, <2>5
<1>10. ASSUME NEW b \in Block PROVE block'[b].fixedWeight = WeightOf(hg', In(hg'.nodes, FixedPart, b))
  <2> DEFINE F == In(hg.nodes, FixedPart, b)
  <2>1. block[b].fixedWeight = WeightOf(hg, F) /\ F \in SUBSET hg.nodes
    BY <1>4, <1>6 DEF InfoExact
  <2>2. /\ In(hg'.nodes, FixedPart, b) = F \ {v}
        /\ (u \in F <=> FixedPart[u] = b) /\ (v \in F <=> FixedPart[v] = b)
        /\ v \in F => IsFixed(v) /\ u \in F
        /\ u \in F /\ v \notin F => ~ IsFixed(v)
    BY <1>2, <1>3, BlockAssumption DEF In, IsFixed
  <2> HIDE DEF F
  <2>3. v \notin F => F \ {v} = F
    OBVIOUS
  <2>4. CASE v \in F
    BY <1>1, <1>8, <2>1, <2>2, <2>4, MergedWeight
  <2>5. CASE v \notin F /\ u \in F
    <3>1. WeightOf(hg', F) = WeightOf(hg, F) + hg.weight[v]
      BY <1>1, <2>1, <2>5, MergedWeight
    <3>2. block'[b].fixedWeight = block[b].fixedWeight + hg.weight[v]
      BY <1>8, <2>2, <2>5
    <3> QED BY <2>1, <2>2, <2>3, <2>5, <3>1, <3>2
  <2>6. CASE v \notin F /\ u \notin F
    <3>1. WeightOf(hg', F) = WeightOf(hg, F)
      BY <1>1, <2>1, <2>6, MergedWeight
    <3>2. block'[b].fixedWeight = block[b].fixedWeight
      BY <1>8, <2>2, <2>6
    <3> QED BY <2>1, <2>2, <2>3, <2>6, <3>1, <3>2
  <2> QED BY <2>4, <2>5, <2>6
<1>11. ASSUME NEW b \in Block, vcycle = 0 PROVE block'[b].size = Cardinality(In(hg'.nodes, part, b))
  <2>1. \A x \in hg.nodes : part[x] = NoBlock
    BY <1>11 DEF Inv, AssignmentComplete, NoneAssigned, Assigned, Contract
  <2>2. In(hg'.nodes, part, b) = In(hg.nodes, part, b)
    BY <1>2, <2>1, BlockAssumption DEF In
  <2> QED BY <1>4, <1>8, <1>11, <2>2 DEF InfoExact
<1>12. fixedVertices' = {x \in hg'.nodes : IsFixed(x)}
  <2>1. fixedVertices = {x \in hg.nodes : IsFixed(x)}
    BY <1>4 DEF InfoExact
  <2>2. IsFixed(v) => IsFixed(u)
    BY <1>3 DEF IsFixed
  <2> QED BY <1>2, <1>3, <2>1, <2>2
<1>13. InfoTyped'
  BY <1>3, <1>4, <1>8 DEF InfoTyped
<1>14. InfoExact(hg', part', block', fixedVertices', vcycle')
  BY <1>3, <1>9, <1>10, <1>11, <1>12 DEF InfoExact
<1> QED BY <1>13, <1>14 DEF InfoKept

\* So does an uncontraction, which adds one hypernode to a block.
LEMMA UncontractInfo ==
  ASSUME P!UndoChain, Inv, Uncontract
  PROVE  InfoKept'
<1> DEFINE u == Last(log).u
           v == Last(log).v
<1>1. Merges(hg', u, v, hg) /\ log # << >> /\ Last(log).op = "contract"
  BY UncontractMerges DEF Uncontract
<1>2. IsFixed(v) => FixedPart[u] = FixedPart[v]
  <2>1. Last(log) = log[Len(log)] /\ Len(log) \in 1 .. Len(log)
    BY <1>1, CurrentSound, EmptySeq DEF Last
  <2> QED BY <1>1, <2>1 DEF Inv, FixedIntoFixed
<1>3. /\ part' = [part EXCEPT ![v] = part[u]] /\ vcycle' = vcycle
      /\ block' = RestoredPartInfo(u, v)
      /\ fixedVertices' = IF IsFixed(u) /\ IsFixed(v) THEN fixedVertices \cup {v} ELSE fixedVertices
      /\ part \in Partition
      /\ \A x \in hg.nodes : part[x] # NoBlock
  BY DEF Uncontract, InheritedPart, Inv, PartitionTypeOK, AssignmentComplete, AllAssigned, Assigned
<1> HIDE DEF u, v
<1>4. /\ u \in hg'.nodes /\ v \in hg'.nodes /\ u # v /\ hg.nodes = hg'.nodes \ {v}
      /\ hg'.weight[v] \in Int /\ hg'.weight[v] = hg.weight[v]
      /\ hg'.nodes \in SUBSET Hypernode
  BY <1>1 DEF Merges, Sound
<1>5. /\ u \in Hypernode /\ v \in Hypernode /\ part[u] \in Block
      /\ part'[v] = part[u] /\ \A x \in Hypernode \ {v} : part'[x] = part[x]
  BY <1>3, <1>4 DEF Partition
<1>6. block \in [Block -> PartInfo] /\ InfoExact(hg, part, block, fixedVertices, vcycle)
  BY DEF Inv, PartitionTypeOK
<1>7. ASSUME NEW b \in Block
      PROVE  /\ block[b] \in PartInfo
             /\ block'[b] = [block[b] EXCEPT
                               !.size = IF b = part[u] THEN @ + 1 ELSE @,
                               !.fixedWeight = IF b = FixedPart[u] /\ ~ IsFixed(v) THEN @ - hg.weight[v] ELSE @]
  BY <1>3, <1>6 DEF RestoredPartInfo
<1>8. ASSUME NEW b \in Block
      PROVE  /\ block'[b].weight = block[b].weight
             /\ block'[b].size = IF b = part[u] THEN block[b].size + 1 ELSE block[b].size
             /\ block'[b].fixedWeight = IF b = FixedPart[u] /\ ~ IsFixed(v)
                                        THEN block[b].fixedWeight - hg.weight[v] ELSE block[b].fixedWeight
             /\ block'[b] \in PartInfo
  <2> DEFINE n == IF b = part[u] THEN block[b].size + 1 ELSE block[b].size
             w == IF b = FixedPart[u] /\ ~ IsFixed(v) THEN block[b].fixedWeight - hg.weight[v]
                                                      ELSE block[b].fixedWeight
  <2>1. block'[b] = [block[b] EXCEPT !.size = n, !.fixedWeight = w] /\ block[b] \in PartInfo
    BY <1>7
  <2>2. n \in Int /\ w \in Int
    BY <1>4, <2>1 DEF PartInfo
  <2> HIDE DEF n, w
  <2>3. block'[b].weight = block[b].weight /\ block'[b].size = n /\ block'[b].fixedWeight = w /\ block'[b] \in PartInfo
    BY <2>1, <2>2 DEF PartInfo
  <2> QED BY <2>3 DEF n, w
<1>9. ASSUME NEW b \in Block
      PROVE  /\ In(hg'.nodes, part', b) = IF b = part[u] THEN In(hg.nodes, part, b) \cup {v}
                                                         ELSE In(hg.nodes, part, b)
             /\ In(hg'.nodes, part', b) \in SUBSET hg'.nodes
             /\ v \notin In(hg.nodes, part, b)
             /\ u \in In(hg'.nodes, part', b) <=> b = part[u]
  BY <1>4, <1>5 DEF In
<1>10. ASSUME NEW b \in Block PROVE block'[b].weight = WeightOf(hg', In(hg'.nodes, part', b))
  <2> DEFINE N == In(hg'.nodes, part', b)
  <2>1. block'[b].weight = WeightOf(hg, In(hg.nodes, part, b))
    BY <1>6, <1>8 DEF InfoExact
  <2>2. In(hg.nodes, part, b) = N \ {v} /\ (b = part[u] => v \in N) /\ (b # part[u] => In(hg.nodes, part, b) = N)
    BY <1>9
  <2>3. N \in SUBSET hg'.nodes /\ (u \in N <=> b = part[u])
    BY <1>9
  <2> HIDE DEF N
  <2>4. CASE b = part[u]
    <3>1. WeightOf(hg, N \ {v}) = WeightOf(hg', N)
      BY <1>1, <2>2, <2>3, <2>4, MergedWeight
    <3> QED BY <2>1, <2>2, <3>1 DEF N
  <2>5. CASE b # part[u]
    <3>1. u \notin N /\ N \in SUBSET hg'.nodes
      BY <2>3, <2>5
    <3>2. WeightOf(hg, N) = WeightOf(hg', N)
      <4>1. Merges(hg', u, v, hg)
        BY <1>1
      <4> QED BY <3>1, <4>1, ApartWeight
    <3> QED BY <2>1, <2>2, <2>5, <3>2 DEF N
  <2> QED BY <2>4, <2>5
<1>11. ASSUME NEW b \in Block PROVE block'[b].fixedWeight = WeightOf(hg', In(hg'.nodes, FixedPart, b))
  <2> DEFINE F == In(hg'.nodes, FixedPart, b)
  <2>1. block[b].fixedWeight = WeightOf(hg, In(hg.nodes, FixedPart, b))
    BY <1>6 DEF InfoExact
  <2>2. /\ In(hg.nodes, FixedPart, b) = F \ {v} /\ F \in SUBSET hg'.nodes
        /\ (u \in F <=> FixedPart[u] = b) /\ (v \in F <=> FixedPart[v] = b)
        /\ v \in F => IsFixed(v) /\ u \in F
        /\ u \in F /\ v \notin F => ~ IsFixed(v)
    BY <1>2, <1>4, BlockAssumption DEF In, IsFixed
  <2>3. F \in SUBSET Hypernode /\ Sound(hg')
    BY <1>1, <1>4, <2>2 DEF Merges
  <2> HIDE DEF F
  <2>4. WeightOf(hg', F) \in Int
    BY <2>3, WeightType
  <2>5. v \notin F => F \ {v} = F
    OBVIOUS
  <2>6. CASE v \in F
    BY <1>1, <1>8, <2>1, <2>2, <2>6, MergedWeight DEF F
  <2>7. CASE v \notin F /\ u \in F
    <3>1. block[b].fixedWeight = WeightOf(hg', F) + hg'.weight[v]
      <4>1. WeightOf(hg, F) = WeightOf(hg', F) + hg'.weight[v]
        BY <1>1, <2>2, <2>7, MergedWeight
      <4> QED BY <2>1, <2>2, <2>5, <2>7, <4>1
    <3>2. block'[b].fixedWeight = block[b].fixedWeight - hg.weight[v]
      BY <1>8, <2>2, <2>7
    <3> QED BY <1>4, <2>4, <3>1, <3>2 DEF F
  <2>8. CASE v \notin F /\ u \notin F
    <3>1. WeightOf(hg, F) = WeightOf(hg', F)
      BY <1>1, <2>2, <2>8, MergedWeight
    <3>2. block'[b].fixedWeight = block[b].fixedWeight
      BY <1>8, <2>2, <2>8
    <3> QED BY <2>1, <2>2, <2>5, <2>8, <3>1, <3>2 DEF F
  <2> QED BY <2>6, <2>7, <2>8
<1>12. ASSUME NEW b \in Block, vcycle = 0 PROVE block'[b].size = Cardinality(In(hg'.nodes, part', b))
  <2>1. block[b].size = Cardinality(In(hg.nodes, part, b))
    BY <1>6, <1>12 DEF InfoExact
  <2>2. IsFiniteSet(In(hg.nodes, part, b))
    BY <1>4, FinitePins
  <2>3. Cardinality(In(hg.nodes, part, b) \cup {v}) = Cardinality(In(hg.nodes, part, b)) + 1
    BY <1>9, <2>2, FS_AddElement
  <2> QED BY <1>8, <1>9, <2>1, <2>3
<1>13. fixedVertices' = {x \in hg'.nodes : IsFixed(x)}
  <2>1. fixedVertices = {x \in hg.nodes : IsFixed(x)}
    BY <1>6 DEF InfoExact
  <2>2. IsFixed(v) => IsFixed(u)
    BY <1>2 DEF IsFixed
  <2> QED BY <1>3, <1>4, <2>1, <2>2
<1>14. InfoTyped'
  <2>1. block' = [b \in Block |-> block'[b]]
    BY <1>3 DEF RestoredPartInfo
  <2> QED BY <1>8, <2>1 DEF InfoTyped
<1>15. InfoExact(hg', part', block', fixedVertices', vcycle')
  BY <1>3, <1>10, <1>11, <1>12, <1>13 DEF InfoExact
<1> QED BY <1>14, <1>15 DEF InfoKept

\* An assignment adds a hypernode and its weight to a block.
LEMMA SetNodePartInfo ==
  ASSUME P!UndoChain, Inv, NEW v \in Hypernode, NEW b \in Block, SetNodePart(v, b)
  PROVE  InfoKept'
<1>1. /\ v \in hg.nodes /\ part[v] = NoBlock /\ part' = [part EXCEPT ![v] = b] /\ part \in Partition
      /\ block' = [block EXCEPT ![b].weight = @ + hg.weight[v], ![b].size = @ + 1]
      /\ UNCHANGED <<hg, vcycle, fixedVertices>>
      /\ block \in [Block -> PartInfo] /\ InfoExact(hg, part, block, fixedVertices, vcycle)
  BY DEF SetNodePart, Assigned, Inv, PartitionTypeOK
<1>2. Sound(hg) /\ hg.nodes \in SUBSET Hypernode /\ hg.weight[v] \in Int
  BY <1>1, CurrentSound DEF Sound
<1> DEFINE w == block[b].weight + hg.weight[v]
           n == block[b].size + 1
<1>3. block[b] \in PartInfo /\ w \in Int /\ n \in Int /\ block'[b] = [block[b] EXCEPT !.weight = w, !.size = n]
  BY <1>1, <1>2 DEF PartInfo
<1>4. \A d \in Block \ {b} : block'[d] = block[d]
  BY <1>1
<1> HIDE DEF w, n
<1>5. /\ block'[b].weight = w /\ block'[b].size = n /\ block'[b].fixedWeight = block[b].fixedWeight
      /\ block'[b] \in PartInfo
  BY <1>3 DEF PartInfo
<1>6. /\ In(hg.nodes, part', b) = In(hg.nodes, part, b) \cup {v} /\ v \notin In(hg.nodes, part, b)
      /\ \A d \in Block \ {b} : In(hg.nodes, part', d) = In(hg.nodes, part, d)
      /\ In(hg.nodes, part, b) \in SUBSET Hypernode
  BY <1>1, <1>2, BlockAssumption DEF In, Partition
<1>7. block'[b].weight = WeightOf(hg, In(hg.nodes, part', b))
  <2>1. WeightOf(hg, In(hg.nodes, part, b) \cup {v}) = WeightOf(hg, In(hg.nodes, part, b)) + hg.weight[v]
    BY <1>2, <1>6, WeightAdd
  <2> QED BY <1>1, <1>5, <1>6, <2>1 DEF InfoExact, w
<1>8. vcycle = 0 => block'[b].size = Cardinality(In(hg.nodes, part', b))
  <2>1. Cardinality(In(hg.nodes, part, b) \cup {v}) = Cardinality(In(hg.nodes, part, b)) + 1
    BY <1>2, <1>6, FinitePins, FS_AddElement
  <2> QED BY <1>1, <1>5, <1>6, <2>1 DEF InfoExact, n
<1>9. InfoExact(hg, part', block', fixedVertices, vcycle)
  BY <1>1, <1>4, <1>5, <1>6, <1>7, <1>8 DEF InfoExact
<1>10. InfoTyped'
  BY <1>1, <1>4, <1>5 DEF InfoTyped
<1> QED BY <1>1, <1>9, <1>10 DEF InfoKept

\* After a reset all blocks are empty and weigh nothing.
LEMMA ResetPartitioningInfo ==
  ASSUME P!UndoChain, Inv, ResetPartitioning
  PROVE  InfoKept'
<1>1. /\ part' = [v \in Hypernode |-> NoBlock]
      /\ block' = [b \in Block |-> [weight |-> 0, size |-> 0, fixedWeight |-> FixedWeight(b)]]
      /\ UNCHANGED <<hg, vcycle, fixedVertices>>
      /\ InfoExact(hg, part, block, fixedVertices, vcycle) /\ block \in [Block -> PartInfo]
  BY DEF ResetPartitioning, Inv, PartitionTypeOK
<1>2. Sound(hg) /\ hg.nodes \in SUBSET Hypernode
  BY CurrentSound DEF Sound
<1>3. ASSUME NEW b \in Block
      PROVE  /\ In(hg.nodes, part', b) = {}
             /\ FixedWeight(b) = WeightOf(hg, In(hg.nodes, FixedPart, b))
             /\ FixedWeight(b) \in Int
  <2>1. In(hg.nodes, part', b) = {}
    BY <1>1, <1>2, BlockAssumption DEF In
  <2>2. {v \in fixedVertices : FixedPart[v] = b} = In(hg.nodes, FixedPart, b)
    BY <1>1, BlockAssumption DEF InfoExact, In, IsFixed
  <2>3. In(hg.nodes, FixedPart, b) \in SUBSET Hypernode
    BY <1>2 DEF In
  <2> QED BY <1>2, <2>1, <2>2, <2>3, WeightType DEF FixedWeight
<1>4. WeightOf(hg, {}) = 0 /\ Cardinality({}) = 0
  BY FS_EmptySet, TotalStep, WeightIsTotal
<1>5. InfoTyped'
  BY <1>1, <1>3 DEF InfoTyped, PartInfo
<1>6. InfoExact(hg, part', block', fixedVertices, vcycle)
  BY <1>1, <1>3, <1>4 DEF InfoExact
<1> QED BY <1>1, <1>5, <1>6 DEF InfoKept

\* A move takes a hypernode and its weight from one block to another.
LEMMA ChangeNodePartInfo ==
  ASSUME P!UndoChain, Inv, NEW v \in Hypernode, NEW to \in Block, ChangeNodePart(v, to)
  PROVE  InfoKept'
<1> DEFINE from == part[v]
<1>1. /\ v \in hg.nodes /\ to # from /\ part' = [part EXCEPT ![v] = to] /\ part \in Partition
      /\ block' = UpdatedPartInfo(v, from, to)
      /\ UNCHANGED <<hg, vcycle, fixedVertices>>
      /\ block \in [Block -> PartInfo] /\ InfoExact(hg, part, block, fixedVertices, vcycle)
      /\ from # NoBlock
  BY DEF ChangeNodePart, Inv, PartitionTypeOK, AssignmentComplete, AllAssigned, Assigned
<1>2. /\ Sound(hg) /\ hg.nodes \in SUBSET Hypernode /\ hg.weight[v] \in Int
      /\ from \in Block /\ part'[v] = to /\ \A x \in Hypernode \ {v} : part'[x] = part[x]
  BY <1>1, CurrentSound DEF Sound, Partition
<1> HIDE DEF from
<1>3. block[from] \in PartInfo /\ block[to] \in PartInfo
  BY <1>1, <1>2
<1> DEFINE wf == block[from].weight - hg.weight[v]
           nf == block[from].size - 1
           wt == block[to].weight + hg.weight[v]
           nt == block[to].size + 1
<1>4. wf \in Int /\ nf \in Int /\ wt \in Int /\ nt \in Int
  BY <1>2, <1>3 DEF PartInfo
<1>5. /\ block'[from] = [block[from] EXCEPT !.weight = wf, !.size = nf]
      /\ block'[to] = [block[to] EXCEPT !.weight = wt, !.size = nt]
      /\ \A d \in Block \ {from, to} : block'[d] = block[d]
      /\ block' = [d \in Block |-> block'[d]]
  BY <1>1, <1>2, <1>3 DEF UpdatedPartInfo, PartInfo
<1> HIDE DEF wf, nf, wt, nt
<1>6. /\ block'[from].weight = wf /\ block'[from].size = nf
      /\ block'[from].fixedWeight = block[from].fixedWeight /\ block'[from] \in PartInfo
  BY <1>3, <1>4, <1>5 DEF PartInfo
<1>7. /\ block'[to].weight = wt /\ block'[to].size = nt
      /\ block'[to].fixedWeight = block[to].fixedWeight /\ block'[to] \in PartInfo
  BY <1>3, <1>4, <1>5 DEF PartInfo
<1>8. /\ In(hg.nodes, part', from) = In(hg.nodes, part, from) \ {v} /\ v \in In(hg.nodes, part, from)
      /\ In(hg.nodes, part', to) = In(hg.nodes, part, to) \cup {v} /\ v \notin In(hg.nodes, part, to)
      /\ \A d \in Block \ {from, to} : In(hg.nodes, part', d) = In(hg.nodes, part, d)
      /\ \A d \in Block : In(hg.nodes, part, d) \in SUBSET Hypernode
  BY <1>1, <1>2 DEF In, from
<1>9. block'[from].weight = WeightOf(hg, In(hg.nodes, part', from))
  <2>1. WeightOf(hg, In(hg.nodes, part, from) \ {v}) = WeightOf(hg, In(hg.nodes, part, from)) - hg.weight[v]
    BY <1>2, <1>8, WeightRemove
  <2> QED BY <1>1, <1>2, <1>6, <1>8, <2>1 DEF InfoExact, wf
<1>10. block'[to].weight = WeightOf(hg, In(hg.nodes, part', to))
  <2>1. WeightOf(hg, In(hg.nodes, part, to) \cup {v}) = WeightOf(hg, In(hg.nodes, part, to)) + hg.weight[v]
    BY <1>2, <1>8, WeightAdd
  <2> QED BY <1>1, <1>7, <1>8, <2>1 DEF InfoExact, wt
<1>11. vcycle = 0 => block'[from].size = Cardinality(In(hg.nodes, part', from))
  <2>1. Cardinality(In(hg.nodes, part, from) \ {v}) = Cardinality(In(hg.nodes, part, from)) - 1
    BY <1>2, <1>8, FinitePins, FS_RemoveElement
  <2> QED BY <1>1, <1>2, <1>6, <1>8, <2>1 DEF InfoExact, nf
<1>12. vcycle = 0 => block'[to].size = Cardinality(In(hg.nodes, part', to))
  <2>1. Cardinality(In(hg.nodes, part, to) \cup {v}) = Cardinality(In(hg.nodes, part, to)) + 1
    BY <1>2, <1>8, FinitePins, FS_AddElement
  <2> QED BY <1>1, <1>7, <1>8, <2>1 DEF InfoExact, nt
<1>13. InfoExact(hg, part', block', fixedVertices, vcycle)
  <2>1. ASSUME NEW d \in Block
        PROVE  /\ block'[d].weight = WeightOf(hg, In(hg.nodes, part', d))
               /\ block'[d].fixedWeight = WeightOf(hg, In(hg.nodes, FixedPart, d))
               /\ vcycle = 0 => block'[d].size = Cardinality(In(hg.nodes, part', d))
    <3>1. CASE d = from
      BY <1>1, <1>2, <1>6, <1>9, <1>11, <3>1 DEF InfoExact
    <3>2. CASE d = to
      BY <1>1, <1>2, <1>7, <1>10, <1>12, <3>2 DEF InfoExact
    <3>3. CASE d \notin {from, to}
      BY <1>1, <1>5, <1>8, <3>3 DEF InfoExact
    <3> QED BY <3>1, <3>2, <3>3
  <2> QED BY <1>1, <2>1 DEF InfoExact
<1>14. InfoTyped'
  <2>1. \A d \in Block : block'[d] \in PartInfo
    BY <1>1, <1>5, <1>6, <1>7
  <2> QED BY <1>5, <2>1 DEF InfoTyped
<1> QED BY <1>1, <1>13, <1>14 DEF InfoKept

\* Removing and restoring nets, counting cut nets and beginning a V-cycle
\* leave the blocks alone.
LEMMA OtherInfo ==
  ASSUME Inv, UNCHANGED <<part, block, fixedVertices>>, hg'.nodes = hg.nodes, hg'.weight = hg.weight,
         vcycle' = vcycle \/ vcycle' # 0
  PROVE  InfoKept'
<1>1. \A N : WeightOf(hg', N) = WeightOf(hg, N)
  BY WeightIsTotal
<1>2. InfoExact(hg, part, block, fixedVertices, vcycle) /\ block \in [Block -> PartInfo]
  BY DEF Inv, PartitionTypeOK
<1>3. InfoExact(hg', part', block', fixedVertices', vcycle')
  BY <1>1, <1>2 DEF InfoExact
<1> QED BY <1>2, <1>3 DEF InfoKept, InfoTyped
-----------------------------------------------------------------------------
(* The numbers of cut nets at the hypernodes, which the hypergraph only      *)
(* adjusts by what an operation seems to have changed, and with them the     *)
(* theorem that all data about the partition is exact: Inv is inductive.     *)

\* The cut nets among E.
Cut(np, E) == {e \in E : np[e].connectivity > 1}

\* CutNetsExact and ContractedCountNothing of structure s.
CutExact(s, np, cut) ==
  /\ \A v \in s.nodes : cut[v] = Cardinality(Cut(np, s.nets[v]))
  /\ \A v \in Hypernode \ s.nodes : cut[v] = 0

CutKept == /\ cutNets \in [Hypernode -> Int]
           /\ phase = "refining" => CutExact(hg, netPart, cutNets)

\* What the invariants say of the numbers of cut nets, in the terms of
\* CutKept.
LEMMA CutMeans ==
  /\ CutKept <=> cutNets \in [Hypernode -> Int] /\ CutNetsExact /\ ContractedCountNothing
  /\ Inv => CutKept
<1>1. CutKept <=> cutNets \in [Hypernode -> Int] /\ CutNetsExact /\ ContractedCountNothing
  BY DEF CutKept, CutExact, CutNetsExact, ContractedCountNothing, Cut
<1> QED BY <1>1 DEF Inv, PartitionTypeOK

\* Nets are finitely many.
LEMMA FiniteNets ==
  ASSUME NEW E \in SUBSET Hyperedge
  PROVE  IsFiniteSet(E) /\ Cardinality(E) \in Nat
BY IncidenceAssumption, FS_Subset, FS_CardinalityType

\* Adding nets to others, none of them counted twice.
LEMMA CountUnion ==
  ASSUME NEW A \in SUBSET Hyperedge, NEW B \in SUBSET Hyperedge, A \cap B = {}
  PROVE  Cardinality(A \cup B) = Cardinality(A) + Cardinality(B)
<1>1. /\ IsFiniteSet(A) /\ Cardinality(A) \in Nat
      /\ IsFiniteSet(B) /\ Cardinality(B) \in Nat
  BY FiniteNets
<1>2. Cardinality(A \cup B) = Cardinality(A) + Cardinality(B) - Cardinality(A \cap B)
  BY <1>1, FS_Union
<1>3. Cardinality(A \cap B) = 0
  BY FS_EmptySet
<1> QED BY <1>1, <1>2, <1>3

\* Replacing what becomes internal by what becomes cut.
LEMMA CountExchange ==
  ASSUME NEW A \in SUBSET Hyperedge, NEW B \in SUBSET Hyperedge
  PROVE  Cardinality(B) = Cardinality(A) + Cardinality(B \ A) - Cardinality(A \ B)
<1>1. A = (A \cap B) \cup (A \ B) /\ B = (A \cap B) \cup (B \ A)
  OBVIOUS
<1>2. Cardinality((A \cap B) \cup (A \ B)) = Cardinality(A \cap B) + Cardinality(A \ B)
  <2>1. (A \cap B) \cap (A \ B) = {} /\ A \cap B \in SUBSET Hyperedge /\ A \ B \in SUBSET Hyperedge
    OBVIOUS
  <2> QED BY <2>1, CountUnion
<1>3. Cardinality((A \cap B) \cup (B \ A)) = Cardinality(A \cap B) + Cardinality(B \ A)
  <2>1. (A \cap B) \cap (B \ A) = {} /\ A \cap B \in SUBSET Hyperedge /\ B \ A \in SUBSET Hyperedge
    OBVIOUS
  <2> QED BY <2>1, CountUnion
<1>4. /\ Cardinality(A \cap B) \in Nat /\ Cardinality(A \ B) \in Nat /\ Cardinality(B \ A) \in Nat
  <2>1. A \cap B \in SUBSET Hyperedge /\ A \ B \in SUBSET Hyperedge /\ B \ A \in SUBSET Hyperedge
    OBVIOUS
  <2> QED BY <2>1, FiniteNets
<1>5. Cardinality(A) = Cardinality(A \cap B) + Cardinality(A \ B)
  BY <1>1, <1>2
<1>6. Cardinality(B) = Cardinality(A \cap B) + Cardinality(B \ A)
  BY <1>1, <1>3
<1> QED BY <1>4, <1>5, <1>6

\* The cut nets of a hypernode can be counted.
LEMMA CutNetsFinite ==
  ASSUME NEW s, Sound(s), NEW np, NEW v \in Hypernode
  PROVE  Cut(np, s.nets[v]) \in SUBSET Hyperedge /\ Cardinality(Cut(np, s.nets[v])) \in Nat
<1>1. Cut(np, s.nets[v]) \in SUBSET Hyperedge
  BY DEF Cut, Sound
<1> QED BY <1>1, FiniteNets
-----------------------------------------------------------------------------
\* A net with exact data is internal if and only if its pins are in one block.
OneBlock(S, f) == \A x, y \in S : f[x] = f[y]

\* A net with exact data is cut when its pins are not in one block.
LEMMA InternalMeans ==
  ASSUME NEW c, NEW S, NEW f, \A x \in S : f[x] \in Block, Exact(c, S, f)
  PROVE  /\ c.connectivity \in Nat
         /\ c.connectivity > 1 <=> ~ OneBlock(S, f)
<1>1. c.blocks \in SUBSET Block /\ \A b \in Block : b \in c.blocks <=> \E x \in S : f[x] = b
  BY DEF Exact, In
<1>2. IsFiniteSet(c.blocks) /\ Cardinality(c.blocks) \in Nat /\ c.connectivity = Cardinality(c.blocks)
  BY <1>1, FiniteBlocks DEF Exact
<1>3. CASE OneBlock(S, f)
  <2>1. CASE c.blocks = {}
    BY <1>2, <1>3, <2>1, FS_EmptySet
  <2>2. CASE c.blocks # {}
    <3>1. PICK b : b \in c.blocks
      BY <2>2
    <3>2. c.blocks = {b}
      BY <1>1, <1>3, <3>1 DEF OneBlock
    <3>3. Cardinality(c.blocks) = 1
      BY <3>2, FS_Singleton
    <3> QED BY <1>2, <1>3, <3>3
  <2> QED BY <2>1, <2>2
<1>4. CASE ~ OneBlock(S, f)
  <2>1. PICK x \in S, y \in S : f[x] # f[y]
    BY <1>4 DEF OneBlock
  <2>2. {f[x], f[y]} \in SUBSET c.blocks
    BY <1>1, <2>1
  <2>3. Cardinality({f[x]} \cup {f[y]}) = Cardinality({f[x]}) + 1
    BY <2>1, FS_Singleton, FS_AddElement
  <2>4. Cardinality({f[x]}) = 1 /\ {f[x]} \cup {f[y]} = {f[x], f[y]}
    BY FS_Singleton
  <2>5. Cardinality({f[x], f[y]}) <= Cardinality(c.blocks)
    BY <1>2, <2>2, FS_Subset
  <2> QED BY <1>2, <1>4, <2>3, <2>4, <2>5
<1> QED BY <1>3, <1>4

\* h is partition f of the pins S after pin v has moved to another block.
OneMove(S, f, h, v, to) ==
  /\ v \in S
  /\ \A x \in S : f[x] \in Block
  /\ to # f[v] /\ h[v] = to
  /\ \A x \in S \ {v} : h[x] = f[x]

\* changeNodePart reads off two pin counts whether a net was and is internal.
LEMMA TwoCountsSuffice ==
  ASSUME NEW S \in SUBSET Hypernode, NEW f, NEW h, NEW v, NEW to \in Block,
         OneMove(S, f, h, v, to), NEW c, Exact(c, S, h)
  PROVE  /\ c.count[f[v]] = 0 /\ c.count[to] # 1 /\ c.count[to] = Cardinality(S)
              <=> OneBlock(S, h) /\ ~ OneBlock(S, f)
         /\ c.count[f[v]] # 0 /\ c.count[to] = 1 /\ c.count[f[v]] = Cardinality(S) - 1
              <=> OneBlock(S, f) /\ ~ OneBlock(S, h)
<1> DEFINE F == In(S, h, f[v])
           T == In(S, h, to)
<1> USE DEF OneMove
<1>1. IsFiniteSet(S) /\ Cardinality(S) \in Nat
  BY FinitePins
<1>2. /\ IsFiniteSet(S \ {v}) /\ Cardinality(S \ {v}) = Cardinality(S) - 1
  BY <1>1, FS_RemoveElement
<1>3. /\ c.count[f[v]] = Cardinality(F) /\ c.count[to] = Cardinality(T)
  BY DEF Exact
<1>4. /\ F \in SUBSET (S \ {v}) /\ T \in SUBSET S /\ v \in T
      /\ \A x \in S \ {v} : (x \in F <=> f[x] = f[v]) /\ (x \in T <=> f[x] = to)
  BY DEF In
<1>5. IsFiniteSet(F) /\ Cardinality(F) \in Nat /\ IsFiniteSet(T) /\ Cardinality(T) \in Nat
  BY FinitePins
<1>6. \A x \in S \ {v} : x \in S /\ h[x] = f[x]
  OBVIOUS
<1> HIDE DEF F, T
<1>7. c.count[f[v]] = 0 <=> F = {}
  BY <1>3, <1>5, FS_EmptySet
<1>8. c.count[to] = 1 <=> T = {v}
  BY <1>3, <1>4, <1>5, FS_Singleton
<1>9. c.count[to] = Cardinality(S) <=> T = S
  BY <1>1, <1>3, <1>4, FS_Subset
<1>10. c.count[f[v]] = Cardinality(S) - 1 <=> F = S \ {v}
  <2>1. Cardinality(S \ {v}) = Cardinality(F) => S \ {v} = F
    BY <1>2, <1>4, FS_Subset
  <2> QED BY <1>2, <1>3, <2>1
<1>11. OneBlock(S, f) <=> F = S \ {v}
  <2>1. OneBlock(S, f) <=> \A x \in S \ {v} : f[x] = f[v]
    BY DEF OneBlock
  <2> QED BY <1>4, <2>1
<1>12. OneBlock(S, h) <=> T = S
  <2>1. OneBlock(S, h) <=> \A x \in S \ {v} : f[x] = to
    BY <1>6 DEF OneBlock
  <2> QED BY <1>4, <2>1
<1>13. F = S \ {v} => (T = {v} /\ (F # {} <=> T # S))
  BY <1>4
<1>14. T = S => (F = {} /\ (T # {v} <=> F # S \ {v}))
  BY <1>4
<1> QED BY <1>7, <1>8, <1>9, <1>10, <1>11, <1>12, <1>13, <1>14
-----------------------------------------------------------------------------
\* The numbers of cut nets, operation by operation.  Before refinement they
\* mean nothing; initializeNumCutHyperedges counts them.
LEMMA InitializeCut ==
  ASSUME P!UndoChain, Inv, InitializeNumCutHyperedges
  PROVE  CutKept'
<1>1. /\ UNCHANGED <<hg, netPart>> /\ Sound(hg)
      /\ cutNets' = [v \in Hypernode |-> IF v \in hg.nodes THEN CutNetsOf(v) ELSE 0]
  BY CurrentSound DEF InitializeNumCutHyperedges, InitialCutNets
<1>2. hg.nodes \in SUBSET Hypernode
  BY <1>1 DEF Sound
<1>3. ASSUME NEW v \in hg.nodes PROVE CutNetsOf(v) = Cardinality(Cut(netPart, hg.nets[v])) /\ CutNetsOf(v) \in Nat
  <2>1. {e \in hg.edges : v \in hg.pins[e] /\ netPart[e].connectivity > 1} = Cut(netPart, hg.nets[v])
    <3>1. \A e \in Hyperedge : e \in hg.nets[v] <=> e \in hg.edges /\ v \in hg.pins[e]
      BY <1>1 DEF Sound
    <3>2. hg.edges \in SUBSET Hyperedge /\ hg.nets[v] \in SUBSET Hyperedge
      BY <1>1, <1>2 DEF Sound
    <3> QED BY <3>1, <3>2 DEF Cut
  <2>2. Cardinality(Cut(netPart, hg.nets[v])) \in Nat
    BY <1>1, <1>2, CutNetsFinite
  <2> QED BY <2>1, <2>2 DEF CutNetsOf
<1>4. cutNets' \in [Hypernode -> Int]
  BY <1>1, <1>3
<1>5. CutExact(hg, netPart, cutNets')
  BY <1>1, <1>2, <1>3 DEF CutExact
<1> QED BY <1>1, <1>4, <1>5 DEF CutKept

\* In uncontract no net becomes cut: the nets that v is put back into contain
\* u, hence a pin in the block of v.
LEMMA UncontractConnectivity ==
  ASSUME P!UndoChain, Inv, Uncontract, NEW e \in Hyperedge
  PROVE  netPart'[e].connectivity = netPart[e].connectivity
<1> DEFINE u == Last(log).u
           v == Last(log).v
<1>1. /\ Merges(hg', u, v, hg)
      /\ I!CutOffNets(hg, u, v) = hg'.nets[u] \cap hg'.nets[v]
  BY UncontractMerges DEF Uncontract
<1>2. /\ part \in Partition /\ netPart[e] \in NetPart
      /\ netPart' = [d \in Hyperedge |-> IF d \in I!CutOffNets(hg, u, v)
                                         THEN Incremented(netPart[d], part[u]) ELSE netPart[d]]
      /\ \A x \in hg.nodes : part[x] # NoBlock
  BY DEF Uncontract, Inv, PartitionTypeOK, AssignmentComplete, AllAssigned, Assigned
<1> HIDE DEF u, v
<1>3. CASE e \in hg'.nets[u] \cap hg'.nets[v]
  <2>1. e \in hg.edges /\ u \in hg.pins[e] /\ u \in hg.nodes /\ u \in Hypernode
        /\ hg.pins[e] \in SUBSET Hypernode
    BY <1>1, <1>3 DEF Merges, Sound
  <2>2. part[u] \in Block /\ u \in In(hg.pins[e], part, part[u])
    BY <1>2, <2>1 DEF Partition, In
  <2>3. Exact(netPart[e], hg.pins[e], part)
    BY <2>1 DEF Inv, NetsExact
  <2>4. netPart[e].count[part[u]] \in Nat \ {0}
    <3>1. /\ IsFiniteSet(In(hg.pins[e], part, part[u]))
          /\ Cardinality(In(hg.pins[e], part, part[u])) \in Nat
      BY <2>1, FinitePins
    <3>2. Cardinality(In(hg.pins[e], part, part[u])) # 0
      BY <2>2, <3>1, FS_EmptySet
    <3> QED BY <2>2, <2>3, <3>1, <3>2 DEF Exact
  <2>5. Incremented(netPart[e], part[u]).connectivity = netPart[e].connectivity
    BY <2>4 DEF Incremented
  <2> QED BY <1>1, <1>2, <1>3, <2>5
<1>4. CASE e \notin hg'.nets[u] \cap hg'.nets[v]
  BY <1>1, <1>2, <1>4
<1> QED BY <1>3, <1>4

\* Of the cut nets of u, v takes over those that it had not shared with u.
LEMMA UncontractCut ==
  ASSUME P!UndoChain, Inv, Uncontract
  PROVE  CutKept'
<1> DEFINE u == Last(log).u
           v == Last(log).v
           shared == hg'.nets[u] \cap hg'.nets[v]
           own == hg'.nets[v] \ hg'.nets[u]
           counted == [e \in Hyperedge |-> IF e \in I!CutOffNets(hg, u, v)
                                           THEN Incremented(netPart[e], part[u]) ELSE netPart[e]]
           cut(E) == Cardinality(Cut(netPart, E))
<1>1. /\ Merges(hg', u, v, hg)
      /\ I!CutOffNets(hg, u, v) = shared
      /\ I!ReusedNets(hg, u, v) = own
  BY UncontractMerges DEF Uncontract
<1>2. /\ phase = "refining" /\ netPart' = counted
      /\ CutExact(hg, netPart, cutNets) /\ cutNets \in [Hypernode -> Int]
  BY CutMeans DEF Uncontract, CutKept
<1>3. cutNets' = [cutNets EXCEPT ![u] = @ - Cardinality(Cut(counted, own)),
                                 ![v] = @ + Cardinality(Cut(counted, shared)) + Cardinality(Cut(counted, own))]
  BY <1>1 DEF Uncontract, Cut
<1> HIDE DEF u, v, counted
<1>4. /\ Sound(hg) /\ Sound(hg') /\ u \in hg'.nodes /\ v \in hg'.nodes /\ u # v
      /\ hg'.nodes \in SUBSET Hypernode /\ hg.nodes = hg'.nodes \ {v}
      /\ hg'.nets \in [Hypernode -> SUBSET Hyperedge]
      /\ hg.nets = [hg'.nets EXCEPT ![u] = @ \cup hg'.nets[v]]
  BY <1>1 DEF Merges, Sound
<1>5. ASSUME NEW E \in SUBSET Hyperedge
      PROVE  Cut(netPart', E) = Cut(netPart, E) /\ Cut(netPart, E) \in SUBSET Hyperedge
  BY UncontractConnectivity DEF Cut
<1>6. u \in Hypernode /\ v \in Hypernode /\ shared \in SUBSET Hyperedge /\ own \in SUBSET Hyperedge
      /\ hg'.nets[u] \in SUBSET Hyperedge /\ hg'.nets[v] \in SUBSET Hyperedge
  BY <1>4
<1>7. Cut(counted, own) = Cut(netPart, own) /\ Cut(counted, shared) = Cut(netPart, shared)
  BY <1>2, <1>5, <1>6
<1>8. cutNets' = [cutNets EXCEPT ![u] = @ - cut(own), ![v] = @ + cut(shared) + cut(own)]
  BY <1>3, <1>7
<1>9. cut(own) \in Nat /\ cut(shared) \in Nat
  BY <1>5, <1>6, FiniteNets
<1>10. cutNets'[u] = cut(hg'.nets[u])
  <2>1. cutNets[u] = cut(hg'.nets[u] \cup own)
    <3>1. hg.nets[u] = hg'.nets[u] \cup own /\ u \in hg.nodes
      BY <1>4, <1>6
    <3> QED BY <1>2, <3>1 DEF CutExact
  <2>2. /\ Cut(netPart, hg'.nets[u] \cup own) = Cut(netPart, hg'.nets[u]) \cup Cut(netPart, own)
        /\ Cut(netPart, hg'.nets[u]) \cap Cut(netPart, own) = {}
    BY DEF Cut
  <2>3. /\ Cut(netPart, hg'.nets[u]) \in SUBSET Hyperedge /\ Cut(netPart, own) \in SUBSET Hyperedge
    BY <1>5, <1>6
  <2>4. Cardinality(Cut(netPart, hg'.nets[u]) \cup Cut(netPart, own)) = cut(hg'.nets[u]) + cut(own)
    BY <2>2, <2>3, CountUnion
  <2>5. cutNets[u] = cut(hg'.nets[u]) + cut(own)
    BY <2>1, <2>2, <2>4
  <2>6. cut(hg'.nets[u]) \in Nat
    BY <2>3, FiniteNets
  <2>7. cutNets'[u] = cutNets[u] - cut(own)
    <3> HIDE DEF cut, own, shared
    <3> QED BY <1>2, <1>4, <1>6, <1>8
  <2> HIDE DEF cut, own, shared
  <2> QED BY <1>9, <2>5, <2>6, <2>7
<1>11. cutNets'[v] = cut(hg'.nets[v])
  <2>1. cutNets[v] = 0
    BY <1>2, <1>4, <1>6 DEF CutExact
  <2>2. /\ Cut(netPart, hg'.nets[v]) = Cut(netPart, shared) \cup Cut(netPart, own)
        /\ Cut(netPart, shared) \cap Cut(netPart, own) = {}
    BY DEF Cut
  <2>3. Cut(netPart, shared) \in SUBSET Hyperedge /\ Cut(netPart, own) \in SUBSET Hyperedge
    BY <1>5, <1>6
  <2>4. cut(hg'.nets[v]) = cut(shared) + cut(own)
    BY <2>2, <2>3, CountUnion
  <2>5. cutNets'[v] = cutNets[v] + cut(shared) + cut(own)
    <3> HIDE DEF cut, own, shared
    <3> QED BY <1>2, <1>4, <1>6, <1>8
  <2> HIDE DEF cut, own, shared
  <2> QED BY <1>9, <2>1, <2>4, <2>5
<1>12. ASSUME NEW x \in Hypernode \ {u, v} PROVE cutNets'[x] = cutNets[x] /\ hg'.nets[x] = hg.nets[x]
  <2> HIDE DEF cut, own, shared
  <2> QED BY <1>2, <1>4, <1>8
<1>13. CutExact(hg', netPart', cutNets')
  <2>1. ASSUME NEW x \in hg'.nodes PROVE cutNets'[x] = Cardinality(Cut(netPart', hg'.nets[x]))
    <3>1. x \in Hypernode /\ Cut(netPart', hg'.nets[x]) = Cut(netPart, hg'.nets[x])
      BY <1>4, <1>5
    <3>2. CASE x = u
      BY <1>10, <3>1, <3>2
    <3>3. CASE x = v
      BY <1>11, <3>1, <3>3
    <3>4. CASE x \notin {u, v}
      BY <1>2, <1>4, <1>12, <3>1, <3>4 DEF CutExact
    <3> QED BY <3>2, <3>3, <3>4
  <2>2. ASSUME NEW x \in Hypernode \ hg'.nodes PROVE cutNets'[x] = 0
    BY <1>2, <1>4, <1>12 DEF CutExact
  <2> QED BY <2>1, <2>2 DEF CutExact
<1>14. cutNets' \in [Hypernode -> Int]
  <2>1. cutNets[u] - cut(own) \in Int
    BY <1>2, <1>6, <1>9
  <2>2. cutNets[v] + cut(shared) + cut(own) \in Int
    BY <1>2, <1>6, <1>9
  <2>3. cutNets'= [x \in Hypernode |-> cutNets'[x]]
    BY <1>2, <1>8
  <2>4. \A x \in Hypernode : cutNets'[x] \in Int
    <3> HIDE DEF cut, own, shared
    <3> QED BY <1>2, <1>4, <1>6, <1>8, <1>12, <2>1, <2>2
  <2> QED BY <2>3, <2>4
<1> QED BY <1>13, <1>14 DEF CutKept

\* The nets of a hypernode once net e is restored.
LEMMA RestoredCut ==
  ASSUME NEW s, NEW t, NEW e, Drops(t, e, s), NEW np, NEW nq,
         \A d \in Hyperedge \ {e} : nq[d] = np[d],
         NEW v \in t.nodes
  PROVE  /\ Cut(nq, t.nets[v]) = IF v \in t.pins[e] /\ nq[e].connectivity > 1
                                 THEN Cut(np, s.nets[v]) \cup {e} ELSE Cut(np, s.nets[v])
         /\ e \notin Cut(np, s.nets[v])
<1>1. /\ Sound(s) /\ Sound(t) /\ v \in Hypernode /\ v \in s.nodes /\ e \in t.edges /\ e \notin s.edges
      /\ e \in Hyperedge
      /\ s.nets[v] = IF v \in t.pins[e] THEN t.nets[v] \ {e} ELSE t.nets[v]
  BY DEF Drops, Sound
<1>2. /\ e \in t.nets[v] <=> v \in t.pins[e]
      /\ e \notin s.nets[v]
      /\ t.nets[v] \in SUBSET Hyperedge /\ s.nets[v] \in SUBSET Hyperedge
  BY <1>1 DEF Sound
<1>3. s.nets[v] = t.nets[v] \ {e}
  BY <1>1, <1>2
<1> QED BY <1>2, <1>3 DEF Cut

\* A net with a single pin is not cut.
LEMMA RestoreEdgeCut ==
  ASSUME P!UndoChain, Inv, RestoreEdge
  PROVE  CutKept'
<1> DEFINE e == Last(log).e
<1>1. /\ Drops(hg', e, hg) /\ part' = part /\ Cardinality(hg.pins[e]) = 1
      /\ netPart' = [netPart EXCEPT ![e] = Recounted(e)] /\ cutNets' = cutNets
      /\ phase = "refining"
  BY RestoreDrops DEF RestoreEdge
<1>2. CutExact(hg, netPart, cutNets) /\ cutNets \in [Hypernode -> Int]
  BY <1>1, CutMeans DEF CutKept
<1> HIDE DEF e
<1>3. /\ e \in Hyperedge \ hg.edges /\ hg'.nodes = hg.nodes /\ hg'.pins = hg.pins
      /\ e \in hg'.edges /\ hg.pins[e] \in SUBSET hg.nodes /\ hg.nodes \in SUBSET Hypernode
  BY <1>1 DEF Drops, Sound
<1>4. netPart \in [Hyperedge -> NetPart] /\ part \in Partition /\ \A x \in hg.nodes : part[x] # NoBlock
  BY <1>1 DEF Inv, PartitionTypeOK, AssignmentComplete, AllAssigned, Assigned
<1>5. ~ netPart'[e].connectivity > 1
  <2>1. Exact(Recounted(e), hg.pins[e], part)
    BY <1>3, RecountedExact
  <2>2. \A x \in hg.pins[e] : part[x] \in Block
    BY <1>3, <1>4 DEF Partition
  <2>3. OneBlock(hg.pins[e], part)
    <3>1. IsFiniteSet(hg.pins[e])
      BY <1>3, FinitePins
    <3>2. PICK x : hg.pins[e] = {x}
      BY <1>1, <3>1, FS_Singleton
    <3> QED BY <3>2 DEF OneBlock
  <2>4. ~ Recounted(e).connectivity > 1
    BY <2>1, <2>2, <2>3, InternalMeans
  <2> QED BY <1>1, <1>3, <1>4, <2>4
<1>6. \A d \in Hyperedge \ {e} : netPart'[d] = netPart[d]
  BY <1>1, <1>4
<1>7. ASSUME NEW v \in hg'.nodes PROVE Cut(netPart', hg'.nets[v]) = Cut(netPart, hg.nets[v])
  <2>1. Drops(hg', e, hg)
    BY <1>1
  <2>2. Cut(netPart', hg'.nets[v]) = IF v \in hg'.pins[e] /\ netPart'[e].connectivity > 1
                                     THEN Cut(netPart, hg.nets[v]) \cup {e} ELSE Cut(netPart, hg.nets[v])
    BY <1>6, <2>1, RestoredCut
  <2> QED BY <1>5, <2>2
<1>8. CutExact(hg', netPart', cutNets')
  BY <1>1, <1>2, <1>3, <1>7 DEF CutExact
<1> QED BY <1>1, <1>2, <1>8 DEF CutKept

\* A net with the pins of another is cut if and only if the other is.
LEMMA RestoreParallelEdgeCut ==
  ASSUME P!UndoChain, Inv, NEW rep \in Hyperedge, RestoreParallelEdge(rep)
  PROVE  CutKept'
<1> DEFINE e == Last(log).e
<1>1. /\ Drops(hg', e, hg) /\ part' = part /\ rep \in hg.edges /\ hg.pins[rep] = hg.pins[e]
      /\ netPart' = [netPart EXCEPT ![e] = Recounted(e)]
      /\ cutNets' = [v \in Hypernode |-> IF v \in hg.pins[e] /\ netPart[rep].connectivity > 1
                                         THEN cutNets[v] + 1 ELSE cutNets[v]]
      /\ phase = "refining"
  BY RestoreDrops DEF RestoreParallelEdge, Parallel
<1>2. CutExact(hg, netPart, cutNets) /\ cutNets \in [Hypernode -> Int]
  BY <1>1, CutMeans DEF CutKept
<1> HIDE DEF e
<1>3. /\ e \in Hyperedge \ hg.edges /\ hg'.nodes = hg.nodes /\ hg'.pins = hg.pins /\ Sound(hg)
      /\ e \in hg'.edges /\ hg.pins[e] \in SUBSET hg.nodes /\ hg.nodes \in SUBSET Hypernode
  BY <1>1 DEF Drops, Sound
<1>4. netPart \in [Hyperedge -> NetPart] /\ part \in Partition /\ \A x \in hg.nodes : part[x] # NoBlock
  BY <1>1 DEF Inv, PartitionTypeOK, AssignmentComplete, AllAssigned, Assigned
<1>5. netPart'[e].connectivity > 1 <=> netPart[rep].connectivity > 1
  <2>1. Exact(Recounted(e), hg.pins[e], part) /\ Exact(netPart[rep], hg.pins[e], part)
    BY <1>1, <1>3, RecountedExact DEF Inv, NetsExact
  <2>2. \A x \in hg.pins[e] : part[x] \in Block
    BY <1>3, <1>4 DEF Partition
  <2>3. Recounted(e).connectivity > 1 <=> netPart[rep].connectivity > 1
    BY <2>1, <2>2, InternalMeans
  <2> QED BY <1>1, <1>3, <1>4, <2>3
<1>6. \A d \in Hyperedge \ {e} : netPart'[d] = netPart[d]
  BY <1>1, <1>4
<1>7. ASSUME NEW v \in hg'.nodes PROVE cutNets'[v] = Cardinality(Cut(netPart', hg'.nets[v]))
  <2>1. Drops(hg', e, hg)
    BY <1>1
  <2>2. /\ Cut(netPart', hg'.nets[v]) = IF v \in hg'.pins[e] /\ netPart'[e].connectivity > 1
                                        THEN Cut(netPart, hg.nets[v]) \cup {e} ELSE Cut(netPart, hg.nets[v])
        /\ e \notin Cut(netPart, hg.nets[v])
    BY <1>6, <2>1, RestoredCut
  <2>3. IsFiniteSet(Cut(netPart, hg.nets[v])) /\ v \in Hypernode /\ v \in hg.nodes
    BY <1>3, CutNetsFinite, FiniteNets
  <2>4. Cardinality(Cut(netPart, hg.nets[v]) \cup {e}) = Cardinality(Cut(netPart, hg.nets[v])) + 1
    BY <2>2, <2>3, FS_AddElement
  <2>5. cutNets[v] = Cardinality(Cut(netPart, hg.nets[v]))
    BY <1>2, <2>3 DEF CutExact
  <2>6. cutNets'[v] = IF v \in hg.pins[e] /\ netPart[rep].connectivity > 1 THEN cutNets[v] + 1 ELSE cutNets[v]
    BY <1>1, <2>3
  <2> QED BY <1>3, <1>5, <2>2, <2>4, <2>5, <2>6
<1>8. CutExact(hg', netPart', cutNets')
  <2>1. ASSUME NEW v \in Hypernode \ hg'.nodes PROVE cutNets'[v] = 0
    BY <1>1, <1>2, <1>3 DEF CutExact
  <2> QED BY <1>7, <2>1 DEF CutExact
<1>9. cutNets' \in [Hypernode -> Int]
  BY <1>1, <1>2
<1> QED BY <1>8, <1>9 DEF CutKept

\* What changeNodePart takes for newly cut and for newly internal is just that.
LEMMA MovedConnectivity ==
  ASSUME P!UndoChain, Inv, NEW v \in Hypernode, NEW to \in Block, ChangeNodePart(v, to),
         NEW e \in hg.nets[v]
  PROVE  /\ BecameCut(e, part[v], to) <=> ~ netPart[e].connectivity > 1 /\ netPart'[e].connectivity > 1
         /\ BecameInternal(e, part[v], to) <=> netPart[e].connectivity > 1 /\ ~ netPart'[e].connectivity > 1
<1> DEFINE S == hg.pins[e]
<1>1. /\ v \in hg.nodes /\ to # part[v] /\ part' = [part EXCEPT ![v] = to] /\ part \in Partition
      /\ netPart' = [d \in Hyperedge |-> IF d \in hg.nets[v] THEN Moved(d, part[v], to) ELSE netPart[d]]
      /\ hg' = hg /\ \A x \in hg.nodes : part[x] # NoBlock
  BY DEF ChangeNodePart, Inv, PartitionTypeOK, AssignmentComplete, AllAssigned, Assigned
<1>2. /\ e \in Hyperedge /\ e \in hg.edges /\ v \in S /\ S \in SUBSET hg.nodes /\ hg.nodes \in SUBSET Hypernode
  BY <1>1, CurrentSound DEF Sound
<1>3. Exact(netPart[e], S, part) /\ Exact(netPart'[e], S, part')
  <2>1. NetsExact'
    BY ChangeNodePartNets DEF NetsKept
  <2> QED BY <1>1, <1>2, <2>1 DEF NetsExact, Inv
<1>4. /\ \A x \in S : part[x] \in Block
      /\ part'[v] = to /\ \A x \in S \ {v} : part'[x] = part[x]
  BY <1>1, <1>2 DEF Partition
<1>5. \A x \in S : part'[x] \in Block
  BY <1>4
<1>6. netPart'[e] = Moved(e, part[v], to)
  BY <1>1, <1>2
<1>7. S \in SUBSET Hypernode
  BY <1>2
<1> DEFINE c == netPart'[e]
<1> HIDE DEF S
<1>8. netPart[e].connectivity > 1 <=> ~ OneBlock(S, part)
  BY <1>3, <1>4, InternalMeans
<1>9. c.connectivity > 1 <=> ~ OneBlock(S, part')
  BY <1>3, <1>5, InternalMeans
<1> HIDE DEF c
<1>10. /\ c.count[part[v]] = 0 /\ c.count[to] # 1 /\ c.count[to] = Cardinality(S)
            <=> OneBlock(S, part') /\ ~ OneBlock(S, part)
       /\ c.count[part[v]] # 0 /\ c.count[to] = 1 /\ c.count[part[v]] = Cardinality(S) - 1
            <=> OneBlock(S, part) /\ ~ OneBlock(S, part')
  <2>1. Exact(c, S, part')
    BY <1>3 DEF c
  <2>2. OneMove(S, part, part', v, to)
    BY <1>1, <1>2, <1>4 DEF S, OneMove
  <2> QED BY <1>7, <2>1, <2>2, TwoCountsSuffice
<1>11. c = Moved(e, part[v], to)
  BY <1>6 DEF c
<1> QED BY <1>8, <1>9, <1>10, <1>11 DEF BecameCut, BecameInternal, S, c

\* A move keeps the numbers of cut nets: they change only at nets that
\* become cut or stop being cut.
LEMMA ChangeNodePartCut ==
  ASSUME P!UndoChain, Inv, NEW v \in Hypernode, NEW to \in Block, ChangeNodePart(v, to)
  PROVE  CutKept'
<1> DEFINE gained(p) == {e \in hg.nets[v] : p \in hg.pins[e] /\ BecameCut(e, part[v], to)}
           lost(p) == {e \in hg.nets[v] : p \in hg.pins[e] /\ BecameInternal(e, part[v], to)}
           A(p) == Cut(netPart, hg.nets[p])
           B(p) == Cut(netPart', hg.nets[p])
<1>1. /\ v \in hg.nodes /\ hg' = hg /\ phase = "refining"
      /\ netPart' = [d \in Hyperedge |-> IF d \in hg.nets[v] THEN Moved(d, part[v], to) ELSE netPart[d]]
      /\ cutNets' = [p \in Hypernode |-> cutNets[p] + Cardinality(gained(p)) - Cardinality(lost(p))]
  BY DEF ChangeNodePart
<1>2. CutExact(hg, netPart, cutNets) /\ cutNets \in [Hypernode -> Int] /\ Sound(hg)
  BY <1>1, CutMeans, CurrentSound DEF CutKept
<1>3. /\ hg.nodes \in SUBSET Hypernode
      /\ \A p \in Hypernode : hg.nets[p] \in SUBSET Hyperedge
      /\ \A p \in hg.nodes, e \in Hyperedge : e \in hg.nets[p] <=> e \in hg.edges /\ p \in hg.pins[e]
      /\ \A e \in hg.edges : hg.pins[e] \in SUBSET hg.nodes
  BY <1>2 DEF Sound
<1>4. /\ \A e \in hg.nets[v] : BecameCut(e, part[v], to) <=> ~ netPart[e].connectivity > 1 /\ netPart'[e].connectivity > 1
      /\ \A e \in hg.nets[v] : BecameInternal(e, part[v], to) <=> netPart[e].connectivity > 1 /\ ~ netPart'[e].connectivity > 1
  BY MovedConnectivity
<1>5. \A e \in Hyperedge \ hg.nets[v] : netPart'[e] = netPart[e]
  BY <1>1
<1>6. ASSUME NEW p \in hg.nodes PROVE gained(p) = B(p) \ A(p) /\ lost(p) = A(p) \ B(p)
  <2>1. /\ \A e \in hg.nets[v] : e \in Hyperedge /\ (p \in hg.pins[e] <=> e \in hg.nets[p])
        /\ \A e \in hg.nets[p] : e \in Hyperedge
    BY <1>1, <1>3
  <2> QED BY <1>4, <1>5, <2>1 DEF Cut
<1>7. ASSUME NEW p \in Hypernode \ hg.nodes PROVE gained(p) = {} /\ lost(p) = {}
  <2>1. \A e \in hg.nets[v] : p \notin hg.pins[e]
    BY <1>1, <1>3
  <2> QED BY <2>1
<1>8. \A p \in Hypernode : Cardinality(gained(p)) \in Nat /\ Cardinality(lost(p)) \in Nat
  <2>1. \A p \in Hypernode : gained(p) \in SUBSET Hyperedge /\ lost(p) \in SUBSET Hyperedge
    BY <1>3
  <2> HIDE DEF gained, lost
  <2> QED BY <2>1, FiniteNets
<1>9. cutNets' \in [Hypernode -> Int]
  <2> HIDE DEF gained, lost
  <2> QED BY <1>1, <1>2, <1>8
<1>10. ASSUME NEW p \in hg.nodes PROVE cutNets'[p] = Cardinality(B(p))
  <2>1. A(p) \in SUBSET Hyperedge /\ B(p) \in SUBSET Hyperedge
    BY <1>3 DEF Cut
  <2>2. cutNets[p] = Cardinality(A(p))
    BY <1>2 DEF CutExact
  <2>3. cutNets'[p] = cutNets[p] + Cardinality(gained(p)) - Cardinality(lost(p))
    <3> HIDE DEF gained, lost
    <3> QED BY <1>1, <1>3
  <2>4. cutNets'[p] = Cardinality(A(p)) + Cardinality(B(p) \ A(p)) - Cardinality(A(p) \ B(p))
    <3> HIDE DEF gained, lost, A, B
    <3> QED BY <1>6, <2>2, <2>3
  <2> HIDE DEF A, B
  <2> QED BY <2>1, <2>4, CountExchange
<1>11. ASSUME NEW p \in Hypernode \ hg.nodes PROVE cutNets'[p] = 0
  <2>1. Cardinality(gained(p)) = 0 /\ Cardinality(lost(p)) = 0 /\ cutNets[p] = 0
    BY <1>2, <1>7, FS_EmptySet DEF CutExact
  <2> HIDE DEF gained, lost
  <2> QED BY <1>1, <2>1
<1>12. CutExact(hg', netPart', cutNets')
  BY <1>1, <1>10, <1>11 DEF CutExact
<1> QED BY <1>9, <1>12 DEF CutKept

\* The other operations leave the numbers alone or set them to zero; none of
\* them is, or ends, in refinement.
LEMMA OtherCut ==
  ASSUME Inv, \/ \E u, v \in Hypernode : Contract(u, v)
              \/ \E e \in Hyperedge : RemoveEdge(e)
              \/ \E v \in Hypernode, b \in Block : SetNodePart(v, b)
              \/ ResetPartitioning
              \/ StartVCycle
              \/ UNCHANGED vars
  PROVE  CutKept'
<1>1. CutKept
  BY CutMeans
<1>2. CASE UNCHANGED vars
  BY <1>1, <1>2 DEF vars, CutKept
<1>3. CASE ResetPartitioning
  BY <1>3 DEF ResetPartitioning, CutKept
<1>4. CASE ~ UNCHANGED vars /\ ~ ResetPartitioning
  <2>1. cutNets' = cutNets /\ phase' # "refining"
    BY <1>4 DEF Contract, RemoveEdge, SetNodePart, StartVCycle
  <2> QED BY <1>1, <2>1 DEF CutKept
<1> QED BY <1>2, <1>3, <1>4
-----------------------------------------------------------------------------
\* What is left of Inv: the phases, the assignment, and the fixed vertices in
\* the log.
AssignmentKept ==
  /\ phase \in {"coarsening", "initial", "refining"}
  /\ vcycle \in 0 .. MaxVCycles
  /\ part \in Partition
  /\ AssignmentComplete

\* The inductive invariant by its parts.
LEMMA InvParts ==
  Inv <=> /\ AssignmentKept /\ NetsKept /\ InfoKept /\ CutKept /\ FixedIntoFixed
          /\ fixedVertices \in SUBSET Hypernode
BY CutMeans DEF Inv, PartitionTypeOK, AssignmentKept, NetsKept, NetsTyped, InfoKept, InfoTyped

\* The assignment stays complete when hypernodes are contracted, inherits the
\* block when they are uncontracted, and is complete when refinement begins.
LEMMA StepAssignment ==
  ASSUME P!UndoChain, Inv, [Next]_vars
  PROVE  AssignmentKept'
<1>0. /\ phase \in {"coarsening", "initial", "refining"} /\ vcycle \in 0 .. MaxVCycles
      /\ part \in Partition
      /\ phase = "coarsening" => IF vcycle = 0 THEN \A x \in hg.nodes : part[x] = NoBlock
                                               ELSE \A x \in hg.nodes : part[x] # NoBlock
      /\ phase = "refining" => \A x \in hg.nodes : part[x] # NoBlock
      /\ Sound(hg) /\ hg.nodes \in SUBSET Hypernode
  BY CurrentSound DEF Inv, PartitionTypeOK, AssignmentComplete, AllAssigned, NoneAssigned, Assigned, Sound
<1> DEFINE Kept == /\ phase' \in {"coarsening", "initial", "refining"}
                   /\ vcycle' \in 0 .. MaxVCycles
                   /\ part' \in Partition
                   /\ phase' = "coarsening" => IF vcycle' = 0 THEN \A x \in hg'.nodes : part'[x] = NoBlock
                                                              ELSE \A x \in hg'.nodes : part'[x] # NoBlock
                   /\ phase' = "refining" => \A x \in hg'.nodes : part'[x] # NoBlock
<1> SUFFICES Kept
  BY DEF AssignmentKept, AssignmentComplete, AllAssigned, NoneAssigned, Assigned
<1>1. ASSUME NEW u \in Hypernode, NEW v \in Hypernode, Contract(u, v) PROVE Kept
  <2>1. hg'.nodes = hg.nodes \ {v}
    BY <1>1, ContractMerges DEF Contract, Merges
  <2> QED BY <1>0, <1>1, <2>1 DEF Contract
<1>2. ASSUME NEW e \in Hyperedge, RemoveEdge(e) PROVE Kept
  <2>1. hg'.nodes = hg.nodes
    BY <1>2, RemoveDrops DEF RemoveEdge, Drops
  <2> QED BY <1>0, <1>2, <2>1 DEF RemoveEdge
<1>3. ASSUME NEW v \in Hypernode, NEW b \in Block, SetNodePart(v, b) PROVE Kept
  BY <1>0, <1>3 DEF SetNodePart, Partition
<1>4. CASE ResetPartitioning
  BY <1>0, <1>4 DEF ResetPartitioning, Partition
<1>5. CASE InitializeNumCutHyperedges
  BY <1>0, <1>5 DEF InitializeNumCutHyperedges, AllAssigned, Assigned
<1>6. CASE Uncontract
  <2> DEFINE u == Last(log).u
             v == Last(log).v
  <2>1. Merges(hg', u, v, hg)
    BY <1>6, UncontractMerges DEF Uncontract
  <2>2. part' = [part EXCEPT ![v] = part[u]] /\ UNCHANGED <<phase, vcycle>> /\ phase = "refining"
    BY <1>6 DEF Uncontract, InheritedPart
  <2> HIDE DEF u, v
  <2>3. u \in hg.nodes /\ v \in Hypernode /\ hg'.nodes = hg.nodes \cup {v}
    BY <2>1 DEF Merges, Sound
  <2>4. part[u] \in Block
    BY <1>0, <2>2, <2>3 DEF Partition
  <2>5. part' \in Partition
    BY <1>0, <2>2, <2>4 DEF Partition
  <2>6. \A x \in hg'.nodes : part'[x] # NoBlock
    BY <1>0, <2>2, <2>3, <2>4, BlockAssumption DEF Partition
  <2> QED BY <1>0, <2>2, <2>5, <2>6
<1>7. CASE RestoreEdge
  <2>1. hg'.nodes = hg.nodes
    BY <1>7, RestoreDrops DEF RestoreEdge, Drops
  <2> QED BY <1>0, <1>7, <2>1 DEF RestoreEdge
<1>8. ASSUME NEW rep \in Hyperedge, RestoreParallelEdge(rep) PROVE Kept
  <2>1. hg'.nodes = hg.nodes
    BY <1>8, RestoreDrops DEF RestoreParallelEdge, Drops
  <2> QED BY <1>0, <1>8, <2>1 DEF RestoreParallelEdge
<1>9. ASSUME NEW v \in Hypernode, NEW b \in Block, ChangeNodePart(v, b) PROVE Kept
  BY <1>0, <1>9, BlockAssumption DEF ChangeNodePart, Partition
<1>10. CASE StartVCycle
  BY <1>0, <1>10, MaxVCyclesAssumption DEF StartVCycle, AllAssigned, Assigned
<1>11. CASE UNCHANGED vars
  BY <1>0, <1>11 DEF vars
<1> HIDE DEF Kept
<1> QED BY <1>1, <1>2, <1>3, <1>4, <1>5, <1>6, <1>7, <1>8, <1>9, <1>10, <1>11 DEF Next

\* A fixed vertex is only contracted into one fixed to the same block, and
\* undoing pops the log.
LEMMA StepFixed ==
  ASSUME P!UndoChain, Inv, [Next]_vars
  PROVE  FixedIntoFixed' /\ fixedVertices' \in SUBSET Hypernode
<1>0. /\ fixedVertices \in SUBSET Hypernode
      /\ log \in Seq(P!LogEntry) /\ Len(log) \in Nat
      /\ FixedIntoFixed
  BY CurrentSound DEF Inv, PartitionTypeOK
<1>1. hg \in P!Structure
  BY DEF P!UndoChain, P!WellFormed
<1>2. ASSUME NEW l \in P!LogEntry, log' = Append(log, l),
             l.op = "contract" /\ IsFixed(l.v) => FixedPart[l.u] = FixedPart[l.v]
      PROVE  FixedIntoFixed'
  <2>1. /\ Len(log') = Len(log) + 1 /\ log'[Len(log) + 1] = l
        /\ \A i \in 1 .. Len(log) : log'[i] = log[i]
    BY <1>0, <1>2
  <2> SUFFICES ASSUME NEW i \in 1 .. Len(log')
               PROVE  log'[i].op = "contract" /\ IsFixed(log'[i].v) => FixedPart[log'[i].u] = FixedPart[log'[i].v]
    BY DEF FixedIntoFixed, IsFixed
  <2>2. CASE i = Len(log) + 1
    BY <1>2, <2>1, <2>2
  <2>3. CASE i # Len(log) + 1
    <3>1. i \in 1 .. Len(log)
      BY <1>0, <2>1, <2>3
    <3> QED BY <1>0, <2>1, <3>1 DEF FixedIntoFixed
  <2> QED BY <2>2, <2>3
<1>3. ASSUME log # << >>, log' = Front(log) PROVE FixedIntoFixed'
  <2>1. /\ Len(log') = Len(log) - 1
        /\ \A i \in 1 .. Len(log) - 1 : log'[i] = log[i]
    BY <1>0, <1>3, IncidenceConstants, P!PopBelow, SameLibrary
  <2> SUFFICES ASSUME NEW i \in 1 .. Len(log')
               PROVE  log'[i].op = "contract" /\ IsFixed(log'[i].v) => FixedPart[log'[i].u] = FixedPart[log'[i].v]
    BY DEF FixedIntoFixed, IsFixed
  <2>2. i \in 1 .. Len(log) /\ log'[i] = log[i]
    BY <1>0, <2>1
  <2> QED BY <1>0, <2>2 DEF FixedIntoFixed
<1>4. ASSUME log' = log PROVE FixedIntoFixed'
  BY <1>0, <1>4 DEF FixedIntoFixed, IsFixed
<1>5. ASSUME NEW u \in Hypernode, NEW v \in Hypernode, Contract(u, v)
      PROVE  FixedIntoFixed' /\ fixedVertices' \in SUBSET Hypernode
  <2> DEFINE l == [op |-> "contract", u |-> u, v |-> v, before |-> hg]
  <2>1. log' = Append(log, l)
    BY <1>5, ContractMerges DEF Contract
  <2>2. l \in P!LogEntry /\ l.u = u /\ l.v = v
    BY <1>1 DEF P!LogEntry
  <2>3. IsFixed(v) => FixedPart[u] = FixedPart[v]
    BY <1>5 DEF Contract
  <2> HIDE DEF l
  <2>4. FixedIntoFixed'
    BY <1>2, <2>1, <2>2, <2>3
  <2>5. fixedVertices' \in SUBSET Hypernode
    BY <1>0, <1>5 DEF Contract
  <2> QED BY <2>4, <2>5
<1>6. ASSUME NEW e \in Hyperedge, RemoveEdge(e)
      PROVE  FixedIntoFixed' /\ fixedVertices' \in SUBSET Hypernode
  <2> DEFINE l == [op |-> "remove", e |-> e, before |-> hg]
  <2>1. log' = Append(log, l)
    BY <1>6, RemoveDrops DEF RemoveEdge
  <2>2. l \in P!LogEntry /\ l.op # "contract"
    BY <1>1 DEF P!LogEntry
  <2> HIDE DEF l
  <2>4. FixedIntoFixed'
    BY <1>2, <2>1, <2>2
  <2>5. fixedVertices' \in SUBSET Hypernode
    BY <1>0, <1>6 DEF RemoveEdge
  <2> QED BY <2>4, <2>5
<1>7. CASE Uncontract
  <2>1. log # << >> /\ log' = Front(log) /\ Merges(hg', Last(log).u, Last(log).v, hg)
    BY <1>7, UncontractMerges DEF Uncontract
  <2>2. Last(log).v \in Hypernode
    BY <2>1 DEF Merges, Sound
  <2>3. fixedVertices' \in SUBSET Hypernode
    BY <1>0, <1>7, <2>2 DEF Uncontract
  <2> QED BY <1>3, <2>1, <2>3
<1>8. CASE RestoreEdge \/ \E rep \in Hyperedge : RestoreParallelEdge(rep)
  <2>1. I!RestoreEdge /\ fixedVertices' = fixedVertices
    BY <1>8 DEF RestoreEdge, RestoreParallelEdge
  <2>2. log # << >> /\ log' = Front(log)
    BY <2>1, RestoreDrops
  <2> QED BY <1>0, <1>3, <2>1, <2>2
<1>9. CASE \/ \E v \in Hypernode, b \in Block : SetNodePart(v, b)
           \/ ResetPartitioning
           \/ InitializeNumCutHyperedges
           \/ \E v \in Hypernode, b \in Block : ChangeNodePart(v, b)
           \/ StartVCycle
           \/ UNCHANGED vars
  <2>1. log' = log /\ fixedVertices' = fixedVertices
    BY <1>9 DEF SetNodePart, ResetPartitioning, InitializeNumCutHyperedges, ChangeNodePart, StartVCycle, vars
  <2> QED BY <1>0, <1>4, <2>1
<1> QED BY <1>5, <1>6, <1>7, <1>8, <1>9 DEF Next

\* A step that leaves nets, partition and pin counts alone.
LEMMA OtherNets ==
  ASSUME Inv, UNCHANGED <<hg, part, netPart>>
  PROVE  NetsKept'
BY DEF Inv, PartitionTypeOK, NetsKept, NetsTyped, NetsExact, RemovedNetsCleared

\* Inv is inductive.
LEMMA InvInductive ==
  ASSUME P!UndoChain, Inv, [Next]_vars
  PROVE  Inv'
<1>0. ASSUME NetsKept', InfoKept', CutKept' PROVE Inv'
  <2>1. CutNetsExact' /\ ContractedCountNothing' /\ cutNets' \in [Hypernode -> Int]
    BY <1>0 DEF CutKept, CutExact, CutNetsExact, ContractedCountNothing, Cut
  <2>2. AssignmentKept' /\ FixedIntoFixed' /\ fixedVertices' \in SUBSET Hypernode
    BY StepAssignment, StepFixed
  <2> QED BY <1>0, <2>1, <2>2
          DEF Inv, PartitionTypeOK, AssignmentKept, NetsKept, NetsTyped, InfoKept, InfoTyped
<1>1. ASSUME NEW u \in Hypernode, NEW v \in Hypernode, Contract(u, v) PROVE Inv'
  BY <1>0, <1>1, ContractNets, ContractInfo, OtherCut
<1>2. ASSUME NEW e \in Hyperedge, RemoveEdge(e) PROVE Inv'
  <2>1. InfoKept'
    <3>1. hg'.nodes = hg.nodes /\ hg'.weight = hg.weight
      BY <1>2, RemoveDrops DEF RemoveEdge, Drops
    <3> QED BY <1>2, <3>1, OtherInfo DEF RemoveEdge
  <2> QED BY <1>0, <1>2, <2>1, RemoveEdgeNets, OtherCut
<1>3. ASSUME NEW v \in Hypernode, NEW b \in Block, SetNodePart(v, b) PROVE Inv'
  BY <1>0, <1>3, SetNodePartNets, SetNodePartInfo, OtherCut
<1>4. CASE ResetPartitioning
  BY <1>0, <1>4, ResetPartitioningNets, ResetPartitioningInfo, OtherCut
<1>5. CASE InitializeNumCutHyperedges
  <2>1. NetsKept' /\ InfoKept'
    BY <1>5, OtherNets, OtherInfo DEF InitializeNumCutHyperedges
  <2> QED BY <1>0, <1>5, <2>1, InitializeCut
<1>6. CASE Uncontract
  BY <1>0, <1>6, UncontractNets, UncontractInfo, UncontractCut
<1>7. CASE RestoreEdge
  <2>1. InfoKept'
    <3>1. hg'.nodes = hg.nodes /\ hg'.weight = hg.weight
      BY <1>7, RestoreDrops DEF RestoreEdge, Drops
    <3> QED BY <1>7, <3>1, OtherInfo DEF RestoreEdge
  <2> QED BY <1>0, <1>7, <2>1, RestoreNets, RestoreEdgeCut
<1>8. ASSUME NEW rep \in Hyperedge, RestoreParallelEdge(rep) PROVE Inv'
  <2>1. InfoKept'
    <3>1. hg'.nodes = hg.nodes /\ hg'.weight = hg.weight
      BY <1>8, RestoreDrops DEF RestoreParallelEdge, Drops
    <3> QED BY <1>8, <3>1, OtherInfo DEF RestoreParallelEdge
  <2> QED BY <1>0, <1>8, <2>1, RestoreNets, RestoreParallelEdgeCut
<1>9. ASSUME NEW v \in Hypernode, NEW b \in Block, ChangeNodePart(v, b) PROVE Inv'
  BY <1>0, <1>9, ChangeNodePartNets, ChangeNodePartInfo, ChangeNodePartCut
<1>10. CASE StartVCycle
  <2>1. NetsKept'
    BY <1>10, OtherNets DEF StartVCycle
  <2>2. InfoKept'
    <3>1. vcycle' # 0
      BY <1>10 DEF StartVCycle, Inv, PartitionTypeOK
    <3> QED BY <1>10, <3>1, OtherInfo DEF StartVCycle
  <2> QED BY <1>0, <1>10, <2>1, <2>2, OtherCut
<1>11. CASE UNCHANGED vars
  <2>1. NetsKept' /\ InfoKept'
    BY <1>11, OtherNets, OtherInfo DEF vars
  <2> QED BY <1>0, <1>11, <2>1, OtherCut
<1> QED BY <1>1, <1>2, <1>3, <1>4, <1>5, <1>6, <1>7, <1>8, <1>9, <1>10, <1>11 DEF Next

\* Inv holds once the hypergraph is built.
LEMMA InvInitially ==
  ASSUME Init
  PROVE  Inv
<1> DEFINE none == [v \in Hypernode |-> NoBlock]
<1>1. /\ hg = P!Original /\ log = << >> /\ phase = "coarsening" /\ vcycle = 0
      /\ part = none
      /\ netPart = [e \in Hyperedge |-> NoPins]
      /\ cutNets = [v \in Hypernode |-> 0]
      /\ fixedVertices = {v \in Hypernode : IsFixed(v)}
      /\ block = [b \in Block |-> [weight |-> 0, size |-> 0, fixedWeight |-> FixedWeight(b)]]
  BY SameOperations DEF Init, I!Init
<1>2. Sound(hg) /\ hg.nodes = Hypernode
  <2>1. P!WellFormed(P!Original)
    BY IncidenceConstants, P!OriginalWellFormed
  <2> QED BY <1>1, <2>1, WellFormedSound DEF P!Original
<1>3. AssignmentKept
  BY <1>1, <1>2, MaxVCyclesAssumption
     DEF AssignmentKept, Partition, AssignmentComplete, NoneAssigned, Assigned
<1>4. NetsKept
  <2>1. NetsTyped /\ RemovedNetsCleared
    BY <1>1, <1>2, NoPinsExact DEF NetsTyped, RemovedNetsCleared, NoPins
  <2>2. \A e \in Hyperedge : hg.pins[e] \in SUBSET Hypernode
    BY <1>2 DEF Sound
  <2>3. hg.edges \in SUBSET Hyperedge
    BY <1>2 DEF Sound
  <2>4. NetsExact
    BY <1>1, <2>2, <2>3, NoPinsExact DEF NetsExact
  <2> QED BY <2>1, <2>4 DEF NetsKept
<1>5. InfoKept
  <2>1. ASSUME NEW b \in Block
        PROVE  /\ In(hg.nodes, part, b) = {}
               /\ FixedWeight(b) = WeightOf(hg, In(hg.nodes, FixedPart, b))
               /\ FixedWeight(b) \in Int
    <3>1. In(hg.nodes, part, b) = {}
      BY <1>1, <1>2, BlockAssumption DEF In
    <3>2. {v \in fixedVertices : FixedPart[v] = b} = In(hg.nodes, FixedPart, b)
      BY <1>1, <1>2, BlockAssumption DEF In, IsFixed
    <3>3. In(hg.nodes, FixedPart, b) \in SUBSET Hypernode
      BY <1>2 DEF In
    <3> QED BY <1>2, <3>1, <3>2, <3>3, WeightType DEF FixedWeight
  <2>2. WeightOf(hg, {}) = 0 /\ Cardinality({}) = 0
    BY FS_EmptySet, TotalStep, WeightIsTotal
  <2>3. InfoTyped
    BY <1>1, <2>1 DEF InfoTyped, PartInfo
  <2>4. InfoExact(hg, part, block, fixedVertices, vcycle)
    BY <1>1, <1>2, <2>1, <2>2 DEF InfoExact
  <2> QED BY <2>3, <2>4 DEF InfoKept
<1>6. CutKept
  BY <1>1 DEF CutKept
<1>7. FixedIntoFixed
  BY <1>1 DEF FixedIntoFixed
<1> QED BY <1>1, <1>3, <1>4, <1>5, <1>6, <1>7, InvParts

\* What Inv and the chain of the log say together is PartitionDataExact.
LEMMA InvExact ==
  ASSUME P!UndoChain, Inv
  PROVE  PartitionDataExact
<1>1. TypeOK
  <2>1. I!TypeOK
    BY SameActions DEF P!UndoChain
  <2> QED BY <2>1 DEF Inv, PartitionTypeOK, Partition, TypeOK
<1>2. PinCountsExact
  <2>1. /\ hg.edges \in SUBSET Hyperedge /\ hg.pins \in [Hyperedge -> SUBSET Hypernode] /\ part \in Partition
        /\ \A e \in hg.edges : Exact(netPart[e], hg.pins[e], part)
    BY CurrentSound DEF Sound, Inv, PartitionTypeOK, NetsExact
  <2>2. \A e \in hg.edges :
          /\ \A b \in Block : netPart[e].count[b] = Cardinality(In(hg.pins[e], part, b))
          /\ netPart[e].blocks = {part[v] : v \in hg.pins[e]} \ {NoBlock}
          /\ netPart[e].connectivity = Cardinality(netPart[e].blocks)
    BY <2>1, ExactMeans
  <2> QED BY <2>2 DEF PinCountsExact, In
<1>3. CutNetsExact
  BY DEF Inv
<1>4. PartInfoExact
  <2>1. InfoExact(hg, part, block, fixedVertices, vcycle)
    BY DEF Inv
  <2> QED BY <2>1, InfoMeans DEF PartInfoExact, SizesExact, FixedWeight
<1> QED BY <1>1, <1>2, <1>3, <1>4 DEF PartitionDataExact

\* At every level and in every phase, through contractions, removals, moves,
\* restorations, restarts of initial partitioning and V-cycles, pin counts,
\* connectivities, connectivity sets, numbers of cut nets, block weights, fixed
\* weights and (before the first V-cycle) block sizes are what they would be if
\* they were computed anew.
THEOREM PartitionExact == Spec => []PartitionDataExact
<1>1. Init => Inv
  BY InvInitially
<1>2. P!UndoChain /\ Inv /\ [Next]_vars => Inv'
  BY InvInductive
<1>3. P!UndoChain /\ Inv => PartitionDataExact
  BY InvExact
<1> QED BY <1>1, <1>2, <1>3, Chained, PTL DEF Spec
-----------------------------------------------------------------------------
\* g follows hypernode v through the operations ops.
Follows(g, ops, v) ==
  /\ g \in [0 .. Len(ops) -> Hypernode]
  /\ g[0] = v
  /\ \A i \in 1 .. Len(ops) : g[i] = Up(ops[i], g[i - 1])

\* Following one contraction leads to a hypernode.
LEMMA UpType ==
  ASSUME NEW l \in P!LogEntry, NEW x \in Hypernode
  PROVE  Up(l, x) \in Hypernode
BY IncidenceConstants, P!LogEntryFields DEF Up

\* The recursion that defines Represented has a solution.
LEMMA FollowExists ==
  ASSUME NEW ops \in Seq(P!LogEntry), NEW v \in Hypernode
  PROVE  \E g : Follows(g, ops, v)
<1> DEFINE n == Len(ops)
           Step(g, i) == IF i = 0 THEN v ELSE Up(ops[i], g[i - 1])
           Good == {m \in Nat : \E g \in [0 .. n -> Hypernode] : \A i \in 0 .. m : i <= n => g[i] = Step(g, i)}
<1>1. n \in Nat /\ \A i \in 1 .. n : ops[i] \in P!LogEntry
  OBVIOUS
<1>2. ASSUME NEW g \in [0 .. n -> Hypernode], NEW i \in 0 .. n PROVE Step(g, i) \in Hypernode
  <2>1. CASE i = 0
    BY <2>1
  <2>2. CASE i # 0
    <3>1. i \in 1 .. n /\ i - 1 \in 0 .. n
      BY <1>1, <2>2
    <3> QED BY <1>1, <2>2, <3>1, UpType
  <2> QED BY <2>1, <2>2
<1>3. 0 \in Good
  <2> DEFINE g == [i \in 0 .. n |-> v]
  <2>1. g \in [0 .. n -> Hypernode] /\ \A i \in 0 .. 0 : i <= n => g[i] = Step(g, i)
    BY <1>1
  <2> QED BY <2>1
<1>4. \A i \in 1 .. n : i - 1 \in Good => i \in Good
  <2> SUFFICES ASSUME NEW m \in 1 .. n, m - 1 \in Good PROVE m \in Good
    OBVIOUS
  <2>1. PICK g \in [0 .. n -> Hypernode] : \A i \in 0 .. m - 1 : i <= n => g[i] = Step(g, i)
    OBVIOUS
  <2> DEFINE h == [i \in 0 .. n |-> Step(g, i)]
  <2>2. h \in [0 .. n -> Hypernode]
    BY <1>2
  <2>3. ASSUME NEW i \in 0 .. m, i <= n PROVE h[i] = Step(h, i)
    <3>1. h[i] = Step(g, i)
      BY <1>1, <2>3
    <3>2. CASE i = 0
      BY <3>1, <3>2
    <3>3. CASE i # 0
      <4>1. i - 1 \in 0 .. m - 1 /\ i - 1 \in 0 .. n /\ i - 1 <= n
        BY <1>1, <2>3, <3>3
      <4>2. g[i - 1] = h[i - 1]
        BY <2>1, <4>1
      <4> QED BY <3>1, <3>3, <4>2
    <3> QED BY <3>2, <3>3
  <2>4. m \in Nat
    BY <1>1
  <2>5. \A i \in 0 .. m : i <= n => h[i] = Step(h, i)
    BY <2>3
  <2> HIDE DEF h
  <2> QED BY <2>2, <2>4, <2>5
<1>5. n \in Good
  <2> HIDE DEF Good
  <2> QED BY <1>1, <1>3, <1>4, CountInduction
<1>6. PICK g \in [0 .. n -> Hypernode] : \A i \in 0 .. n : g[i] = Step(g, i)
  BY <1>1, <1>5
<1>7. g[0] = v
  BY <1>1, <1>6
<1>8. \A i \in 1 .. n : g[i] = Up(ops[i], g[i - 1])
  BY <1>1, <1>6
<1> QED BY <1>6, <1>7, <1>8 DEF Follows

\* The representative of a hypernode is found by following the log.
LEMMA RepresentedFollows ==
  ASSUME NEW ops \in Seq(P!LogEntry), NEW v \in Hypernode
  PROVE  Follows(Represented(ops, v), ops, v)
<1> DEFINE Solves(g) == g = [i \in 0 .. Len(ops) |-> IF i = 0 THEN v ELSE Up(ops[i], g[i - 1])]
           h == CHOOSE g : Solves(g)
<1>1. Len(ops) \in Nat /\ \A i \in 1 .. Len(ops) : ops[i] \in P!LogEntry
  OBVIOUS
<1>2. PICK g : Follows(g, ops, v)
  BY FollowExists
<1>3. Solves(g)
  <2>1. g \in [0 .. Len(ops) -> Hypernode]
    BY <1>2 DEF Follows
  <2>2. \A i \in 0 .. Len(ops) : g[i] = IF i = 0 THEN v ELSE Up(ops[i], g[i - 1])
    BY <1>1, <1>2 DEF Follows
  <2> QED BY <2>1, <2>2
<1>4. Solves(h)
  <2> HIDE DEF Solves
  <2> QED BY <1>3
<1>5. Represented(ops, v) = h
  BY DEF Represented
<1> HIDE DEF h
<1>6. h[0] = v
  BY <1>1, <1>4
<1>7. \A i \in 1 .. Len(ops) : h[i] = Up(ops[i], h[i - 1])
  BY <1>1, <1>4
<1>8. \A i \in 0 .. Len(ops) : h[i] = g[i]
  <2> DEFINE Good == {i \in 0 .. Len(ops) : h[i] = g[i]}
  <2>1. 0 \in Good
    BY <1>1, <1>2, <1>6 DEF Follows
  <2>2. \A i \in 1 .. Len(ops) : i - 1 \in Good => i \in Good
    BY <1>1, <1>2, <1>7 DEF Follows
  <2>3. ASSUME NEW n \in 0 .. Len(ops) PROVE n \in Good
    <3>1. n \in Nat /\ \A i \in 1 .. n : i - 1 \in Good => i \in Good
      BY <1>1, <2>2
    <3> HIDE DEF Good
    <3> QED BY <2>1, <3>1, CountInduction
  <2> QED BY <2>3
<1>9. h \in [0 .. Len(ops) -> Hypernode]
  <2>1. \A i \in 0 .. Len(ops) : h[i] \in Hypernode
    BY <1>2, <1>8 DEF Follows
  <2>2. h = [i \in 0 .. Len(ops) |-> h[i]]
    BY <1>4
  <2> QED BY <2>1, <2>2
<1> QED BY <1>5, <1>6, <1>7, <1>9 DEF Follows

\* Operations that agree up to the n-th lead a hypernode to the same place.
LEMMA FollowsAgree ==
  ASSUME NEW a, NEW b, Len(a) \in Nat, Len(b) \in Nat, NEW v, NEW g, NEW h,
         Follows(g, a, v), Follows(h, b, v),
         NEW n \in Nat, n <= Len(a), n <= Len(b), \A i \in 1 .. n : a[i] = b[i]
  PROVE  g[n] = h[n]
<1> DEFINE Good == {i \in 0 .. n : g[i] = h[i]}
<1>1. 0 \in Good
  BY DEF Follows
<1>2. \A i \in 1 .. n : i - 1 \in Good => i \in Good
  BY DEF Follows
<1>3. n \in Good
  <2> HIDE DEF Good
  <2> QED BY <1>1, <1>2, CountInduction
<1> QED BY <1>3

\* At every level that is logged, the pins of a net are the hypernodes that those it
\* was read with are followed to.
LEMMA PinsFollowTo ==
  ASSUME P!UndoChain, NEW k \in 0 .. Len(log)
  PROVE  \A e \in P!After(k).edges : P!After(k).pins[e] = {Represented(log, x)[k] : x \in InitPins[e]}
<1> DEFINE n == Len(log)
           at(x) == Represented(log, x)
           Good == {i \in 0 .. n : \A e \in P!After(i).edges : P!After(i).pins[e] = {at(x)[i] : x \in InitPins[e]}}
<1>1. log \in Seq(P!LogEntry) /\ n \in Nat
  BY CurrentSound
<1>2. \A x \in Hypernode : Follows(at(x), log, x)
  BY <1>1, RepresentedFollows
<1>3. 0 \in Good
  <2>1. P!After(0).edges = Hyperedge /\ P!After(0).pins = InitPins
    BY DEF P!UndoChain, P!Original
  <2>2. ASSUME NEW e \in Hyperedge PROVE InitPins[e] = {at(x)[0] : x \in InitPins[e]}
    <3>1. \A x \in InitPins[e] : at(x)[0] = x
      BY <1>2, IncidenceAssumption DEF Follows
    <3> HIDE DEF at
    <3> QED BY <3>1
  <2> HIDE DEF at
  <2> QED BY <1>1, <2>1, <2>2
<1>4. ASSUME NEW i \in 1 .. n, i - 1 \in Good PROVE i \in Good
  <2> DEFINE l == log[i]
             s == l.before
             t == P!After(i)
  <2>1. P!LeadsTo(l, t) /\ P!After(i - 1) = s /\ i - 1 \in 0 .. n /\ i \in 0 .. n
    BY <1>1 DEF P!UndoChain, P!After
  <2>2. \A e \in s.edges : s.pins[e] = {at(x)[i - 1] : x \in InitPins[e]}
    BY <1>4, <2>1
  <2>3. \A x \in Hypernode : at(x)[i] = Up(l, at(x)[i - 1])
    BY <1>2 DEF Follows
  <2>4. Sound(s)
    BY <2>1, WellFormedSound DEF P!LeadsTo
  <2> HIDE DEF l, s, t, at
  <2>5. ASSUME NEW e \in t.edges PROVE e \in s.edges /\ t.pins[e] = {Up(l, y) : y \in s.pins[e]}
    <3>1. CASE /\ l.op = "contract"
               /\ l.u \in l.before.nodes /\ l.v \in l.before.nodes /\ l.u # l.v
               /\ t = P!Contracted(l.before, l.u, l.v)
      <4>1. Merges(s, l.u, l.v, t)
        BY <2>1, <3>1, ContractedMerges DEF P!LeadsTo, s
      <4>2. /\ e \in s.edges /\ e \in Hyperedge
            /\ e \in s.nets[l.v] <=> l.v \in s.pins[e]
            /\ t.pins[e] = IF e \in s.nets[l.v] THEN (s.pins[e] \ {l.v}) \cup {l.u} ELSE s.pins[e]
        BY <4>1 DEF Merges, Sound
      <4>3. \A y : Up(l, y) = IF y = l.v THEN l.u ELSE y
        BY <3>1 DEF Up
      <4> QED BY <4>2, <4>3
    <3>2. CASE l.op = "remove" /\ l.e \in l.before.edges /\ t = P!Removed(l.before, l.e)
      <4>1. Drops(s, l.e, t)
        BY <2>1, <3>2, RemovedDrops DEF P!LeadsTo, s
      <4>2. e \in s.edges /\ t.pins[e] = s.pins[e]
        BY <4>1 DEF Drops
      <4>3. \A y : Up(l, y) = y
        BY <3>2 DEF Up
      <4> QED BY <4>2, <4>3
    <3> QED BY <2>1, <3>1, <3>2 DEF P!LeadsTo
  <2>6. ASSUME NEW e \in t.edges PROVE t.pins[e] = {at(x)[i] : x \in InitPins[e]}
    <3>1. e \in s.edges /\ t.pins[e] = {Up(l, y) : y \in s.pins[e]}
      BY <2>5
    <3>2. s.pins[e] = {at(x)[i - 1] : x \in InitPins[e]}
      BY <2>2, <3>1
    <3>3. \A x \in InitPins[e] : at(x)[i] = Up(l, at(x)[i - 1])
      <4>1. e \in Hyperedge
        BY <2>4, <3>1 DEF Sound
      <4> QED BY <2>3, <4>1, IncidenceAssumption
    <3> QED BY <3>1, <3>2, <3>3
  <2> QED BY <2>1, <2>6 DEF t
<1>5. k \in Good
  <2>1. k \in Nat /\ \A i \in 1 .. k : i - 1 \in Good => i \in Good
    BY <1>1, <1>4
  <2> HIDE DEF Good
  <2> QED BY <1>3, <2>1, CountInduction
<1> QED BY <1>5

\* The pins of an enabled net are the representatives of the pins it was read
\* with.
LEMMA PinsFollow ==
  ASSUME P!UndoChain
  PROVE  \A e \in hg.edges : hg.pins[e] = {Representative(x) : x \in InitPins[e]}
<1>1. Len(log) \in Nat /\ Len(log) \in 0 .. Len(log) /\ P!After(Len(log)) = hg
  BY CurrentSound DEF P!After
<1> QED BY <1>1, PinsFollowTo DEF Representative

\* Hypernodes that have been contracted to the same one stay together.
LEMMA StayTogether ==
  ASSUME P!UndoChain, NEW k \in 0 .. Len(log), NEW x \in Hypernode, NEW y \in Hypernode,
         Represented(log, x)[k] = Represented(log, y)[k]
  PROVE  Projected(x) = Projected(y)
<1> DEFINE g == Represented(log, x)
           h == Represented(log, y)
           n == Len(log)
           Good == {i \in 0 .. n - k : g[k + i] = h[k + i]}
<1>1. log \in Seq(P!LogEntry) /\ n \in Nat /\ k \in Nat /\ n - k \in Nat
  BY CurrentSound
<1>2. Follows(g, log, x) /\ Follows(h, log, y)
  BY <1>1, RepresentedFollows
<1>3. \A i \in 1 .. n : g[i] = Up(log[i], g[i - 1]) /\ h[i] = Up(log[i], h[i - 1])
  BY <1>2 DEF Follows
<1> HIDE DEF g, h
<1>4. 0 \in Good
  <2>1. k + 0 = k
    BY <1>1
  <2> QED BY <1>1, <2>1 DEF g, h
<1>5. ASSUME NEW i \in 1 .. n - k, i - 1 \in Good PROVE i \in Good
  <2>1. k + i \in 1 .. n /\ (k + i) - 1 = k + (i - 1) /\ i \in 0 .. n - k
    BY <1>1
  <2>2. g[k + (i - 1)] = h[k + (i - 1)]
    BY <1>5
  <2> QED BY <1>3, <2>1, <2>2
<1>6. n - k \in Good
  <2>1. \A i \in 1 .. n - k : i - 1 \in Good => i \in Good
    BY <1>5
  <2> HIDE DEF Good
  <2> QED BY <1>1, <1>4, <2>1, CountInduction
<1>7. g[n] = h[n]
  <2>1. k + (n - k) = n
    BY <1>1
  <2> QED BY <1>6, <2>1
<1> QED BY <1>7 DEF Projected, Representative, g, h

\* Nets that had the same pins when something was logged connect the same blocks
\* in the input.
LEMMA AlikeInInput ==
  ASSUME P!UndoChain, NEW j \in 1 .. Len(log),
         NEW e \in log[j].before.edges, NEW f \in log[j].before.edges,
         log[j].before.pins[e] = log[j].before.pins[f]
  PROVE  {Projected(x) : x \in InitPins[e]} = {Projected(x) : x \in InitPins[f]}
<1> DEFINE at(x) == Represented(log, x)[j - 1]
<1>1. Len(log) \in Nat /\ j - 1 \in 0 .. Len(log) /\ P!After(j - 1) = log[j].before
  BY CurrentSound DEF P!After
<1>2. /\ log[j].before.pins[e] = {at(x) : x \in InitPins[e]}
      /\ log[j].before.pins[f] = {at(x) : x \in InitPins[f]}
  BY <1>1, PinsFollowTo
<1>3. InitPins[e] \subseteq Hypernode /\ InitPins[f] \subseteq Hypernode
  <2>1. P!LeadsTo(log[j], P!After(j))
    BY DEF P!UndoChain
  <2>2. Sound(log[j].before)
    BY <2>1, WellFormedSound DEF P!LeadsTo
  <2> QED BY <2>2, IncidenceAssumption DEF Sound
<1>4. ASSUME NEW x \in Hypernode, NEW y \in Hypernode, at(x) = at(y) PROVE Projected(x) = Projected(y)
  BY <1>1, <1>4, StayTogether
<1> HIDE DEF at
<1>5. {at(x) : x \in InitPins[e]} = {at(x) : x \in InitPins[f]}
  BY <1>2
<1>6. /\ \A x \in InitPins[e] : \E y \in InitPins[f] : at(x) = at(y)
      /\ \A y \in InitPins[f] : \E x \in InitPins[e] : at(x) = at(y)
  <2>1. ASSUME NEW x \in InitPins[e] PROVE \E y \in InitPins[f] : at(x) = at(y)
    <3>1. at(x) \in {at(y) : y \in InitPins[f]}
      BY <1>5
    <3> QED BY <3>1
  <2>2. ASSUME NEW y \in InitPins[f] PROVE \E x \in InitPins[e] : at(x) = at(y)
    <3>1. at(y) \in {at(x) : x \in InitPins[e]}
      BY <1>5
    <3> QED BY <3>1
  <2> QED BY <2>1, <2>2
<1> QED BY <1>3, <1>4, <1>5, <1>6

\* A net that had one pin when something was logged connects one block in the input.
LEMMA InternalInInput ==
  ASSUME P!UndoChain, NEW j \in 1 .. Len(log), NEW e \in log[j].before.edges,
         Cardinality(log[j].before.pins[e]) = 1
  PROVE  Cardinality({Projected(x) : x \in InitPins[e]}) = 1
<1> DEFINE at(x) == Represented(log, x)[j - 1]
<1>1. Len(log) \in Nat /\ j - 1 \in 0 .. Len(log) /\ P!After(j - 1) = log[j].before
  BY CurrentSound DEF P!After
<1>2. log[j].before.pins[e] = {at(x) : x \in InitPins[e]}
  BY <1>1, PinsFollowTo
<1>3. Sound(log[j].before)
  <2>1. P!LeadsTo(log[j], P!After(j))
    BY DEF P!UndoChain
  <2> QED BY <2>1, WellFormedSound DEF P!LeadsTo
<1>4. InitPins[e] \subseteq Hypernode /\ IsFiniteSet(log[j].before.pins[e])
  <2>1. e \in Hyperedge /\ log[j].before.pins[e] \subseteq Hypernode
    BY <1>3 DEF Sound
  <2> QED BY <2>1, IncidenceAssumption, FS_Subset
<1>5. PICK z : log[j].before.pins[e] = {z}
  BY <1>4, FS_Singleton
<1>6. ASSUME NEW x \in Hypernode, NEW y \in Hypernode, at(x) = at(y) PROVE Projected(x) = Projected(y)
  BY <1>1, <1>6, StayTogether
<1> HIDE DEF at
<1>7. PICK x \in InitPins[e] : at(x) = z
  BY <1>2, <1>5
<1>8. \A y \in InitPins[e] : at(y) = z
  BY <1>2, <1>5
<1>9. {Projected(y) : y \in InitPins[e]} = {Projected(x)}
  BY <1>4, <1>6, <1>7, <1>8
<1> QED BY <1>9, FS_Singleton

\* A net that a removal was logged of was there.
LEMMA LoggedRemoval ==
  ASSUME P!UndoChain, NEW j \in 1 .. Len(log), log[j].op = "remove"
  PROVE  log[j].e \in log[j].before.edges
<1>1. P!LeadsTo(log[j], P!After(j))
  BY DEF P!UndoChain
<1> QED BY <1>1 DEF P!LeadsTo

\* What the invariant says of the nets of a level and those of the input.
LEMMA InvProjected ==
  ASSUME P!UndoChain, Inv, phase = "refining", NEW e \in hg.edges
  PROVE  /\ netPart[e].blocks = {Projected(x) : x \in InitPins[e]}
         /\ netPart[e].connectivity = Cardinality({Projected(x) : x \in InitPins[e]})
<1>1. /\ part \in Partition /\ Exact(netPart[e], hg.pins[e], part)
      /\ \A x \in hg.nodes : part[x] # NoBlock
  BY DEF Inv, PartitionTypeOK, NetsExact, AssignmentComplete, AllAssigned, Assigned
<1>2. hg.pins[e] \in SUBSET hg.nodes /\ hg.nodes \in SUBSET Hypernode
  BY CurrentSound DEF Sound
<1>3. hg.pins[e] = {Representative(x) : x \in InitPins[e]}
  BY PinsFollow
<1>4. netPart[e].blocks = {part[y] : y \in hg.pins[e]}
  <2>1. \A y \in hg.pins[e] : part[y] \in Block
    BY <1>1, <1>2 DEF Partition
  <2> QED BY <1>1, <2>1 DEF Exact, In
<1>5. {part[y] : y \in hg.pins[e]} = {part[Representative(x)] : x \in InitPins[e]}
  BY <1>3
<1>6. netPart[e].blocks = {Projected(x) : x \in InitPins[e]}
  BY <1>4, <1>5 DEF Projected
<1> QED BY <1>1, <1>6 DEF Exact

\* While refining, every net of the level connects the blocks that the net of
\* the input connects under the projected partition.
THEOREM ObjectiveIsProjected == Spec => []ObjectiveProjected
<1>1. P!UndoChain /\ Inv => ObjectiveProjected
  BY InvProjected DEF ObjectiveProjected
<1>2. Spec => [](P!UndoChain /\ Inv)
  <2>1. Init => Inv
    BY InvInitially
  <2>2. P!UndoChain /\ Inv /\ [Next]_vars => Inv'
    BY InvInductive
  <2> QED BY <2>1, <2>2, Chained, PTL DEF Spec
<1> QED BY <1>1, <1>2, PTL

\* What an operation of the log did: hypernodes are followed into its result, and
\* weigh together what they weighed before.
LEMMA EntryWeights ==
  ASSUME P!UndoChain, NEW i \in 1 .. Len(log)
  PROVE  /\ \A y \in P!After(i - 1).nodes : Up(log[i], y) \in P!After(i).nodes
         /\ \A X \in SUBSET P!After(i).nodes :
              LET Y == {y \in P!After(i - 1).nodes : Up(log[i], y) \in X}
              IN  WeightOf(P!After(i), X) = WeightOf(P!After(i - 1), Y)
<1> DEFINE l == log[i]
           s == l.before
           t == P!After(i)
<1>1. P!LeadsTo(l, t) /\ P!After(i - 1) = s
  BY CurrentSound DEF P!UndoChain, P!After
<1> HIDE DEF l, s, t
<1>2. CASE /\ l.op = "contract"
           /\ l.u \in l.before.nodes /\ l.v \in l.before.nodes /\ l.u # l.v
           /\ t = P!Contracted(l.before, l.u, l.v)
  <2>1. Merges(s, l.u, l.v, t)
    BY <1>1, <1>2, ContractedMerges DEF P!LeadsTo, s
  <2>2. l.u \in t.nodes /\ l.v \in s.nodes /\ l.u # l.v /\ t.nodes = s.nodes \ {l.v}
    BY <2>1 DEF Merges
  <2>3. \A y : Up(l, y) = IF y = l.v THEN l.u ELSE y
    BY <1>2 DEF Up
  <2>6. \A N \in SUBSET s.nodes :
          /\ l.u \in N /\ l.v \in N => WeightOf(t, N \ {l.v}) = WeightOf(s, N)
          /\ l.u \notin N => WeightOf(t, N) = WeightOf(s, N)
    <3> SUFFICES ASSUME NEW N \in SUBSET s.nodes
                 PROVE  /\ l.u \in N /\ l.v \in N => WeightOf(t, N \ {l.v}) = WeightOf(s, N)
                        /\ l.u \notin N => WeightOf(t, N) = WeightOf(s, N)
      OBVIOUS
    <3> QED BY <2>1, MergedWeight
  <2>4. ASSUME NEW X \in SUBSET t.nodes
        PROVE  WeightOf(t, X) = WeightOf(s, {y \in s.nodes : Up(l, y) \in X})
    <3>1. CASE l.u \in X
      <4> DEFINE N == X \cup {l.v}
      <4>1. {y \in s.nodes : Up(l, y) \in X} = N
        BY <2>2, <2>3, <3>1
      <4>2. N \in SUBSET s.nodes /\ l.u \in N /\ l.v \in N
        BY <2>2, <3>1
      <4>3. N \ {l.v} = X
        BY <2>2
      <4> HIDE DEF N
      <4>4. WeightOf(t, N \ {l.v}) = WeightOf(s, N)
        BY <2>6, <4>2, Zenon
      <4> QED BY <4>1, <4>3, <4>4
    <3>2. CASE l.u \notin X
      <4>1. X \in SUBSET s.nodes
        BY <2>2
      <4>2. {y \in s.nodes : Up(l, y) \in X} = X
        BY <2>2, <2>3, <3>2
      <4>3. WeightOf(t, X) = WeightOf(s, X)
        BY <2>6, <3>2, <4>1, Zenon
      <4> QED BY <4>2, <4>3
    <3> QED BY <3>1, <3>2
  <2>5. \A y \in s.nodes : Up(l, y) \in t.nodes
    BY <2>2, <2>3
  <2> QED BY <1>1, <2>4, <2>5 DEF l, t
<1>3. CASE l.op = "remove" /\ l.e \in l.before.edges /\ t = P!Removed(l.before, l.e)
  <2>1. Drops(s, l.e, t)
    BY <1>1, <1>3, RemovedDrops DEF P!LeadsTo, s
  <2>2. t.nodes = s.nodes /\ t.weight = s.weight
    BY <2>1 DEF Drops
  <2>3. \A y : Up(l, y) = y
    BY <1>3 DEF Up
  <2>4. ASSUME NEW X \in SUBSET t.nodes
        PROVE  WeightOf(t, X) = WeightOf(s, {y \in s.nodes : Up(l, y) \in X})
    <3>1. {y \in s.nodes : Up(l, y) \in X} = X
      BY <2>2, <2>3
    <3>2. WeightOf(t, X) = WeightOf(s, X)
      BY <2>2, WeightIsTotal
    <3> QED BY <3>1, <3>2
  <2>5. \A y \in s.nodes : Up(l, y) \in t.nodes
    BY <2>2, <2>3
  <2> QED BY <1>1, <2>4, <2>5 DEF l, t
<1> QED BY <1>1, <1>2, <1>3 DEF P!LeadsTo

\* At every level the hypernodes of the input are represented by hypernodes of the
\* level, which weigh together what those they represent weigh in the input.
LEMMA RepresentedWeight ==
  ASSUME P!UndoChain
  PROVE  /\ \A x \in Hypernode : Representative(x) \in hg.nodes
         /\ \A X \in SUBSET hg.nodes :
              WeightOf(hg, X) = Total(InitWeight, {x \in Hypernode : Representative(x) \in X})
<1> DEFINE n == Len(log)
           at(x) == Represented(log, x)
           Good == {i \in 0 .. n :
                      /\ \A x \in Hypernode : at(x)[i] \in P!After(i).nodes
                      /\ \A X \in SUBSET P!After(i).nodes :
                           WeightOf(P!After(i), X) = Total(InitWeight, {x \in Hypernode : at(x)[i] \in X})}
<1>1. log \in Seq(P!LogEntry) /\ n \in Nat
  BY CurrentSound
<1>2. \A x \in Hypernode : Follows(at(x), log, x)
  BY <1>1, RepresentedFollows
<1>3. 0 \in Good
  <2>1. P!After(0).nodes = Hypernode /\ P!After(0).weight = InitWeight
    BY DEF P!UndoChain, P!Original
  <2>2. \A x \in Hypernode : at(x)[0] = x
    BY <1>2 DEF Follows
  <2> HIDE DEF at
  <2>3. ASSUME NEW X \in SUBSET Hypernode
        PROVE  WeightOf(P!After(0), X) = Total(InitWeight, {x \in Hypernode : at(x)[0] \in X})
    <3>1. {x \in Hypernode : at(x)[0] \in X} = X
      BY <2>2
    <3> QED BY <2>1, <3>1, WeightIsTotal
  <2> QED BY <1>1, <2>1, <2>2, <2>3
<1>4. ASSUME NEW i \in 1 .. n, i - 1 \in Good PROVE i \in Good
  <2>1. \A x \in Hypernode : at(x)[i] = Up(log[i], at(x)[i - 1])
    BY <1>2 DEF Follows
  <2> HIDE DEF at
  <2>2. /\ \A x \in Hypernode : at(x)[i - 1] \in P!After(i - 1).nodes
        /\ \A Y \in SUBSET P!After(i - 1).nodes :
             WeightOf(P!After(i - 1), Y) = Total(InitWeight, {x \in Hypernode : at(x)[i - 1] \in Y})
    BY <1>4
  <2>3. \A x \in Hypernode : at(x)[i] \in P!After(i).nodes
    BY <2>1, <2>2, EntryWeights
  <2>4. ASSUME NEW X \in SUBSET P!After(i).nodes
        PROVE  WeightOf(P!After(i), X) = Total(InitWeight, {x \in Hypernode : at(x)[i] \in X})
    <3> DEFINE Y == {y \in P!After(i - 1).nodes : Up(log[i], y) \in X}
    <3>1. WeightOf(P!After(i), X) = WeightOf(P!After(i - 1), Y)
      BY EntryWeights
    <3>2. {x \in Hypernode : at(x)[i] \in X} = {x \in Hypernode : at(x)[i - 1] \in Y}
      BY <2>1, <2>2
    <3>3. Y \in SUBSET P!After(i - 1).nodes
      OBVIOUS
    <3> HIDE DEF Y
    <3> QED BY <2>2, <3>1, <3>2, <3>3
  <2> QED BY <1>1, <2>3, <2>4
<1>5. n \in Good
  <2>1. \A i \in 1 .. n : i - 1 \in Good => i \in Good
    BY <1>4
  <2> HIDE DEF Good
  <2> QED BY <1>1, <1>3, <2>1, CountInduction
<1>6. P!After(n) = hg /\ \A x : at(x)[n] = Representative(x)
  BY DEF P!After, Representative
<1> QED BY <1>5, <1>6

\* The weight of a block is what the hypernodes of the input that are projected to
\* it weigh there.
LEMMA ProjectedWeight ==
  ASSUME P!UndoChain, Inv, NEW b \in Block
  PROVE  block[b].weight = Total(InitWeight, {x \in Hypernode : Projected(x) = b})
<1>1. block[b].weight = WeightOf(hg, {y \in hg.nodes : part[y] = b})
  BY InvExact DEF PartitionDataExact, PartInfoExact
<1>2. {x \in Hypernode : Representative(x) \in {y \in hg.nodes : part[y] = b}}
        = {x \in Hypernode : Projected(x) = b}
  BY RepresentedWeight DEF Projected
<1> QED BY <1>1, <1>2, RepresentedWeight

\* Undoing the last operation leaves every hypernode of the input in its block.
LEMMA UndoProjects ==
  ASSUME P!UndoChain, Inv, log # << >>, log' = Front(log), NEW x \in Hypernode,
         part' = IF Last(log).op = "contract" THEN [part EXCEPT ![Last(log).v] = part[Last(log).u]] ELSE part,
         Last(log).op = "contract" => Last(log).u # Last(log).v
  PROVE  Projected(x)' = Projected(x)
<1> DEFINE n == Len(log)
           l == Last(log)
           g == Represented(log, x)
           h == Represented(log', x)
<1>1. /\ log \in Seq(P!LogEntry) /\ log' \in Seq(P!LogEntry)
      /\ n \in Nat \ {0} /\ Len(log') = n - 1
      /\ \A i \in 1 .. n - 1 : log'[i] = log[i]
      /\ l = log[n]
  <2>1. log \in Seq(P!LogEntry)
    BY CurrentSound
  <2> QED BY <2>1, IncidenceConstants, P!PopBelow, SameLibrary
<1>2. Follows(g, log, x) /\ Follows(h, log', x)
  BY <1>1, RepresentedFollows
<1>3. g[n - 1] = h[n - 1]
  <2>1. n - 1 \in Nat /\ n - 1 <= Len(log) /\ n - 1 <= Len(log')
    BY <1>1
  <2> HIDE DEF g, h, n
  <2>2. Len(log) \in Nat /\ Len(log') \in Nat /\ \A i \in 1 .. n - 1 : log[i] = log'[i]
    BY <1>1 DEF n
  <2> QED BY <1>2, <2>1, <2>2, FollowsAgree
<1>4. g[n] = Up(l, g[n - 1]) /\ g[n - 1] \in Hypernode
  BY <1>1, <1>2 DEF Follows
<1>5. Projected(x) = part[g[n]] /\ Projected(x)' = part'[h[n - 1]]
  BY <1>1 DEF Projected, Representative
<1> HIDE DEF g, h, n, l
<1>6. part \in Partition
  BY DEF Inv, PartitionTypeOK
<1>7. CASE l.op = "contract"
  <2>1. part' = [part EXCEPT ![l.v] = part[l.u]]
    BY <1>7 DEF l
  <2>2. g[n] = IF g[n - 1] = l.v THEN l.u ELSE g[n - 1]
    BY <1>4, <1>7 DEF Up
  <2> QED BY <1>3, <1>4, <1>5, <1>6, <2>1, <2>2 DEF Partition
<1>8. CASE l.op # "contract"
  <2>1. part' = part
    BY <1>8 DEF l
  <2>2. g[n] = g[n - 1]
    BY <1>4, <1>8 DEF Up
  <2> QED BY <1>3, <1>5, <2>1, <2>2
<1> QED BY <1>7, <1>8

\* Restoring a level never changes the projected partition of the input.
THEOREM UndoProjected == Spec => UndoKeepsPartition
<1>1. ASSUME P!UndoChain, Inv, [Next]_vars, Len(log') < Len(log), NEW x \in Hypernode
      PROVE  Projected(x)' = Projected(x)
  <2>0. log \in Seq(P!LogEntry) /\ Len(log) \in Nat /\ hg \in P!Structure
    BY <1>1, CurrentSound DEF P!UndoChain, P!WellFormed
  <2>1. CASE Uncontract
    <3>1. /\ log # << >> /\ log' = Front(log) /\ Last(log).op = "contract"
          /\ Merges(hg', Last(log).u, Last(log).v, hg)
      BY <1>1, <2>1, UncontractMerges DEF Uncontract
    <3>2. part' = [part EXCEPT ![Last(log).v] = part[Last(log).u]]
      BY <2>1 DEF Uncontract, InheritedPart
    <3>3. Last(log).u # Last(log).v
      BY <3>1 DEF Merges
    <3> QED BY <1>1, <3>1, <3>2, <3>3, UndoProjects
  <2>2. CASE RestoreEdge \/ \E rep \in Hyperedge : RestoreParallelEdge(rep)
    <3>1. I!RestoreEdge /\ part' = part
      BY <2>2 DEF RestoreEdge, RestoreParallelEdge
    <3>2. log # << >> /\ log' = Front(log) /\ Last(log).op = "remove"
      BY <1>1, <3>1, RestoreDrops, SameLibrary DEF I!RestoreEdge, I!Undoes
    <3> QED BY <1>1, <3>1, <3>2, UndoProjects
  <2>3. CASE \E u, v \in Hypernode : Contract(u, v)
    <3>1. PICK u \in Hypernode, v \in Hypernode : Contract(u, v)
      BY <2>3
    <3> DEFINE l == [op |-> "contract", u |-> u, v |-> v, before |-> hg]
    <3>2. log' = Append(log, l)
      BY <1>1, <3>1, ContractMerges DEF Contract
    <3>3. l \in P!LogEntry
      BY <2>0 DEF P!LogEntry
    <3> HIDE DEF l
    <3>4. Len(log') = Len(log) + 1
      BY <2>0, <3>2, <3>3
    <3> QED BY <1>1, <2>0, <3>4
  <2>4. CASE \E e \in Hyperedge : RemoveEdge(e)
    <3>1. PICK e \in Hyperedge : RemoveEdge(e)
      BY <2>4
    <3> DEFINE l == [op |-> "remove", e |-> e, before |-> hg]
    <3>2. log' = Append(log, l)
      BY <1>1, <3>1, RemoveDrops DEF RemoveEdge
    <3>3. l \in P!LogEntry
      BY <2>0 DEF P!LogEntry
    <3> HIDE DEF l
    <3>4. Len(log') = Len(log) + 1
      BY <2>0, <3>2, <3>3
    <3> QED BY <1>1, <2>0, <3>4
  <2>5. CASE \/ \E v \in Hypernode, b \in Block : SetNodePart(v, b)
             \/ ResetPartitioning
             \/ InitializeNumCutHyperedges
             \/ \E v \in Hypernode, b \in Block : ChangeNodePart(v, b)
             \/ StartVCycle
             \/ UNCHANGED vars
    <3>1. log' = log
      BY <2>5 DEF SetNodePart, ResetPartitioning, InitializeNumCutHyperedges, ChangeNodePart, StartVCycle, vars
    <3> QED BY <1>1, <2>0, <3>1
  <2> QED BY <1>1, <2>1, <2>2, <2>3, <2>4, <2>5 DEF Next
<1>2. P!UndoChain /\ Inv /\ [Next]_vars
        => [Len(log') < Len(log) => \A v \in Hypernode : Projected(v)' = Projected(v)]_vars
  BY <1>1
<1>3. Init => Inv
  BY InvInitially
<1>4. P!UndoChain /\ Inv /\ [Next]_vars => Inv'
  BY InvInductive
<1> QED BY <1>2, <1>3, <1>4, Chained, PTL DEF Spec, UndoKeepsPartition
=============================================================================
