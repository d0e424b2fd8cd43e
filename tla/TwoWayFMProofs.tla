--------------------------- MODULE TwoWayFMProofs ---------------------------
(***************************************************************************)
(* Proofs about TwoWayFM, for every hypergraph, every partition into two   *)
(* blocks, every number of V-cycles and whatever flow refinement and the   *)
(* stopping policy decide: the gain cache, the queue, the locks and the    *)
(* metrics of the search stay exact although they are only ever corrected. *)
(* TwoWayFMGains shows that the search keeps them so on a level that is    *)
(* exact itself; here the level comes from the proofs about NLevel.        *)
(***************************************************************************)
EXTENDS TwoWayFMGains

\* The proofs about NLevel, for the level of this module.
P == INSTANCE NLevelProofs

\* The constants satisfy what the proofs about NLevel assume.
LEMMA LevelConstants ==
  /\ P!IsFiniteSet(Hypernode) /\ Hypernode # {}
  /\ P!IsFiniteSet(Hyperedge)
  /\ InitPins \in [Hyperedge -> SUBSET Hypernode]
  /\ InitNumPins \in Nat
  /\ InitWeight \in [Hypernode -> Nat]
  /\ P!IsFiniteSet(Block) /\ Block # {} /\ NoBlock \notin Block
  /\ NoCount \notin Int
  /\ FixedPart \in [Hypernode -> Block \cup {NoBlock}]
  /\ MaxVCycles \in Nat
  /\ InitEdgeWeight \in [Hyperedge -> Nat]
  /\ MaxNodeWeight \in Nat
  /\ TimeLimited \subseteq 0 .. MaxVCycles
<1>1. \A S : P!IsFiniteSet(S) <=> IsFiniteSet(S)
  BY DEF P!IsFiniteSet, IsFiniteSet
<1>2. Block # {}
  BY TwoBlocks, FS_EmptySet
<1> QED BY <1>1, <1>2, HypergraphAssumption

\* The level takes the same steps in both instances of NLevel: their
\* definitions are the same, down to the operators of the library.
LEMMA SameSteps ==
  /\ \A u, v : N!PerformContraction(u, v) <=> P!PerformContraction(u, v)
  /\ \A e : N!RemoveSingle(e) <=> P!RemoveSingle(e)
  /\ \A rep, e : N!RemoveParallel(rep, e) <=> P!RemoveParallel(rep, e)
  /\ \A v, b : N!SetNodePart(v, b) <=> P!SetNodePart(v, b)
  /\ N!StartVCycle <=> P!StartVCycle
  /\ N!InitializeNumCutHyperedges <=> P!InitializeNumCutHyperedges
  /\ N!BeginLevel <=> P!BeginLevel
  /\ N!RestoreParallel <=> P!RestoreParallel
  /\ N!ParallelRestored <=> P!ParallelRestored
  /\ N!RestoreSingle <=> P!RestoreSingle
  /\ N!Uncontract <=> P!Uncontract
  /\ \A v, b : N!ChangeNodePart(v, b) <=> P!ChangeNodePart(v, b)
  /\ N!Init <=> P!Init
  /\ N!RestoresInReverse <=> P!RestoresInReverse
<1> USE DEF N!Absorbing, N!Cardinality, N!H!Assigned, N!H!Cardinality, N!H!I!Cardinality, N!H!Incremented,
            N!H!IsFixed, N!Last, N!ParallelNets, N!SingleNets, N!loop, N!pruner, P!Absorbing,
            P!Cardinality, P!H!Assigned, P!H!Cardinality, P!H!I!Cardinality, P!H!Incremented,
            P!H!IsFixed, P!Last, P!ParallelNets, P!SingleNets, P!loop, P!pruner
<1>1. ASSUME NEW u, NEW v PROVE N!PerformContraction(u, v) <=> P!PerformContraction(u, v)
  BY Zenon DEF N!ContractedHash, N!Contractible, N!H!Contract, N!H!ContractedCounts, N!H!Decremented,
               N!H!I!Contract, N!H!I!Contracted, N!H!I!SharedNets, N!H!NoneAssigned,
               N!PerformContraction, N!Pruned, N!RaisedMaxWeights, N!Rated, P!ContractedHash,
               P!Contractible, P!H!Contract, P!H!ContractedCounts, P!H!Decremented, P!H!I!Contract,
               P!H!I!Contracted, P!H!I!SharedNets, P!H!NoneAssigned, P!PerformContraction, P!Pruned,
               P!RaisedMaxWeights, P!Rated
<1>2. ASSUME NEW e PROVE N!RemoveSingle(e) <=> P!RemoveSingle(e)
  BY Zenon DEF N!H!I!RemoveEdge, N!H!I!Removed, N!H!Invalidated, N!H!NoPins, N!H!Parallel, N!H!RemoveEdge,
               N!RemoveSingle, P!H!I!RemoveEdge, P!H!I!Removed, P!H!Invalidated, P!H!NoPins,
               P!H!Parallel, P!H!RemoveEdge, P!RemoveSingle
<1>3. ASSUME NEW rep, NEW e PROVE N!RemoveParallel(rep, e) <=> P!RemoveParallel(rep, e)
  BY Zenon DEF N!H!I!RemoveEdge, N!H!I!Removed, N!H!Invalidated, N!H!NoPins, N!H!Parallel, N!H!RemoveEdge,
               N!Merged, N!RemoveParallel, P!H!I!RemoveEdge, P!H!I!Removed, P!H!Invalidated,
               P!H!NoPins, P!H!Parallel, P!H!RemoveEdge, P!Merged, P!RemoveParallel
<1>4. ASSUME NEW v, NEW b PROVE N!SetNodePart(v, b) <=> P!SetNodePart(v, b)
  BY Zenon DEF N!H!SetNodePart, N!Pruned, N!SetNodePart, P!H!SetNodePart, P!Pruned, P!SetNodePart
<1>5. N!StartVCycle <=> P!StartVCycle
  BY Zenon DEF N!H!AllAssigned, N!H!StartVCycle, N!HashOf, N!ResetEdgeHashes, N!StartVCycle, P!H!AllAssigned,
               P!H!StartVCycle, P!HashOf, P!ResetEdgeHashes, P!StartVCycle
<1>6. N!InitializeNumCutHyperedges <=> P!InitializeNumCutHyperedges
  BY Zenon DEF N!H!AllAssigned, N!H!CutNetsOf, N!H!InitialCutNets, N!H!InitializeNumCutHyperedges,
               N!InitializeNumCutHyperedges, N!Pruned, P!H!AllAssigned, P!H!CutNetsOf,
               P!H!InitialCutNets, P!H!InitializeNumCutHyperedges, P!InitializeNumCutHyperedges,
               P!Pruned
<1>7. N!BeginLevel <=> P!BeginLevel
  BY Zenon DEF N!BeginLevel, N!LastParallel, N!hypergraph, P!BeginLevel, P!LastParallel, P!hypergraph
<1>8. N!RestoreParallel <=> P!RestoreParallel
  BY Zenon DEF N!Front, N!H!FoldSet, N!H!I!Front, N!H!I!Last, N!H!I!RestoreEdge, N!H!I!Restored, N!H!I!Undoes,
               N!H!Last, N!H!MapThenFoldSet, N!H!Parallel, N!H!Recounted, N!H!RestoreParallelEdge,
               N!RestoreParallel, N!Split, P!Front, P!H!FoldSet, P!H!I!Front, P!H!I!Last,
               P!H!I!RestoreEdge, P!H!I!Restored, P!H!I!Undoes, P!H!Last, P!H!MapThenFoldSet,
               P!H!Parallel, P!H!Recounted, P!H!RestoreParallelEdge, P!RestoreParallel, P!Split
<1>9. N!ParallelRestored <=> P!ParallelRestored
  BY Zenon DEF N!LastSingle, N!ParallelRestored, N!hypergraph, P!LastSingle, P!ParallelRestored, P!hypergraph
<1>10. N!RestoreSingle <=> P!RestoreSingle
  BY Zenon DEF N!Front, N!H!FoldSet, N!H!I!Front, N!H!I!Last, N!H!I!RestoreEdge, N!H!I!Restored, N!H!I!Undoes,
               N!H!Last, N!H!MapThenFoldSet, N!H!Recounted, N!H!RestoreEdge, N!RestoreSingle,
               P!Front, P!H!FoldSet, P!H!I!Front, P!H!I!Last, P!H!I!RestoreEdge, P!H!I!Restored,
               P!H!I!Undoes, P!H!Last, P!H!MapThenFoldSet, P!H!Recounted, P!H!RestoreEdge,
               P!RestoreSingle
<1>11. N!Uncontract <=> P!Uncontract
  BY Zenon DEF N!Front, N!H!I!CutOffNets, N!H!I!Front, N!H!I!Last, N!H!I!ReusedNets, N!H!I!Uncontract,
               N!H!I!Uncontracted, N!H!I!Undoes, N!H!InheritedPart, N!H!Last, N!H!RestoredPartInfo,
               N!H!Uncontract, N!Uncontract, P!Front, P!H!I!CutOffNets, P!H!I!Front, P!H!I!Last,
               P!H!I!ReusedNets, P!H!I!Uncontract, P!H!I!Uncontracted, P!H!I!Undoes,
               P!H!InheritedPart, P!H!Last, P!H!RestoredPartInfo, P!H!Uncontract, P!Uncontract
<1>12. ASSUME NEW v, NEW b PROVE N!ChangeNodePart(v, b) <=> P!ChangeNodePart(v, b)
  BY Zenon DEF N!ChangeNodePart, N!H!BecameCut, N!H!BecameInternal, N!H!ChangeNodePart, N!H!Decremented, N!H!Moved,
               N!H!UpdatedPartInfo, P!ChangeNodePart, P!H!BecameCut, P!H!BecameInternal,
               P!H!ChangeNodePart, P!H!Decremented, P!H!Moved, P!H!UpdatedPartInfo
<1>13. N!Init <=> P!Init
  BY Zenon DEF N!H!FixedWeight, N!H!I!Init, N!H!I!Original, N!H!Init, N!H!MapThenFoldSet, N!H!MapThenSumSet,
               N!H!NoPins, N!H!WeightOf, N!HashOf, N!Heaviest, N!Init, N!Max, P!H!FixedWeight,
               P!H!I!Init, P!H!I!Original, P!H!Init, P!H!MapThenFoldSet, P!H!MapThenSumSet,
               P!H!NoPins, P!H!WeightOf, P!HashOf, P!Heaviest, P!Init, P!Max
<1>14. N!RestoresInReverse <=> P!RestoresInReverse
  BY Zenon DEF N!RestoresInReverse, P!RestoresInReverse
<1> QED BY <1>1, <1>2, <1>3, <1>4, <1>5, <1>6, <1>7, <1>8, <1>9, <1>10, <1>11, <1>12, <1>13, <1>14, Zenon
-----------------------------------------------------------------------------
(* The level under the search.                                               *)

\* Only what the level has done within the time limit: the search of this module
\* is run at every level.
LevelInv == P!Inv /\ P!ProperKept /\ ~ timeUp

\* The steps of the level are steps of NLevel.
LEMMA StepsLevel ==
  ASSUME StepOfLevel
  PROVE  [P!Next]_(P!vars)
<1> USE SameSteps DEF P!Next
<1>1. ASSUME NEW u \in Hypernode, NEW v \in Hypernode, N!PerformContraction(u, v) PROVE P!Next
  BY <1>1
<1>2. ASSUME NEW e \in Hyperedge, N!RemoveSingle(e) PROVE P!Next
  BY <1>2
<1>3. ASSUME NEW rep \in Hyperedge, NEW e \in Hyperedge, N!RemoveParallel(rep, e) PROVE P!Next
  BY <1>3
<1>4. ASSUME NEW v \in Hypernode, NEW b \in Block, N!SetNodePart(v, b) PROVE P!Next
  BY <1>4
<1>5. ASSUME N!StartVCycle \/ N!InitializeNumCutHyperedges PROVE P!Next
  BY <1>5
<1>6. ASSUME N!BeginLevel \/ N!RestoreParallel \/ N!ParallelRestored \/ N!RestoreSingle \/ N!Uncontract PROVE P!Next
  BY <1>6 DEF P!Uncoarsening
<1>7. ASSUME NEW v \in Hypernode, NEW b \in Block, N!ChangeNodePart(v, b) PROVE P!Next
  BY <1>7
<1>8. ASSUME UNCHANGED level PROVE UNCHANGED P!vars
  BY <1>8 DEF level, P!vars, P!hypergraph, P!pruner, P!loop
<1> QED BY <1>1, <1>2, <1>3, <1>4, <1>5, <1>6, <1>7, <1>8 DEF StepOfLevel

\* Every level is as the search needs it.
LEMMA LevelSound ==
  ASSUME LevelInv
  PROVE  LevelExact
<1>1. P!LevelGiven
  BY LevelConstants, P!InvLevel DEF LevelInv
<1>2. Listed(hg) /\ Weighted(edgeWeight)
  BY <1>1 DEF P!LevelGiven, P!P!Sound, Listed, Weighted
<1>3. N!RestoresInReverse
  BY <1>1, SameSteps DEF P!LevelGiven
<1>4. /\ \A S : P!Cardinality(S) = Cardinality(S)
      /\ \A s : P!Last(s) = Last(s)
      /\ \A f, S : P!Total(f, S) = Total(f, S)
  <2>1. \A S : P!Cardinality(S) = Cardinality(S)
    BY Zenon DEF P!Cardinality, Cardinality
  <2>2. \A s : P!Last(s) = Last(s)
    BY DEF P!Last, Last
  <2>3. \A f, S : P!Total(f, S) = Total(f, S)
    BY Zenon DEF P!Total, Total, P!MapThenSumSet, MapThenSumSet, P!MapThenFoldSet, MapThenFoldSet
  <2> QED BY <2>1, <2>2, <2>3
<1>5. LastLogged
  BY <1>1, <1>4 DEF P!LevelGiven, P!LogGiven, LastLogged
<1>6. ASSUME phase = "refining" PROVE PartitionExact
  <2>1. P!PartitionGiven
    BY <1>1, <1>6 DEF P!LevelGiven
  <2>2. Parted(part, hg.nodes)
    BY <2>1 DEF P!PartitionGiven, Parted
  <2>3. Counted(hg, netPart, part)
    BY <2>1, <1>4 DEF P!PartitionGiven, Counted, In
  <2>4. Connects(hg, netPart, part)
    <3> SUFFICES ASSUME NEW e \in hg.edges PROVE netPart[e].connectivity > 1 <=> IsCut(hg.pins[e], part)
      BY DEF Connects
    <3>1. \A x \in hg.pins[e] : part[x] \in Block
      BY <1>2, <2>2 DEF Listed, Parted
    <3>2. netPart[e].connectivity = Cardinality({part[x] : x \in hg.pins[e]})
      BY <2>1, <1>4 DEF P!PartitionGiven
    <3> QED BY <3>1, <3>2, SeveralBlocks
  <2>5. \A v \in hg.nodes : cutNets[v] = Cardinality({e \in hg.nets[v] : netPart[e].connectivity > 1})
    BY <2>1, <1>4 DEF P!PartitionGiven
  <2>6. block \in [Block -> [weight : Int, size : Int, fixedWeight : Int]]
    BY <2>1 DEF P!PartitionGiven
  <2>7. WeightsOf(block) = Weights(hg, part)
    BY <2>1, <1>4 DEF P!PartitionGiven, WeightsOf, Weights
  <2>8. hg.weight \in [Hypernode -> Nat] /\ Last(maxWeights).weight \in Nat
    BY <2>1, <1>4 DEF P!PartitionGiven
  <2> QED BY <2>2, <2>3, <2>4, <2>5, <2>6, <2>7, <2>8 DEF PartitionExact
<1> QED BY <1>2, <1>3, <1>5, <1>6 DEF LevelExact

\* Initially the level is the input.
LEMMA LevelBegins ==
  ASSUME Init
  PROVE  LevelInv
<1>1. P!Init /\ timeUp = FALSE
  BY SameSteps DEF Init, N!Init
<1> QED BY <1>1, LevelConstants, P!Initially, P!InitiallyProper DEF LevelInv

\* The search keeps what is known of the level.
LEMMA LevelStays ==
  ASSUME LevelInv, [Next]_vars
  PROVE  LevelInv'
<1>1. P!Inv /\ P!ProperKept /\ [P!Next]_(P!vars) /\ ~ timeUp'
  BY LevelSound, LevelSteps, StepsLevel, TimeKept DEF LevelInv
<1>2. P!Inv'
  BY <1>1, LevelConstants, P!Inductive
<1>3. P!ProperKept'
  BY <1>1, LevelConstants, P!ProperInductive
<1> QED BY <1>1, <1>2, <1>3 DEF LevelInv

\* A net with a single pin is none that an uncontraction could bring back: it has
\* been removed before the contraction, or was none of the input.
LEMMA UncontractsProper ==
  ASSUME LevelInv, Uncontract, \A e \in Hyperedge : Cardinality(InitPins[e]) > 1
  PROVE  NoSinglePins(hg')
<1>1. \A S : P!Cardinality(S) = Cardinality(S)
  BY Zenon DEF P!Cardinality, Cardinality
<1>2. P!Uncontract
  BY SameSteps DEF Uncontract
<1>3. P!NoSingles(Hyperedge, InitPins)
  BY <1>1 DEF P!NoSingles
<1>4. P!NoSingles(hg'.edges, hg'.pins)
  BY <1>2, <1>3, LevelConstants, P!UncontractWithoutSingles DEF LevelInv
<1> QED BY <1>1, <1>4 DEF P!NoSingles, NoSinglePins
-----------------------------------------------------------------------------
(* The search.                                                               *)

\* The invariant of the level and that of the search are inductive together.
THEOREM SearchInvariant ==
  ASSUME \A e \in Hyperedge : Cardinality(InitPins[e]) > 1
  PROVE  Spec => [](LevelInv /\ SearchInv)
<1>1. Init => LevelInv /\ SearchInv
  BY LevelBegins, SearchInit
<1>2. LevelInv /\ [Next]_vars => LevelInv'
  BY LevelStays
<1>3. LevelInv => LevelExact
  BY LevelSound
<1>4. LevelInv /\ SearchInv /\ LevelExact /\ LevelExact' /\ [Next]_vars => SearchInv'
  <2>1. LevelInv /\ Uncontract => NoSinglePins(hg')
    BY UncontractsProper
  <2> QED BY <2>1, SearchStep
<1> QED BY <1>1, <1>2, <1>3, <1>4, PTL DEF Spec

\* If no net of the input has a single pin (preprocessing removes those that do),
\* the gain cache is exact on every level and in every V-cycle, between the moves
\* of flow refinement and of the search, and after their rollback.
THEOREM GainCacheIsExact ==
  ASSUME \A e \in Hyperedge : Cardinality(InitPins[e]) > 1
  PROVE  Spec => []GainCacheExact
<1>1. LevelInv /\ SearchInv => GainCacheExact
  BY LevelSound, SearchSound
<1> QED BY <1>1, SearchInvariant, PTL

\* So is the queue of moves although locked nets are passed over, the border nodes
\* around a moved hypernode are in it, the queue of a block is enabled iff there is
\* something in it and the block is not overloaded, and locked nets are cut for good.
THEOREM SearchStateIsExact ==
  ASSUME \A e \in Hyperedge : Cardinality(InitPins[e]) > 1
  PROVE  Spec => []SearchStateExact
<1>1. LevelInv /\ SearchInv => SearchStateExact
  BY LevelSound, SearchSound
<1> QED BY <1>1, SearchInvariant, PTL

\* The cut and the imbalance that the search reports are those of its partition.
THEOREM MetricsAreExact ==
  ASSUME \A e \in Hyperedge : Cardinality(InitPins[e]) > 1
  PROVE  Spec => []MetricsExact
<1>1. LevelInv /\ SearchInv => MetricsExact
  BY LevelSound, SearchSound
<1> QED BY <1>1, SearchInvariant, PTL

\* With bounds on the blocks in proportion to their perfect weights, no search ends
\* with a partition that is worse than the one it began with.
THEOREM SearchIsNeverWorse ==
  ASSUME \A e \in Hyperedge : Cardinality(InitPins[e]) > 1, Proportional
  PROVE  Spec => SearchNeverWorse
<1>1. LevelInv /\ SearchInv /\ [Next]_vars =>
        [search.stage = "rollback" /\ search'.stage # "rollback" =>
           /\ Cut' <= search.initialCut
           /\ Cut' = search.initialCut \/ ~ Balanced' =>
                Imbalance(WeightsOf(block))' <= search.initialImbalance]_vars
  BY LevelSound, SearchEndsNoWorse
<1> QED BY <1>1, SearchInvariant, PTL DEF Spec, SearchNeverWorse
=============================================================================
