---------------------------- MODULE NLevelProofs ----------------------------
(***************************************************************************)
(* Proofs about NLevel: until the soft time limit is exceeded, for every   *)
(* hypergraph, every order of contractions the rater may propose and any   *)
(* number of V-cycles, the client calls the hypergraph as Hypergraph       *)
(* allows it and gets back, level by level, what it has recorded.          *)
(***************************************************************************)
EXTENDS NLevelStacks

\* The proofs about Hypergraph, for the hypergraph of this module.
P == INSTANCE HypergraphProofs

\* The operators of the library are the same in all instances.
LEMMA SameLibrary ==
  /\ \A S : P!IsFiniteSet(S) <=> IsFiniteSet(S)
  /\ \A S : H!IsFiniteSet(S) <=> IsFiniteSet(S)
  /\ \A S : P!Cardinality(S) = Cardinality(S)
  /\ \A S : H!Cardinality(S) = Cardinality(S)
  /\ \A s : P!Last(s) = Last(s) /\ P!Front(s) = Front(s)
  /\ \A s : H!Last(s) = Last(s) /\ H!Front(s) = Front(s)
<1>1. \A S : (P!IsFiniteSet(S) <=> IsFiniteSet(S)) /\ (H!IsFiniteSet(S) <=> IsFiniteSet(S))
  BY DEF P!IsFiniteSet, H!IsFiniteSet, IsFiniteSet
<1>2. \A S : P!Cardinality(S) = Cardinality(S)
  BY <1>1 DEF P!Cardinality, Cardinality
<1>3. \A S : H!Cardinality(S) = Cardinality(S)
  BY <1>1 DEF H!Cardinality, Cardinality
<1>4. \A s : P!Last(s) = Last(s) /\ P!Front(s) = Front(s)
  BY DEF P!Last, P!Front, Last, Front
<1>5. \A s : H!Last(s) = Last(s) /\ H!Front(s) = Front(s)
  BY DEF H!Last, H!Front, Last, Front
<1> QED BY <1>1, <1>2, <1>3, <1>4, <1>5

\* The constants of the client satisfy what the proofs about Hypergraph assume.
LEMMA HypergraphConstants ==
  /\ P!IsFiniteSet(Hypernode) /\ P!IsFiniteSet(Hyperedge)
  /\ InitPins \in [Hyperedge -> SUBSET Hypernode]
  /\ InitNumPins \in Nat
  /\ InitWeight \in [Hypernode -> Nat]
  /\ P!IsFiniteSet(Block) /\ Block # {} /\ NoBlock \notin Block
  /\ NoCount \notin Int
  /\ FixedPart \in [Hypernode -> Block \cup {NoBlock}]
  /\ MaxVCycles \in Nat
BY HypergraphAssumption, SameLibrary

\* The operations on incidences are the same in both instances of Hypergraph.
LEMMA SameOperations ==
  /\ \A s, u, v : H!I!SharedNets(s, u, v) = P!I!SharedNets(s, u, v)
  /\ \A s, u, v : H!I!Contracted(s, u, v) = P!I!Contracted(s, u, v)
  /\ \A s, u, v : H!I!CutOffNets(s, u, v) = P!I!CutOffNets(s, u, v)
  /\ \A s, u, v : H!I!ReusedNets(s, u, v) = P!I!ReusedNets(s, u, v)
  /\ \A s, u, v : H!I!Uncontracted(s, u, v) = P!I!Uncontracted(s, u, v)
  /\ \A s, e : H!I!Removed(s, e) = P!I!Removed(s, e)
  /\ \A s, e : H!I!Restored(s, e) = P!I!Restored(s, e)
  /\ H!I!Original = P!I!Original
<1>0. /\ \A S : P!I!IsFiniteSet(S) <=> H!I!IsFiniteSet(S)
      /\ \A s : P!I!Last(s) = H!I!Last(s) /\ P!I!Front(s) = H!I!Front(s)
  BY DEF P!I!IsFiniteSet, H!I!IsFiniteSet, P!I!Last, H!I!Last, P!I!Front, H!I!Front
<1>01. \A S : P!I!Cardinality(S) = H!I!Cardinality(S)
  BY <1>0 DEF P!I!Cardinality, H!I!Cardinality
<1>1. \A s, u, v : H!I!SharedNets(s, u, v) = P!I!SharedNets(s, u, v)
  BY DEF H!I!SharedNets, P!I!SharedNets
<1>2. \A s, u, v : H!I!Contracted(s, u, v) = P!I!Contracted(s, u, v)
  <2> SUFFICES ASSUME NEW s, NEW u, NEW v PROVE H!I!Contracted(s, u, v) = P!I!Contracted(s, u, v)
    OBVIOUS
  <2>1. H!I!SharedNets(s, u, v) = P!I!SharedNets(s, u, v)
    BY <1>1
  <2>2. H!I!Cardinality(P!I!SharedNets(s, u, v)) = P!I!Cardinality(P!I!SharedNets(s, u, v))
    BY <1>01
  <2> QED BY <2>1, <2>2, Zenon DEF H!I!Contracted, P!I!Contracted
<1>3. \A s, u, v : H!I!CutOffNets(s, u, v) = P!I!CutOffNets(s, u, v)
  BY <1>0 DEF H!I!CutOffNets, P!I!CutOffNets
<1>4. \A s, u, v : H!I!ReusedNets(s, u, v) = P!I!ReusedNets(s, u, v)
  BY <1>3 DEF H!I!ReusedNets, P!I!ReusedNets
<1>5. \A s, u, v : H!I!Uncontracted(s, u, v) = P!I!Uncontracted(s, u, v)
  <2> SUFFICES ASSUME NEW s, NEW u, NEW v PROVE H!I!Uncontracted(s, u, v) = P!I!Uncontracted(s, u, v)
    OBVIOUS
  <2> QED BY <1>3, <1>4, <1>0, <1>01, Zenon DEF H!I!Uncontracted, P!I!Uncontracted
<1>6. \A s, e : H!I!Removed(s, e) = P!I!Removed(s, e)
  BY <1>01 DEF H!I!Removed, P!I!Removed
<1>7. \A s, e : H!I!Restored(s, e) = P!I!Restored(s, e)
  BY <1>01 DEF H!I!Restored, P!I!Restored
<1>8. H!I!Original = P!I!Original
  BY DEF H!I!Original, P!I!Original
<1> QED BY <1>1, <1>2, <1>3, <1>4, <1>5, <1>6, <1>7, <1>8

\* So are the actions on incidences.
LEMMA SameIncidenceActions ==
  /\ H!I!Init <=> P!I!Init
  /\ \A u, v : H!I!Contract(u, v) <=> P!I!Contract(u, v)
  /\ \A e : H!I!RemoveEdge(e) <=> P!I!RemoveEdge(e)
  /\ H!I!Uncontract <=> P!I!Uncontract
  /\ H!I!RestoreEdge <=> P!I!RestoreEdge
  /\ H!I!TypeOK <=> P!I!TypeOK
<1>0. \A s : P!I!Last(s) = H!I!Last(s) /\ P!I!Front(s) = H!I!Front(s)
  BY DEF P!I!Last, H!I!Last, P!I!Front, H!I!Front
<1>1. ASSUME NEW u, NEW v PROVE H!I!Contract(u, v) <=> P!I!Contract(u, v)
  BY SameOperations DEF H!I!Contract, P!I!Contract
<1>2. ASSUME NEW e PROVE H!I!RemoveEdge(e) <=> P!I!RemoveEdge(e)
  BY SameOperations DEF H!I!RemoveEdge, P!I!RemoveEdge
<1>3. H!I!Uncontract <=> P!I!Uncontract
  BY SameOperations, <1>0 DEF H!I!Uncontract, P!I!Uncontract, H!I!Undoes, P!I!Undoes
<1>4. H!I!RestoreEdge <=> P!I!RestoreEdge
  BY SameOperations, <1>0 DEF H!I!RestoreEdge, P!I!RestoreEdge, H!I!Undoes, P!I!Undoes
<1>5. H!I!Init <=> P!I!Init
  BY SameOperations DEF H!I!Init, P!I!Init
<1>8. H!I!TypeOK <=> P!I!TypeOK
  BY DEF H!I!TypeOK, P!I!TypeOK, H!I!Structure, P!I!Structure, H!I!LogEntry, P!I!LogEntry
<1> QED BY <1>1, <1>2, <1>3, <1>4, <1>5, <1>8

\* The definitions of Hypergraph mean the same in both instances.
LEMMA SameDefinitions ==
  /\ \A s, N : H!WeightOf(s, N) = P!WeightOf(s, N)
  /\ \A e : H!Recounted(e) = P!Recounted(e)
  /\ \A v : H!IsFixed(v) <=> P!IsFixed(v)
  /\ \A v : H!Assigned(v) <=> P!Assigned(v)
  /\ H!NoneAssigned <=> P!NoneAssigned
  /\ H!AllAssigned <=> P!AllAssigned
  /\ \A b : H!FixedWeight(b) = P!FixedWeight(b)
  /\ \A c, b : H!Incremented(c, b) = P!Incremented(c, b) /\ H!Decremented(c, b) = P!Decremented(c, b)
<1>1. \A v : (H!IsFixed(v) <=> P!IsFixed(v)) /\ (H!Assigned(v) <=> P!Assigned(v))
  BY DEF H!IsFixed, P!IsFixed, H!Assigned, P!Assigned
<1>2. \A s, N : H!WeightOf(s, N) = P!WeightOf(s, N)
  BY Zenon DEF H!WeightOf, P!WeightOf, H!MapThenSumSet, P!MapThenSumSet, H!MapThenFoldSet, P!MapThenFoldSet
<1>3. \A c, b : H!Incremented(c, b) = P!Incremented(c, b) /\ H!Decremented(c, b) = P!Decremented(c, b)
  BY Zenon DEF H!Incremented, P!Incremented, H!Decremented, P!Decremented
<1>4. ASSUME NEW e PROVE H!Recounted(e) = P!Recounted(e)
  BY Zenon DEF H!Recounted, P!Recounted, H!FoldSet, P!FoldSet, H!MapThenFoldSet, P!MapThenFoldSet,
               H!Assigned, P!Assigned, H!Incremented, P!Incremented
<1>5. (H!NoneAssigned <=> P!NoneAssigned) /\ (H!AllAssigned <=> P!AllAssigned)
  BY <1>1 DEF H!NoneAssigned, P!NoneAssigned, H!AllAssigned, P!AllAssigned
<1>6. ASSUME NEW b PROVE H!FixedWeight(b) = P!FixedWeight(b)
  BY <1>2 DEF H!FixedWeight, P!FixedWeight
<1> QED BY <1>1, <1>2, <1>3, <1>4, <1>5, <1>6

\* So are its actions.
LEMMA SameActions ==
  /\ H!Init <=> P!Init
  /\ \A u, v : H!Contract(u, v) <=> P!Contract(u, v)
  /\ \A e : H!RemoveEdge(e) <=> P!RemoveEdge(e)
  /\ \A v, b : H!SetNodePart(v, b) <=> P!SetNodePart(v, b)
  /\ H!ResetPartitioning <=> P!ResetPartitioning
  /\ H!InitializeNumCutHyperedges <=> P!InitializeNumCutHyperedges
  /\ H!Uncontract <=> P!Uncontract
  /\ H!RestoreEdge <=> P!RestoreEdge
  /\ \A rep : H!RestoreParallelEdge(rep) <=> P!RestoreParallelEdge(rep)
  /\ \A v, b : H!ChangeNodePart(v, b) <=> P!ChangeNodePart(v, b)
  /\ H!StartVCycle <=> P!StartVCycle
  /\ H!vars = P!vars
<1>1. H!NoPins = P!NoPins
  BY DEF H!NoPins, P!NoPins
<1>2. \A e, rep : H!Parallel(e, rep) <=> P!Parallel(e, rep)
  BY DEF H!Parallel, P!Parallel
<1>3. H!Init <=> P!Init
  BY <1>1, SameDefinitions, SameIncidenceActions DEF H!Init, P!Init
<1>4. ASSUME NEW u, NEW v PROVE H!Contract(u, v) <=> P!Contract(u, v)
  BY SameOperations, SameDefinitions, SameIncidenceActions, Zenon
  DEF H!Contract, P!Contract, H!ContractedCounts, P!ContractedCounts
<1>5. ASSUME NEW e PROVE H!RemoveEdge(e) <=> P!RemoveEdge(e)
  BY <1>1, <1>2, SameLibrary, SameIncidenceActions DEF H!RemoveEdge, P!RemoveEdge, H!Invalidated, P!Invalidated
<1>6. ASSUME NEW v, NEW b PROVE H!SetNodePart(v, b) <=> P!SetNodePart(v, b)
  BY SameDefinitions DEF H!SetNodePart, P!SetNodePart
<1>7. H!ResetPartitioning <=> P!ResetPartitioning
  BY <1>1, SameDefinitions DEF H!ResetPartitioning, P!ResetPartitioning
<1>8. H!InitializeNumCutHyperedges <=> P!InitializeNumCutHyperedges
  BY SameLibrary, SameDefinitions DEF H!InitializeNumCutHyperedges, P!InitializeNumCutHyperedges,
     H!InitialCutNets, P!InitialCutNets, H!CutNetsOf, P!CutNetsOf
<1>9. H!Uncontract <=> P!Uncontract
  <2>1. /\ \A S : H!Cardinality(S) = P!Cardinality(S)
        /\ H!Last(log) = P!Last(log)
    BY SameLibrary
  <2>2. \A u, v : /\ H!InheritedPart(u, v) = P!InheritedPart(u, v)
                  /\ H!RestoredPartInfo(u, v) = P!RestoredPartInfo(u, v)
    BY SameDefinitions, Zenon
    DEF H!InheritedPart, P!InheritedPart, H!RestoredPartInfo, P!RestoredPartInfo, H!IsFixed, P!IsFixed
  <2> DEFINE Does(undo, u, v, counted, i, n, inherited, info, f, g) ==
               /\ phase = "refining"
               /\ undo
               /\ part' = inherited
               /\ netPart' = counted
               /\ cutNets' = [cutNets EXCEPT ![u] = @ - n, ![v] = @ + i + n]
               /\ block' = info
               /\ fixedVertices' = IF f /\ g THEN fixedVertices \cup {v} ELSE fixedVertices
               /\ UNCHANGED <<phase, vcycle>>
             hu == H!Last(log).u
             hv == H!Last(log).v
             hcounted == [e \in Hyperedge |-> IF e \in H!I!CutOffNets(hg, hu, hv)
                                              THEN H!Incremented(netPart[e], part[hu]) ELSE netPart[e]]
             hcut(E) == {e \in E : hcounted[e].connectivity > 1}
             u == P!Last(log).u
             v == P!Last(log).v
             counted == [e \in Hyperedge |-> IF e \in P!I!CutOffNets(hg, u, v)
                                             THEN P!Incremented(netPart[e], part[u]) ELSE netPart[e]]
             cut(E) == {e \in E : counted[e].connectivity > 1}
  <2>3. H!Uncontract <=> Does(H!I!Uncontract, hu, hv, hcounted, H!Cardinality(hcut(H!I!CutOffNets(hg, hu, hv))),
                              H!Cardinality(hcut(H!I!ReusedNets(hg, hu, hv))),
                              H!InheritedPart(hu, hv), H!RestoredPartInfo(hu, hv), H!IsFixed(hu), H!IsFixed(hv))
    BY Zenon DEF H!Uncontract
  <2>4. P!Uncontract <=> Does(P!I!Uncontract, u, v, counted, P!Cardinality(cut(P!I!CutOffNets(hg, u, v))),
                              P!Cardinality(cut(P!I!ReusedNets(hg, u, v))),
                              P!InheritedPart(u, v), P!RestoredPartInfo(u, v), P!IsFixed(u), P!IsFixed(v))
    BY Zenon DEF P!Uncontract
  <2>5. hu = u /\ hv = v
    BY <2>1
  <2>6. H!I!CutOffNets(hg, hu, hv) = P!I!CutOffNets(hg, u, v) /\ H!I!ReusedNets(hg, hu, hv) = P!I!ReusedNets(hg, u, v)
    BY <2>5, SameOperations
  <2>7. hcounted = counted
    BY <2>5, <2>6, SameDefinitions
  <2>8. /\ H!Cardinality(hcut(H!I!CutOffNets(hg, hu, hv))) = P!Cardinality(cut(P!I!CutOffNets(hg, u, v)))
        /\ H!Cardinality(hcut(H!I!ReusedNets(hg, hu, hv))) = P!Cardinality(cut(P!I!ReusedNets(hg, u, v)))
    <3> HIDE DEF hcounted, counted
    <3> QED BY <2>1, <2>6, <2>7
  <2>9. /\ H!InheritedPart(hu, hv) = P!InheritedPart(u, v)
        /\ H!RestoredPartInfo(hu, hv) = P!RestoredPartInfo(u, v)
        /\ (H!IsFixed(hu) <=> P!IsFixed(u)) /\ (H!IsFixed(hv) <=> P!IsFixed(v))
        /\ H!I!Uncontract <=> P!I!Uncontract
    BY <2>2, <2>5, SameDefinitions, SameIncidenceActions
  <2> HIDE DEF hu, hv, u, v, hcounted, counted, hcut, cut
  <2>10. Does(H!I!Uncontract, hu, hv, hcounted, H!Cardinality(hcut(H!I!CutOffNets(hg, hu, hv))),
              H!Cardinality(hcut(H!I!ReusedNets(hg, hu, hv))),
              H!InheritedPart(hu, hv), H!RestoredPartInfo(hu, hv), H!IsFixed(hu), H!IsFixed(hv)) <=>
         Does(P!I!Uncontract, u, v, counted, P!Cardinality(cut(P!I!CutOffNets(hg, u, v))),
              P!Cardinality(cut(P!I!ReusedNets(hg, u, v))),
              P!InheritedPart(u, v), P!RestoredPartInfo(u, v), P!IsFixed(u), P!IsFixed(v))
    BY <2>5, <2>7, <2>8, <2>9
  <2> QED BY <2>3, <2>4, <2>10
<1>10. H!RestoreEdge <=> P!RestoreEdge
  BY SameLibrary, SameDefinitions, SameIncidenceActions DEF H!RestoreEdge, P!RestoreEdge
<1>11. ASSUME NEW rep PROVE H!RestoreParallelEdge(rep) <=> P!RestoreParallelEdge(rep)
  BY <1>2, SameLibrary, SameDefinitions, SameIncidenceActions DEF H!RestoreParallelEdge, P!RestoreParallelEdge
<1>12. ASSUME NEW v, NEW b PROVE H!ChangeNodePart(v, b) <=> P!ChangeNodePart(v, b)
  <2>1. \A e, from, to : H!Moved(e, from, to) = P!Moved(e, from, to)
    BY SameDefinitions DEF H!Moved, P!Moved
  <2>2. \A e, from, to : /\ H!BecameCut(e, from, to) <=> P!BecameCut(e, from, to)
                         /\ H!BecameInternal(e, from, to) <=> P!BecameInternal(e, from, to)
    <3>1. \A S : H!Cardinality(S) = P!Cardinality(S)
      BY SameLibrary
    <3> SUFFICES ASSUME NEW e, NEW from, NEW to
                 PROVE  /\ H!BecameCut(e, from, to) <=> P!BecameCut(e, from, to)
                        /\ H!BecameInternal(e, from, to) <=> P!BecameInternal(e, from, to)
      OBVIOUS
    <3>2. H!Moved(e, from, to) = P!Moved(e, from, to) /\ H!Cardinality(hg.pins[e]) = P!Cardinality(hg.pins[e])
      BY <2>1, <3>1
    <3> QED BY <3>2 DEF H!BecameCut, P!BecameCut, H!BecameInternal, P!BecameInternal
  <2>3. \A from, to : H!UpdatedPartInfo(v, from, to) = P!UpdatedPartInfo(v, from, to)
    BY Zenon DEF H!UpdatedPartInfo, P!UpdatedPartInfo
  <2> QED BY <2>1, <2>2, <2>3, SameLibrary, SameDefinitions, Zenon DEF H!ChangeNodePart, P!ChangeNodePart
<1>13. H!StartVCycle <=> P!StartVCycle
  BY SameDefinitions DEF H!StartVCycle, P!StartVCycle
<1>14. H!vars = P!vars
  BY DEF H!vars, P!vars
<1> QED BY <1>3, <1>4, <1>5, <1>6, <1>7, <1>8, <1>9, <1>10, <1>11, <1>12, <1>13, <1>14

\* A step that does not exceed the time limit makes at most one call into the
\* hypergraph.
LEMMA StepHypergraph ==
  ASSUME P!P!UndoChain, [Next]_vars, ~ timeUp'
  PROVE  [P!Next]_(P!vars)
<1> USE SameActions DEF P!Next
<1>1. ASSUME NEW u \in Hypernode, NEW v \in Hypernode, PerformContraction(u, v) PROVE P!Next
  BY <1>1 DEF PerformContraction
<1>2. ASSUME NEW e \in Hyperedge, RemoveSingle(e) PROVE P!Next
  BY <1>2 DEF RemoveSingle
<1>3. ASSUME NEW rep \in Hyperedge, NEW e \in Hyperedge, RemoveParallel(rep, e) PROVE P!Next
  BY <1>3 DEF RemoveParallel
<1>4. ASSUME NEW v \in Hypernode, NEW b \in Block, SetNodePart(v, b) PROVE P!Next
  BY <1>4 DEF SetNodePart
<1>5. CASE ResetPartitioning
  BY <1>5 DEF ResetPartitioning
<1>6. CASE InitializeNumCutHyperedges
  BY <1>6 DEF InitializeNumCutHyperedges
<1>7. CASE BeginLevel \/ ParallelRestored
  BY <1>7 DEF BeginLevel, ParallelRestored, hypergraph, P!vars
<1>8. CASE RestoreParallel
  <2>1. P!RestoreParallelEdge(removedParallel[cursor].representative)
    BY <1>8 DEF RestoreParallel
  <2>2. removedParallel[cursor].representative \in Hyperedge
    BY <2>1, P!CurrentSound, HypergraphConstants DEF P!RestoreParallelEdge, P!Parallel, P!Sound
  <2> QED BY <2>1, <2>2
<1>9. CASE RestoreSingle
  BY <1>9 DEF RestoreSingle
<1>10. CASE Uncontract
  BY <1>10 DEF Uncontract
<1>11. ASSUME NEW v \in Hypernode, NEW b \in Block, ChangeNodePart(v, b) PROVE P!Next
  BY <1>11 DEF ChangeNodePart
<1>12. CASE SoftTimeLimit
  BY <1>12 DEF SoftTimeLimit
<1>13. CASE StartVCycle
  BY <1>13 DEF StartVCycle
<1>14. CASE UNCHANGED vars
  BY <1>14 DEF vars, hypergraph, P!vars
<1> QED BY <1>1, <1>2, <1>3, <1>4, <1>5, <1>6, <1>7, <1>8, <1>9, <1>10, <1>11, <1>12, <1>13, <1>14 DEF Next, Uncoarsening

HypergraphKept == P!P!UndoChain /\ P!Inv

Inv ==
  /\ HypergraphKept
  /\ ClientTyped
  /\ StackKept
  /\ LoopKept
  /\ SinglesFirst
  /\ RepresentativeEnabled
  /\ NetsAccounted
  /\ RemovalsLogged
  /\ WeightsKept
  /\ LevelsShrink
  /\ MaxWeightsKept

-----------------------------------------------------------------------------
\* The calls into the hypergraph, as pushes to the log and pops from it.
LEMMA LogTyped ==
  ASSUME P!P!UndoChain
  PROVE  /\ P!Sound(hg) /\ log \in Seq(P!P!LogEntry) /\ Len(log) \in Nat
         /\ \A j \in 1 .. Len(log) : log[j] \in P!P!LogEntry
<1>1. P!Sound(hg) /\ log \in Seq(P!P!LogEntry)
  BY P!CurrentSound, HypergraphConstants
<1> QED BY <1>1, ElementOfSeq, LenProperties

\* What the client knows of contract: u and v are merged, and that is logged.
LEMMA ContractCall ==
  ASSUME P!P!UndoChain, NEW u \in Hypernode, NEW v \in Hypernode, H!Contract(u, v)
  PROVE  /\ P!Merges(hg, u, v, hg')
         /\ log' = Append(log, [op |-> "contract", u |-> u, v |-> v, before |-> hg])
         /\ [op |-> "contract", u |-> u, v |-> v, before |-> hg] \in P!P!LogEntry
         /\ P!Contract(u, v)
<1>1. P!Contract(u, v)
  BY SameActions
<1>2. P!I!Contract(u, v)
  BY <1>1 DEF P!Contract
<1>3. hg \in P!P!Structure
  BY DEF P!P!UndoChain, P!P!WellFormed
<1> QED BY <1>1, <1>2, <1>3, P!ContractMerges, HypergraphConstants DEF P!P!LogEntry

\* What the client knows of removeEdge: e is taken out, and that is logged.
LEMMA RemoveCall ==
  ASSUME P!P!UndoChain, NEW e \in Hyperedge, H!RemoveEdge(e)
  PROVE  /\ P!Drops(hg, e, hg')
         /\ log' = Append(log, [op |-> "remove", e |-> e, before |-> hg])
         /\ [op |-> "remove", e |-> e, before |-> hg] \in P!P!LogEntry
<1>1. P!RemoveEdge(e)
  BY SameActions
<1>2. P!I!RemoveEdge(e)
  BY <1>1 DEF P!RemoveEdge
<1>3. hg \in P!P!Structure
  BY DEF P!P!UndoChain, P!P!WellFormed
<1> QED BY <1>2, <1>3, P!RemoveDrops, HypergraphConstants DEF P!P!LogEntry

\* What the client knows of restoreEdge: the state before the last removal is back.
LEMMA RestoreCall ==
  ASSUME P!P!UndoChain, H!RestoreEdge \/ \E rep : H!RestoreParallelEdge(rep)
  PROVE  /\ P!Drops(hg', Last(log).e, hg)
         /\ log # << >> /\ log' = Front(log)
         /\ Last(log).op = "remove" /\ hg' = Last(log).before
<1>1. P!I!RestoreEdge
  BY SameActions DEF P!RestoreEdge, P!RestoreParallelEdge
<1>2. /\ P!Drops(hg', P!Last(log).e, hg) /\ log # << >> /\ log' = P!Front(log)
      /\ P!Last(log).op = "remove" /\ hg' = P!Last(log).before
  BY <1>1, P!RestoreDrops, HypergraphConstants
<1> QED BY <1>2, SameLibrary

\* What the client knows of uncontract: the state before the last contraction is
\* back.
LEMMA UncontractCall ==
  ASSUME P!P!UndoChain, H!Uncontract
  PROVE  /\ P!Merges(hg', Last(log).u, Last(log).v, hg)
         /\ log # << >> /\ log' = Front(log)
         /\ Last(log).op = "contract" /\ hg' = Last(log).before
<1>1. P!Uncontract
  BY SameActions
<1>2. P!I!Uncontract
  BY <1>1 DEF P!Uncontract
<1>3. /\ P!Merges(hg', P!Last(log).u, P!Last(log).v, hg)
      /\ log # << >> /\ log' = P!Front(log)
      /\ P!Last(log).op = "contract" /\ hg' = P!Last(log).before
  BY <1>2, P!UncontractMerges, HypergraphConstants
<1> QED BY <1>3, SameLibrary

\* What both the invariant of the hypergraph and the type of the client say, for
\* the lemmas about stacks.
LEMMA ClientParts ==
  ASSUME HypergraphKept, ClientTyped
  PROVE  /\ StackParts(P!P!LogEntry, log, history, removedSingle, removedParallel)
         /\ hg \in P!P!Structure
         /\ Len(history) \in Nat /\ Len(removedSingle) \in Nat /\ Len(removedParallel) \in Nat
         /\ \A i \in 1 .. Len(history) : history[i] \in Memento
<1>1. hg \in P!P!Structure
  BY DEF HypergraphKept, P!P!UndoChain, P!P!WellFormed
<1>2. \A i \in 1 .. Len(history) : history[i] \in Memento
  BY ElementOfSeq DEF ClientTyped
<1> QED BY <1>1, <1>2, LogTyped, LenProperties DEF HypergraphKept, StackParts, ClientTyped

\* A contraction adds weights.
LEMMA WeightsAreNat ==
  ASSUME LevelsShrink, NEW u, NEW v, P!Merges(hg, u, v, hg')
  PROVE  hg'.weight \in [Hypernode -> Nat]
<1>1. /\ u \in Hypernode /\ v \in Hypernode
      /\ hg'.weight = [hg.weight EXCEPT ![u] = @ + hg.weight[v]]
  BY DEF P!Merges, P!Sound
<1>2. hg.weight \in [Hypernode -> Nat]
  BY DEF LevelsShrink, Shrinking
<1> QED BY <1>1, <1>2

\* A contraction begins a level.
LEMMA ContractCore ==
  ASSUME HypergraphKept, CoreKept, LevelsShrink, NEW u \in Hypernode, NEW v \in Hypernode, PerformContraction(u, v)
  PROVE  CoreKept'
<1> DEFINE S == Len(removedSingle)
           Q == Len(removedParallel)
           n == Len(history)
           m == [u |-> u, v |-> v, singleBegin |-> S, singleSize |-> 0, parallelBegin |-> Q, parallelSize |-> 0]
           l == [op |-> "contract", u |-> u, v |-> v, before |-> hg]
<1>0. /\ ClientTyped /\ StackKept /\ LoopKept
      /\ StackParts(P!P!LogEntry, log, history, removedSingle, removedParallel)
      /\ hg \in P!P!Structure
      /\ n \in Nat /\ S \in Nat /\ Q \in Nat
  BY ClientParts DEF CoreKept
<1>1. /\ removedSingle' = removedSingle /\ removedParallel' = removedParallel
      /\ edgeWeight' = edgeWeight /\ pc' = pc /\ cursor' = cursor /\ timeUp' = timeUp
      /\ hash' = ContractedHash(u, v)
      /\ history' = Append(history, m)
      /\ maxWeights' = RaisedMaxWeights(u, hg'.weight[u], Cardinality(hg'.nodes))
      /\ phase = "coarsening" /\ phase' = phase
  BY DEF PerformContraction, H!Contract, pruner, loop
<1>2. /\ log' = Append(log, l) /\ l \in P!P!LogEntry /\ P!Merges(hg, u, v, hg')
  BY ContractCall DEF PerformContraction, HypergraphKept
<1>3. /\ m \in Memento /\ m.singleBegin = S /\ m.parallelBegin = Q
      /\ LastSingle(m) = S /\ LastParallel(m) = Q
      /\ ContractedAs(l, m)
  BY <1>0 DEF Memento, LastSingle, LastParallel, ContractedAs
<1>4. pc = "idle"
  BY <1>0, <1>1 DEF LoopKept
<1> HIDE DEF m, l
<1>5. /\ history' \in Seq(Memento) /\ Len(history') = n + 1 /\ history'[n + 1] = m
      /\ \A i \in 1 .. n : history'[i] = history[i]
      /\ history' # << >> /\ Last(history') = m
  <2>1. history \in Seq(Memento) /\ Len(history) = n /\ history' = Append(history, m) /\ m \in Memento
    BY <1>0, <1>1, <1>3 DEF ClientTyped
  <2> QED BY <2>1, Push
<1>6. StackKept'
  <2>1. Stacked(Append(log, l), Append(history, m), removedSingle, removedParallel)
    BY <1>0, <1>2, <1>3, PushLevel DEF StackKept
  <2> QED BY <1>1, <1>2, <2>1 DEF StackKept
<1>7. LoopKept'
  <2>1. ASSUME NEW i \in 1 .. n
        PROVE  /\ LastSingle(history'[i]) = SinglesEnd(history', removedSingle', i)
               /\ LastParallel(history'[i]) = ParallelsEnd(history', removedParallel', i)
    <3>1. CASE i = n
      <4>1. history # << >> /\ Last(history) = history[n] /\ history'[i] = history[n]
        BY <1>0, <1>5, <3>1, EmptySeq DEF Last
      <4>2. LastSingle(history[n]) = S /\ LastParallel(history[n]) = Q
        BY <1>0, <1>4, <4>1 DEF LoopKept
      <4>3. SinglesEnd(history', removedSingle', i) = S /\ ParallelsEnd(history', removedParallel', i) = Q
        BY <1>0, <1>3, <1>5, <3>1 DEF SinglesEnd, ParallelsEnd
      <4> QED BY <4>1, <4>2, <4>3
    <3>2. CASE i # n
      <4>1. i \in 1 .. n - 1 /\ i + 1 \in 1 .. n /\ i # Len(history')
        BY <1>0, <1>5, <3>2
      <4>2. LastSingle(history[i]) = SinglesEnd(history, removedSingle, i) /\ LastParallel(history[i]) = ParallelsEnd(history, removedParallel, i)
        BY <1>0, <4>1 DEF LoopKept, LoopsBelow
      <4> QED BY <1>5, <3>2, <4>1, <4>2 DEF SinglesEnd, ParallelsEnd
    <3> QED BY <3>1, <3>2
  <2>2. Len(history') - 1 = n
    BY <1>0, <1>5
  <2>3. LastSingle(Last(history')) = Len(removedSingle') /\ LastParallel(Last(history')) = Len(removedParallel')
    BY <1>1, <1>3, <1>5
  <2>4. pc' = "idle"
    BY <1>1, <1>4
  <2> QED BY <2>1, <2>2, <2>3, <2>4 DEF LoopKept, LoopsBelow
<1>8. SinglesFirst'
  <2>1. Len(removedParallel') = Q /\ Last(history').parallelBegin = Q /\ ~ (Q > Q)
    BY <1>0, <1>1, <1>3, <1>5
  <2> QED BY <2>1 DEF SinglesFirst
<1>9. ClientTyped'
  <2>1. hash' \in [Hyperedge -> [Hypernode -> Int]]
    BY <1>0, <1>1, HashTyped DEF ClientTyped
  <2>2. maxWeights' \in Seq(MaxWeight)
    <3> DEFINE w == hg'.weight[u]
               c == Cardinality(hg'.nodes)
    <3>1. c \in Nat
      <4>1. hg'.nodes \in SUBSET Hypernode
        BY <1>2 DEF P!Merges, P!Sound
      <4> QED BY <4>1, HypergraphAssumption, FS_Subset, FS_CardinalityType
    <3>2. CASE ~ (w > Last(maxWeights).weight)
      BY <1>0, <1>1, <3>2 DEF RaisedMaxWeights, ClientTyped
    <3>3. CASE w > Last(maxWeights).weight
      <4>1. w \in Nat
        <5>1. hg'.weight \in [Hypernode -> Nat]
          BY <1>2, WeightsAreNat
        <5> QED BY <5>1
      <4>2. [numNodes |-> c, weight |-> w] \in MaxWeight
        BY <3>1, <4>1 DEF MaxWeight
      <4> HIDE DEF w, c
      <4>3. maxWeights' = Append(maxWeights, [numNodes |-> c, weight |-> w])
        BY <1>1, <3>3 DEF RaisedMaxWeights, w, c
      <4> QED BY <1>0, <4>2, <4>3, AppendProperties DEF ClientTyped
    <3> QED BY <3>2, <3>3
  <2> QED BY <1>0, <1>1, <1>5, <2>1, <2>2 DEF ClientTyped
<1> QED BY <1>6, <1>7, <1>8, <1>9 DEF CoreKept

\* A net is removed.
LEMMA RemoveSingleCore ==
  ASSUME HypergraphKept, CoreKept, NEW e \in Hyperedge, RemoveSingle(e)
  PROVE  CoreKept'
<1> DEFINE S == Len(removedSingle)
           Q == Len(removedParallel)
           n == Len(history)
           m == history[n]
           m2 == [m EXCEPT !.singleSize = @ + 1]
           l == [op |-> "remove", e |-> e, before |-> hg]
<1>0. /\ ClientTyped /\ StackKept /\ LoopKept /\ SinglesFirst
      /\ StackParts(P!P!LogEntry, log, history, removedSingle, removedParallel)
      /\ history \in Seq(Memento) /\ removedSingle \in Seq(Hyperedge)
      /\ n \in Nat /\ S \in Nat /\ Q \in Nat
  BY ClientParts DEF CoreKept, ClientTyped
<1>1. /\ removedSingle' = Append(removedSingle, e) /\ removedParallel' = removedParallel
      /\ edgeWeight' = edgeWeight /\ pc' = pc /\ cursor' = cursor /\ timeUp' = timeUp
      /\ hash' = hash /\ maxWeights' = maxWeights
      /\ history # << >> /\ e \in SingleNets
      /\ history' = [history EXCEPT ![n] = m2]
      /\ phase = "coarsening" /\ phase' = phase
  BY DEF RemoveSingle, H!RemoveEdge, loop
<1>2. /\ log' = Append(log, l) /\ l \in P!P!LogEntry /\ RemovedAs(l, e)
  BY RemoveCall DEF RemoveSingle, HypergraphKept, RemovedAs
<1>3. /\ Last(history) = m /\ m \in Memento /\ n \in 1 .. n
      /\ m.singleBegin \in Nat /\ m.parallelBegin \in Nat
      /\ m.singleBegin <= S /\ m.parallelBegin <= Q
  BY <1>0, <1>1, TopLevel DEF StackKept
<1>4. pc = "idle" /\ LastSingle(m) = S /\ LastParallel(m) = Q
  BY <1>0, <1>1, <1>3 DEF LoopKept
<1>5. m2 \in Memento /\ SameLevel(m, m2) /\ LastSingle(m2) = S + 1 /\ LastParallel(m2) = Q
  BY <1>3, <1>4, CountOne
<1>6. Q = m.parallelBegin
  BY <1>0, <1>1, <1>3 DEF SinglesFirst
<1> HIDE DEF l, m2
<1>7. /\ history' \in Seq(Memento) /\ Len(history') = n /\ history' # << >> /\ Last(history') = m2
      /\ \A i \in 1 .. n - 1 : history'[i] = history[i]
      /\ SameLevels(history, history')
  BY <1>0, <1>1, <1>5, CountLast
<1>8. removedSingle' \in Seq(Hyperedge) /\ Len(removedSingle') = S + 1
  BY <1>0, <1>1, AppendProperties
<1>9. StackKept'
  <2>1. Stacked(Append(log, l), history', Append(removedSingle, e), removedParallel)
    BY <1>0, <1>1, <1>2, <1>6, <1>7, PushSingle DEF StackKept
  <2> QED BY <1>1, <1>2, <2>1 DEF StackKept
<1>10. LoopKept'
  <2>1. LoopsBelow(history, removedSingle, removedParallel)
    BY <1>0 DEF LoopKept
  <2>5. Agree(history', history, n - 1) /\ SameLevels(history, history')
    BY <1>7 DEF Agree
  <2>2. LoopsBelow(history', removedSingle', removedParallel')
    BY <1>0, <1>7, <2>1, <2>5, LowerLoops
  <2>3. LastSingle(Last(history')) = Len(removedSingle') /\ LastParallel(Last(history')) = Len(removedParallel')
    BY <1>1, <1>5, <1>7, <1>8
  <2>4. pc' = "idle"
    BY <1>1, <1>4
  <2> QED BY <2>2, <2>3, <2>4 DEF LoopKept
<1>11. SinglesFirst'
  <2>1. Len(removedParallel') = Q /\ Last(history').parallelBegin = Q
    BY <1>1, <1>5, <1>6, <1>7 DEF SameLevel
  <2>2. ~ (Q > Q)
    BY <1>0
  <2> QED BY <2>1, <2>2 DEF SinglesFirst
<1>12. ClientTyped'
  BY <1>0, <1>1, <1>7, <1>8 DEF ClientTyped
<1> QED BY <1>9, <1>10, <1>11, <1>12 DEF CoreKept

\* removeParallelHyperedge pushes the net to the log and to the vector, and counts
\* it in the last memento.
LEMMA RemoveParallelCore ==
  ASSUME HypergraphKept, CoreKept, NEW rep \in Hyperedge, NEW e \in Hyperedge, RemoveParallel(rep, e)
  PROVE  CoreKept'
<1> DEFINE S == Len(removedSingle)
           Q == Len(removedParallel)
           n == Len(history)
           m == history[n]
           m2 == [m EXCEPT !.parallelSize = @ + 1]
           l == [op |-> "remove", e |-> e, before |-> hg]
           pair == [representative |-> rep, removed |-> e]
<1>0. /\ ClientTyped /\ StackKept /\ LoopKept
      /\ StackParts(P!P!LogEntry, log, history, removedSingle, removedParallel)
      /\ history \in Seq(Memento) /\ removedParallel \in Seq(ParallelHE)
      /\ n \in Nat /\ S \in Nat /\ Q \in Nat
  BY ClientParts DEF CoreKept, ClientTyped
<1>1. /\ removedSingle' = removedSingle /\ removedParallel' = Append(removedParallel, pair)
      /\ edgeWeight' = Merged(rep, e) /\ pc' = pc /\ cursor' = cursor /\ timeUp' = timeUp
      /\ hash' = hash /\ maxWeights' = maxWeights
      /\ history # << >> /\ SingleNets = {}
      /\ history' = [history EXCEPT ![n] = m2]
      /\ phase = "coarsening" /\ phase' = phase
  BY DEF RemoveParallel, H!RemoveEdge, loop
<1>2. /\ log' = Append(log, l) /\ l \in P!P!LogEntry /\ RemovedAs(l, e) /\ P!Drops(hg, e, hg')
  BY RemoveCall DEF RemoveParallel, HypergraphKept, RemovedAs
<1>3. /\ Last(history) = m /\ m \in Memento /\ n \in 1 .. n
      /\ m.singleBegin \in Nat /\ m.parallelBegin \in Nat
      /\ m.singleBegin <= S /\ m.parallelBegin <= Q
  BY <1>0, <1>1, TopLevel DEF StackKept
<1>4. pc = "idle" /\ LastSingle(m) = S /\ LastParallel(m) = Q
  BY <1>0, <1>1, <1>3 DEF LoopKept
<1>5. m2 \in Memento /\ SameLevel(m, m2) /\ LastSingle(m2) = S /\ LastParallel(m2) = Q + 1
  BY <1>3, <1>4, CountOne
<1>6. pair \in ParallelHE /\ RemovedAs(l, pair.removed)
  BY <1>2 DEF ParallelHE
<1> HIDE DEF l, m2, pair
<1>7. /\ history' \in Seq(Memento) /\ Len(history') = n /\ history' # << >> /\ Last(history') = m2
      /\ \A i \in 1 .. n - 1 : history'[i] = history[i]
      /\ SameLevels(history, history')
  BY <1>0, <1>1, <1>5, CountLast
<1>8. removedParallel' \in Seq(ParallelHE) /\ Len(removedParallel') = Q + 1
  BY <1>0, <1>1, <1>6, AppendProperties
<1>9. StackKept'
  <2>1. Stacked(Append(log, l), history', removedSingle, Append(removedParallel, pair))
    BY <1>0, <1>1, <1>2, <1>6, <1>7, PushParallel DEF StackKept
  <2> QED BY <1>1, <1>2, <2>1 DEF StackKept
<1>10. LoopKept'
  <2>1. LoopsBelow(history, removedSingle, removedParallel)
    BY <1>0 DEF LoopKept
  <2>5. Agree(history', history, n - 1) /\ SameLevels(history, history')
    BY <1>7 DEF Agree
  <2>2. LoopsBelow(history', removedSingle', removedParallel')
    BY <1>0, <1>7, <2>1, <2>5, LowerLoops
  <2>3. LastSingle(Last(history')) = Len(removedSingle') /\ LastParallel(Last(history')) = Len(removedParallel')
    BY <1>1, <1>5, <1>7, <1>8
  <2>4. pc' = "idle"
    BY <1>1, <1>4
  <2> QED BY <2>2, <2>3, <2>4 DEF LoopKept
<1>11. SinglesFirst'
  <2>1. Last(history').u = Last(history).u
    BY <1>3, <1>5, <1>7 DEF SameLevel
  <2>2. /\ hg'.pins = hg.pins
        /\ \A v \in Hypernode : hg'.nets[v] \subseteq hg.nets[v]
    BY <1>2 DEF P!Drops
  <2>3. Last(history).u \in Hypernode
    BY <1>3 DEF Memento
  <2>4. SingleNets' = {}
    BY <1>1, <2>1, <2>2, <2>3 DEF SingleNets
  <2> QED BY <2>4 DEF SinglesFirst
<1>12. ClientTyped'
  <2>1. edgeWeight' \in [Hyperedge -> Nat]
    BY <1>0, <1>1 DEF Merged, ClientTyped
  <2> QED BY <1>0, <1>1, <1>7, <1>8, <2>1 DEF ClientTyped
<1> QED BY <1>9, <1>10, <1>11, <1>12 DEF CoreKept


\* A parallel net is restored.
LEMMA RestoreParallelCore ==
  ASSUME HypergraphKept, CoreKept, NetsAccounted, WeightsKept, RestoreParallel
  PROVE  /\ CoreKept'
         /\ RemovedAs(Last(log), Last(removedParallel).removed)
         /\ cursor = Len(removedParallel) /\ removedParallel # << >>
<1> DEFINE S == Len(removedSingle)
           Q == Len(removedParallel)
           n == Len(history)
<1>0. /\ ClientTyped /\ StackKept /\ LoopKept /\ SinglesFirst
      /\ StackParts(P!P!LogEntry, log, history, removedSingle, removedParallel)
      /\ history \in Seq(Memento) /\ removedParallel \in Seq(ParallelHE)
      /\ n \in Nat /\ S \in Nat /\ Q \in Nat
  BY ClientParts DEF CoreKept, ClientTyped
<1>1. /\ UNCHANGED <<hash, history, removedSingle, maxWeights, pc, timeUp>>
      /\ pc = "parallel" /\ cursor > Last(history).parallelBegin
      /\ edgeWeight' = Split(removedParallel[cursor].representative, removedParallel[cursor].removed)
      /\ removedParallel' = Front(removedParallel) /\ cursor' = cursor - 1
      /\ phase = "refining" /\ phase' = phase
  BY DEF RestoreParallel, H!RestoreParallelEdge
<1>2. log' = Front(log)
  <2>1. H!RestoreParallelEdge(removedParallel[cursor].representative)
    BY DEF RestoreParallel
  <2> QED BY <2>1, RestoreCall DEF HypergraphKept
<1>3. /\ history # << >> /\ LastSingle(Last(history)) = S /\ cursor = Q
  BY <1>0, <1>1 DEF LoopKept
<1>4. /\ Last(history) = history[n] /\ n \in 1 .. n
      /\ history[n].parallelBegin \in Nat
  BY <1>0, <1>3, TopLevel DEF StackKept
<1>5. /\ RemovedAs(Last(log), Last(removedParallel).removed) /\ removedParallel # << >>
      /\ Stacked(Front(log), history, removedSingle, Front(removedParallel))
  BY <1>0, <1>1, <1>3, <1>4, PopParallel DEF StackKept
<1>6. /\ removedParallel' \in Seq(ParallelHE) /\ Len(removedParallel') = Q - 1 /\ Q # 0
      /\ removedParallel[Q] \in ParallelHE
  BY <1>0, <1>1, <1>5, Pop
<1>7. StackKept'
  BY <1>1, <1>2, <1>5 DEF StackKept
<1>8. LoopKept'
  <2>1. Agree(history, history, n - 1) /\ SameLevels(history, history)
    BY DEF Agree, SameLevels, SameLevel
  <2>2. LoopsBelow(history', removedSingle', removedParallel')
    <3>1. LoopsBelow(history, removedSingle, removedParallel)
      BY <1>0 DEF LoopKept
    <3>2. LoopsBelow(history, removedSingle', removedParallel')
      BY <1>0, <2>1, <3>1, LowerLoops
    <3> QED BY <1>1, <3>2
  <2>3. LastSingle(Last(history')) = Len(removedSingle') /\ cursor' = Len(removedParallel')
    BY <1>1, <1>3, <1>6
  <2> QED BY <1>1, <1>3, <2>2, <2>3 DEF LoopKept
<1>9. SinglesFirst'
  BY <1>1 DEF SinglesFirst
<1>10. ClientTyped'
  <2>1. edgeWeight' \in [Hyperedge -> Nat]
    BY <1>0, <1>1, <1>3, <1>5, SplitLast
  <2>2. cursor' \in Nat
    BY <1>0, <1>1, <1>3, <1>6
  <2> QED BY <1>0, <1>1, <1>6, <2>1, <2>2 DEF ClientTyped
<1> QED BY <1>3, <1>5, <1>7, <1>8, <1>9, <1>10 DEF CoreKept


\* A net with a single pin is restored.
LEMMA RestoreSingleCore ==
  ASSUME HypergraphKept, CoreKept, RestoreSingle
  PROVE  /\ CoreKept'
         /\ RemovedAs(Last(log), Last(removedSingle))
         /\ cursor = Len(removedSingle) /\ removedSingle # << >>
<1> DEFINE S == Len(removedSingle)
           Q == Len(removedParallel)
           n == Len(history)
<1>0. /\ ClientTyped /\ StackKept /\ LoopKept /\ SinglesFirst
      /\ StackParts(P!P!LogEntry, log, history, removedSingle, removedParallel)
      /\ history \in Seq(Memento) /\ removedSingle \in Seq(Hyperedge)
      /\ n \in Nat /\ S \in Nat /\ Q \in Nat
  BY ClientParts DEF CoreKept, ClientTyped
<1>1. /\ UNCHANGED <<edgeWeight, hash, history, removedParallel, maxWeights, pc, timeUp>>
      /\ pc = "single" /\ cursor > Last(history).singleBegin
      /\ removedSingle' = Front(removedSingle) /\ cursor' = cursor - 1
      /\ phase = "refining" /\ phase' = phase
  BY DEF RestoreSingle, H!RestoreEdge
<1>2. log' = Front(log)
  <2>1. H!RestoreEdge
    BY DEF RestoreSingle
  <2> QED BY <2>1, RestoreCall DEF HypergraphKept
<1>3. history # << >> /\ Q = Last(history).parallelBegin /\ cursor = S
  BY <1>0, <1>1 DEF LoopKept
<1>4. /\ Last(history) = history[n] /\ n \in 1 .. n
      /\ history[n].singleBegin \in Nat
  BY <1>0, <1>3, TopLevel DEF StackKept
<1>5. /\ RemovedAs(Last(log), Last(removedSingle)) /\ removedSingle # << >>
      /\ Stacked(Front(log), history, Front(removedSingle), removedParallel)
  BY <1>0, <1>1, <1>3, <1>4, PopSingle DEF StackKept
<1>6. removedSingle' \in Seq(Hyperedge) /\ Len(removedSingle') = S - 1 /\ S # 0
  BY <1>0, <1>1, <1>5, Pop
<1>7. StackKept'
  BY <1>1, <1>2, <1>5 DEF StackKept
<1>8. LoopKept'
  <2>1. Agree(history, history, n - 1) /\ SameLevels(history, history)
    BY DEF Agree, SameLevels, SameLevel
  <2>2. LoopsBelow(history', removedSingle', removedParallel')
    <3>1. LoopsBelow(history, removedSingle, removedParallel)
      BY <1>0 DEF LoopKept
    <3>2. LoopsBelow(history, removedSingle', removedParallel')
      BY <1>0, <2>1, <3>1, LowerLoops
    <3> QED BY <1>1, <3>2
  <2>3. cursor' = Len(removedSingle') /\ Len(removedParallel') = Last(history').parallelBegin
    BY <1>1, <1>3, <1>6
  <2> QED BY <1>1, <1>3, <2>2, <2>3 DEF LoopKept
<1>9. SinglesFirst'
  BY <1>1 DEF SinglesFirst
<1>10. ClientTyped'
  <2>1. cursor' \in Nat
    BY <1>0, <1>1, <1>3, <1>6
  <2> QED BY <1>0, <1>1, <1>6, <2>1 DEF ClientTyped
<1> QED BY <1>3, <1>5, <1>7, <1>8, <1>9, <1>10 DEF CoreKept

\* When all its nets are restored, the contraction of the level is undone.
LEMMA UncontractCore ==
  ASSUME HypergraphKept, CoreKept, maxWeights # << >>, Uncontract
  PROVE  CoreKept' /\ ContractedAs(Last(log), Last(history))
<1> DEFINE S == Len(removedSingle)
           Q == Len(removedParallel)
           n == Len(history)
<1>0. /\ ClientTyped /\ StackKept /\ LoopKept /\ SinglesFirst
      /\ StackParts(P!P!LogEntry, log, history, removedSingle, removedParallel)
      /\ history \in Seq(Memento)
      /\ n \in Nat /\ S \in Nat /\ Q \in Nat
  BY ClientParts DEF CoreKept, ClientTyped
<1>1. /\ UNCHANGED <<edgeWeight, hash, removedSingle, removedParallel, cursor, timeUp>>
      /\ pc = "single" /\ cursor = Last(history).singleBegin
      /\ history' = Front(history) /\ pc' = "search"
      /\ maxWeights' \in {maxWeights, Front(maxWeights)}
      /\ phase = "refining" /\ phase' = phase
  BY DEF Uncontract, H!Uncontract, pruner
<1>2. log' = Front(log)
  <2>1. H!Uncontract
    BY DEF Uncontract
  <2> QED BY <2>1, UncontractCall DEF HypergraphKept
<1>3. history # << >> /\ Q = Last(history).parallelBegin /\ cursor = S
  BY <1>0, <1>1 DEF LoopKept
<1>4. Last(history) = history[n] /\ n \in 1 .. n
  BY <1>0, <1>3, TopLevel DEF StackKept
<1>5. /\ ContractedAs(Last(log), Last(history))
      /\ Stacked(Front(log), Front(history), removedSingle, removedParallel)
  BY <1>0, <1>1, <1>3, <1>4, PopLevel DEF StackKept
<1>6. /\ history' \in Seq(Memento) /\ Len(history') = n - 1
      /\ \A i \in 1 .. n - 1 : history'[i] = history[i]
  BY <1>0, <1>1, <1>3, Pop
<1>7. StackKept'
  BY <1>1, <1>2, <1>5 DEF StackKept
<1>8. LoopKept'
  <2>0. LoopsBelow(history, removedSingle, removedParallel)
    BY <1>0 DEF LoopKept
  <2>1. LoopsBelow(history', removedSingle', removedParallel')
    <3> SUFFICES ASSUME NEW i \in 1 .. Len(history') - 1
                 PROVE  /\ LastSingle(history'[i]) = SinglesEnd(history', removedSingle', i)
                        /\ LastParallel(history'[i]) = ParallelsEnd(history', removedParallel', i)
      BY DEF LoopsBelow
    <3>1. i \in 1 .. n - 1 /\ i + 1 \in 1 .. n - 1 /\ i # n /\ i # Len(history')
      BY <1>0, <1>6
    <3>2. LastSingle(history[i]) = SinglesEnd(history, removedSingle, i) /\ LastParallel(history[i]) = ParallelsEnd(history, removedParallel, i)
      BY <2>0, <3>1 DEF LoopsBelow
    <3> QED BY <1>6, <3>1, <3>2 DEF SinglesEnd, ParallelsEnd
  <2>2. ASSUME history' # << >>
        PROVE  LastSingle(Last(history')) = Len(removedSingle') /\ LastParallel(Last(history')) = Len(removedParallel')
    <3>1. n - 1 \in 1 .. n - 1 /\ n - 1 # n
      BY <1>0, <1>6, <2>2, EmptySeq
    <3>2. Last(history') = history[n - 1]
      BY <1>6, <3>1 DEF Last
    <3>3. /\ LastSingle(history[n - 1]) = SinglesEnd(history, removedSingle, n - 1)
          /\ LastParallel(history[n - 1]) = ParallelsEnd(history, removedParallel, n - 1)
      BY <2>0, <3>1 DEF LoopsBelow
    <3>4. /\ SinglesEnd(history, removedSingle, n - 1) = history[n].singleBegin
          /\ ParallelsEnd(history, removedParallel, n - 1) = history[n].parallelBegin
      <4>1. n - 1 + 1 = n
        BY <1>0
      <4> QED BY <3>1, <4>1 DEF SinglesEnd, ParallelsEnd
    <3> QED BY <1>1, <1>3, <1>4, <3>2, <3>3, <3>4
  <2> QED BY <1>1, <2>1, <2>2 DEF LoopKept
<1>9. SinglesFirst'
  BY <1>1 DEF SinglesFirst
<1>10. ClientTyped'
  <2>1. maxWeights' \in Seq(MaxWeight)
    <3>1. maxWeights' = Front(maxWeights) \/ maxWeights' = maxWeights
      BY <1>1
    <3>2. maxWeights \in Seq(MaxWeight)
      BY <1>0 DEF ClientTyped
    <3>3. Front(maxWeights) \in Seq(MaxWeight)
      BY <3>2, Pop
    <3> QED BY <3>1, <3>2, <3>3
  <2> QED BY <1>0, <1>1, <1>6, <2>1 DEF ClientTyped
<1> QED BY <1>5, <1>7, <1>8, <1>9, <1>10 DEF CoreKept
-----------------------------------------------------------------------------
\* What the steps do to the account of the nets.
NetsKept == RepresentativeEnabled /\ NetsAccounted /\ RemovalsLogged /\ WeightsKept

\* A quiet step removes and restores no net.
LEMMA QuietNets ==
  ASSUME CoreKept, NetsKept, QuietStep
  PROVE  NetsKept'
<1>1. ClientTyped /\ StackKept /\ LoopKept
  BY DEF CoreKept
<1>2. Stays /\ (phase' # "refining" => phase # "refining" \/ history = << >>)
  BY <1>1, QuietStays, QuietLoop
<1>3. UNCHANGED <<hg, log, edgeWeight, history, removedSingle, removedParallel>>
  BY <1>2 DEF Stays
<1>4. RepresentativeEnabled'
  BY <1>2, <1>3 DEF NetsKept, RepresentativeEnabled
<1>5. NetsAccounted' /\ RemovalsLogged'
  BY <1>3 DEF NetsKept, NetsAccounted, RemovalsLogged
<1>6. WeightsKept'
  BY <1>3 DEF NetsKept, WeightsKept
<1> QED BY <1>4, <1>5, <1>6 DEF NetsKept

\* A contraction removes no net, and its representative stays enabled.
LEMMA ContractKeepsNets ==
  ASSUME HypergraphKept, CoreKept, NetsKept, NEW u \in Hypernode, NEW v \in Hypernode, PerformContraction(u, v)
  PROVE  NetsKept'
<1> DEFINE m == [u |-> u, v |-> v,
                 singleBegin |-> Len(removedSingle), singleSize |-> 0,
                 parallelBegin |-> Len(removedParallel), parallelSize |-> 0]
           l == [op |-> "contract", u |-> u, v |-> v, before |-> hg]
<1>1. /\ history' = Append(history, m)
      /\ UNCHANGED <<edgeWeight, removedSingle, removedParallel>>
      /\ H!Contract(u, v)
  BY DEF PerformContraction, pruner
<1>2. /\ P!Merges(hg, u, v, hg') /\ log' = Append(log, l) /\ l \in P!P!LogEntry
      /\ log \in Seq(P!P!LogEntry)
  BY <1>1, ContractCall, LogTyped DEF HypergraphKept
<1>3. hg'.edges = hg.edges /\ u \in hg'.nodes
  BY <1>2 DEF P!Merges
<1>4. Last(history') = m
  <2>1. /\ history \in Seq(Memento) /\ Len(removedSingle) \in Nat /\ Len(removedParallel) \in Nat
    BY ClientParts DEF CoreKept, ClientTyped
  <2>2. m \in Memento
    BY <2>1 DEF Memento
  <2> HIDE DEF m
  <2> QED BY <1>1, <2>1, <2>2, Push
<1>5. RepresentativeEnabled'
  BY <1>3, <1>4 DEF RepresentativeEnabled
<1>6. NetsAccounted'
  BY <1>1, <1>3 DEF NetsKept, NetsAccounted
<1>7. RemovalsLogged'
  <2> HIDE DEF l
  <2>1. Logged(log, removedSingle, removedParallel)
    BY DEF NetsKept, RemovalsLogged
  <2>2. Logged(Append(log, l), removedSingle, removedParallel)
    BY <1>2, <2>1, LogGrows
  <2> QED BY <1>1, <1>2, <2>2 DEF RemovalsLogged
<1>8. WeightsKept'
  BY <1>1 DEF NetsKept, WeightsKept
<1> QED BY <1>5, <1>6, <1>7, <1>8 DEF NetsKept


\* Counting a net in the last memento does not change whose level it is.
LEMMA CountKeepsRepresentative ==
  ASSUME NEW h \in Seq(Memento), h # << >>,
         NEW m2, m2 = [h[Len(h)] EXCEPT !.singleSize = @ + 1] \/ m2 = [h[Len(h)] EXCEPT !.parallelSize = @ + 1]
  PROVE  Last([h EXCEPT ![Len(h)] = m2]).u = Last(h).u
<1>1. Last(h) = h[Len(h)] /\ h[Len(h)] \in Memento
  <2>1. Last(h) = h[Len(h)] /\ Last(h) \in Memento
    BY Pop, Zenon
  <2> QED BY <2>1
<1>2. m2 \in Memento /\ m2.u = h[Len(h)].u
  BY <1>1, CountOne DEF SameLevel
<1>3. Last([h EXCEPT ![Len(h)] = m2]) = m2
  BY <1>2, ChangeLast
<1> QED BY <1>1, <1>2, <1>3

\* The net with a single pin that is removed.
LEMMA RemoveSingleKeepsNets ==
  ASSUME HypergraphKept, CoreKept, NetsKept, NEW e \in Hyperedge, RemoveSingle(e)
  PROVE  NetsKept'
<1> DEFINE l == [op |-> "remove", e |-> e, before |-> hg]
           m2 == [history[Len(history)] EXCEPT !.singleSize = @ + 1]
<1>1. /\ removedSingle' = Append(removedSingle, e) /\ UNCHANGED <<edgeWeight, removedParallel>>
      /\ history # << >> /\ history' = [history EXCEPT ![Len(history)] = m2]
      /\ Cardinality(hg.pins[e]) = 1
      /\ H!RemoveEdge(e)
  BY DEF RemoveSingle, SingleNets
<1>2. /\ P!Drops(hg, e, hg') /\ log' = Append(log, l) /\ l \in P!P!LogEntry
      /\ log \in Seq(P!P!LogEntry)
  BY <1>1, RemoveCall, LogTyped DEF HypergraphKept
<1>3. phase = "coarsening" /\ phase' = phase
  BY <1>1 DEF H!RemoveEdge
<1>4. /\ history \in Seq(Memento) /\ removedSingle \in Seq(Hyperedge) /\ removedParallel \in Seq(ParallelHE)
  BY DEF CoreKept, ClientTyped
<1>5. hg'.edges = hg.edges \ {e} /\ e \in hg.edges /\ hg.edges \in SUBSET Hyperedge /\ hg'.nodes = hg.nodes
  BY <1>2 DEF P!Drops, P!Sound
<1>6. RepresentativeEnabled'
  <2>1. Last(history').u = Last(history).u
    BY <1>1, <1>4, CountKeepsRepresentative
  <2> QED BY <1>1, <1>3, <1>5, <2>1 DEF NetsKept, RepresentativeEnabled
<1>7. NetsAccounted'
  <2>1. Accounted(hg.edges, removedSingle, removedParallel)
    BY DEF NetsKept, NetsAccounted
  <2>2. Accounted(hg.edges \ {e}, Append(removedSingle, e), removedParallel)
    BY <1>4, <1>5, <2>1, AccountSingle
  <2> QED BY <1>1, <1>5, <2>2 DEF NetsAccounted
<1>8. RemovalsLogged'
  <2>1. SingleLogged(l, e)
    BY <1>1 DEF SingleLogged, RemovedAs
  <2>2. Logged(log, removedSingle, removedParallel)
    BY DEF NetsKept, RemovalsLogged
  <2> HIDE DEF l
  <2>3. Logged(Append(log, l), Append(removedSingle, e), removedParallel)
    BY <1>2, <1>4, <2>1, <2>2, LogSingle
  <2> QED BY <1>1, <1>2, <2>3 DEF RemovalsLogged
<1>9. WeightsKept'
  BY <1>1 DEF NetsKept, WeightsKept
<1> QED BY <1>6, <1>7, <1>8, <1>9 DEF NetsKept

\* The parallel net that is removed: what absorbs it is another net, enabled,
\* with the same pins.
LEMMA AbsorbingNet ==
  ASSUME HypergraphKept, CoreKept, NetsKept, NEW rep \in Hyperedge, NEW e \in Hyperedge, RemoveParallel(rep, e)
  PROVE  rep \in hg.edges /\ e \in hg.edges /\ e # rep /\ hg.pins[rep] = hg.pins[e]
<1>1. /\ history # << >>
      /\ rep \in hg.nets[Last(history).u] /\ e \in hg.nets[Last(history).u] /\ e # rep
      /\ Cardinality(hg.pins[e]) = Cardinality(hg.pins[rep])
      /\ hg.pins[e] \subseteq hg.pins[rep]
      /\ phase = "coarsening"
  BY DEF RemoveParallel, ParallelNets, H!RemoveEdge
<1>2. P!Sound(hg)
  BY LogTyped DEF HypergraphKept
<1>3. Last(history).u \in hg.nodes
  BY <1>1 DEF NetsKept, RepresentativeEnabled
<1>4. rep \in hg.edges /\ e \in hg.edges
  BY <1>1, <1>2, <1>3 DEF P!Sound
<1>5. IsFiniteSet(hg.pins[rep])
  <2>1. hg.pins[rep] \subseteq Hypernode
    BY <1>2 DEF P!Sound
  <2> QED BY <2>1, HypergraphAssumption, FS_Subset
<1>6. hg.pins[rep] = hg.pins[e]
  BY <1>1, <1>5, FS_Subset
<1> QED BY <1>1, <1>4, <1>6

\* removeParallelHyperedge moves the net from the enabled ones to the vector, merged.
LEMMA RemoveParallelKeepsNets ==
  ASSUME HypergraphKept, CoreKept, NetsKept, NEW rep \in Hyperedge, NEW e \in Hyperedge, RemoveParallel(rep, e)
  PROVE  NetsKept'
<1> DEFINE l == [op |-> "remove", e |-> e, before |-> hg]
           m2 == [history[Len(history)] EXCEPT !.parallelSize = @ + 1]
           pair == [representative |-> rep, removed |-> e]
<1>1. /\ removedParallel' = Append(removedParallel, pair) /\ removedSingle' = removedSingle
      /\ edgeWeight' = Merged(rep, e)
      /\ history # << >> /\ history' = [history EXCEPT ![Len(history)] = m2]
      /\ H!RemoveEdge(e)
  BY DEF RemoveParallel
<1>2. /\ P!Drops(hg, e, hg') /\ log' = Append(log, l) /\ l \in P!P!LogEntry
      /\ log \in Seq(P!P!LogEntry)
  BY <1>1, RemoveCall, LogTyped DEF HypergraphKept
<1>3. phase = "coarsening" /\ phase' = phase
  BY <1>1 DEF H!RemoveEdge
<1>4. /\ history \in Seq(Memento) /\ removedSingle \in Seq(Hyperedge) /\ removedParallel \in Seq(ParallelHE)
  BY DEF CoreKept, ClientTyped
<1>5. hg'.edges = hg.edges \ {e} /\ e \in hg.edges /\ hg.edges \in SUBSET Hyperedge /\ hg'.nodes = hg.nodes
  BY <1>2 DEF P!Drops, P!Sound
<1>6. RepresentativeEnabled'
  <2>1. Last(history').u = Last(history).u
    BY <1>1, <1>4, CountKeepsRepresentative
  <2> QED BY <1>1, <1>3, <1>5, <2>1 DEF NetsKept, RepresentativeEnabled
<1>7. pair \in ParallelHE /\ pair.representative = rep /\ pair.removed = e
  BY DEF ParallelHE
<1>8. rep \in hg.edges /\ e \in hg.edges \ {rep} /\ hg.pins[rep] = hg.pins[e]
  BY AbsorbingNet
<1>9. ParallelLogged(l, pair)
  BY <1>8 DEF ParallelLogged, RemovedAs
<1> HIDE DEF pair, l
<1>10. NetsAccounted'
  <2>1. Accounted(hg.edges, removedSingle, removedParallel)
    BY DEF NetsKept, NetsAccounted
  <2>2. Accounted(hg.edges \ {e}, removedSingle, Append(removedParallel, pair))
    BY <1>4, <1>5, <1>7, <1>8, <2>1, AccountParallel
  <2> QED BY <1>1, <1>5, <2>2 DEF NetsAccounted
<1>11. RemovalsLogged'
  <2>1. Logged(log, removedSingle, removedParallel)
    BY DEF NetsKept, RemovalsLogged
  <2>2. Logged(Append(log, l), removedSingle, Append(removedParallel, pair))
    BY <1>2, <1>4, <1>7, <1>9, <2>1, LogParallel
  <2> QED BY <1>1, <1>2, <2>2 DEF RemovalsLogged
<1>12. WeightsKept'
  <2>1. PICK g : Merges(g, removedParallel, edgeWeight)
    BY DEF NetsKept, WeightsKept
  <2>2. MergedBy(edgeWeight, pair) = Merged(rep, e)
    BY <1>7 DEF MergedBy, Merged
  <2>3. \E h : Merges(h, Append(removedParallel, pair), MergedBy(edgeWeight, pair))
    BY <1>4, <1>7, <2>1, MergeExtends
  <2> QED BY <1>1, <2>2, <2>3 DEF WeightsKept
<1> QED BY <1>6, <1>10, <1>11, <1>12 DEF NetsKept


\* The parallel net that is restored.
LEMMA RestoreParallelKeepsNets ==
  ASSUME HypergraphKept, CoreKept, NetsKept, RestoreParallel
  PROVE  NetsKept'
<1> DEFINE pair == Last(removedParallel)
           e == pair.removed
<1>1. /\ removedParallel' = Front(removedParallel) /\ UNCHANGED <<history, removedSingle>>
      /\ edgeWeight' = Split(removedParallel[cursor].representative, removedParallel[cursor].removed)
      /\ H!RestoreParallelEdge(removedParallel[cursor].representative)
  BY DEF RestoreParallel
<1>2. /\ P!Drops(hg', Last(log).e, hg) /\ log # << >> /\ log' = Front(log)
      /\ log \in Seq(P!P!LogEntry)
  BY <1>1, RestoreCall, LogTyped DEF HypergraphKept
<1>3. phase' = "refining"
  BY <1>1 DEF H!RestoreParallelEdge
<1>4. removedSingle \in Seq(Hyperedge) /\ removedParallel \in Seq(ParallelHE)
  BY DEF CoreKept, ClientTyped
<1>5. RemovedAs(Last(log), e) /\ cursor = Len(removedParallel) /\ removedParallel # << >>
  BY RestoreParallelCore DEF NetsKept
<1>6. pair = removedParallel[Len(removedParallel)]
  BY DEF Last
<1>7. hg'.edges = hg.edges \cup {e} /\ hg.edges \in SUBSET Hyperedge
  <2>1. Last(log).e = e
    BY <1>5 DEF RemovedAs
  <2>2. e \in hg'.edges /\ hg.edges = hg'.edges \ {e} /\ hg.edges \in SUBSET Hyperedge
    BY <1>2, <2>1 DEF P!Drops, P!Sound
  <2> QED BY <2>2
<1>8. RepresentativeEnabled'
  BY <1>3 DEF RepresentativeEnabled
<1>9. Accounted(hg.edges, removedSingle, removedParallel) /\ Logged(log, removedSingle, removedParallel)
  BY DEF NetsKept, NetsAccounted, RemovalsLogged
<1>10. /\ Accounted(hg.edges \cup {e}, removedSingle, Front(removedParallel))
       /\ \A k \in 1 .. Len(removedSingle) : removedSingle[k] # e
       /\ \A q \in 1 .. Len(Front(removedParallel)) : Front(removedParallel)[q].removed # e
  BY <1>4, <1>5, <1>7, <1>9, UnaccountParallel
<1>11. NetsAccounted'
  BY <1>1, <1>7, <1>10 DEF NetsAccounted
<1>12. RemovalsLogged'
  <2>1. /\ Len(Front(removedParallel)) = Len(removedParallel) - 1 /\ Len(removedParallel) \in Nat
        /\ \A q \in 1 .. Len(removedParallel) - 1 : Front(removedParallel)[q] = removedParallel[q]
    BY <1>4, <1>5, Pop
  <2>2. \A q \in 1 .. Len(removedParallel) - 1 : q \in 1 .. Len(removedParallel)
    BY <2>1
  <2>3. \A k \in 1 .. Len(removedSingle) :
          k \in 1 .. Len(removedSingle) /\ removedSingle[k] = removedSingle[k] /\ ~ RemovedAs(Last(log), removedSingle[k])
    BY <1>5, <1>10 DEF RemovedAs
  <2>4. \A q \in 1 .. Len(Front(removedParallel)) :
          /\ q \in 1 .. Len(removedParallel) /\ Front(removedParallel)[q] = removedParallel[q]
          /\ ~ RemovedAs(Last(log), Front(removedParallel)[q].removed)
    BY <1>5, <1>10, <2>1, <2>2 DEF RemovedAs
  <2>5. Logged(Front(log), removedSingle, Front(removedParallel))
    BY <1>2, <1>9, <2>3, <2>4, LogShrinks
  <2> QED BY <1>1, <1>2, <2>5 DEF RemovalsLogged
<1>13. WeightsKept'
  BY <1>1, <1>5, SplitLast DEF CoreKept, NetsKept, WeightsKept
<1> QED BY <1>8, <1>11, <1>12, <1>13 DEF NetsKept

\* The net with a single pin that is restored.
LEMMA RestoreSingleKeepsNets ==
  ASSUME HypergraphKept, CoreKept, NetsKept, RestoreSingle
  PROVE  NetsKept'
<1> DEFINE e == Last(removedSingle)
<1>1. /\ removedSingle' = Front(removedSingle) /\ UNCHANGED <<edgeWeight, history, removedParallel>>
      /\ H!RestoreEdge
  BY DEF RestoreSingle
<1>2. /\ P!Drops(hg', Last(log).e, hg) /\ log # << >> /\ log' = Front(log)
      /\ log \in Seq(P!P!LogEntry)
  BY <1>1, RestoreCall, LogTyped DEF HypergraphKept
<1>3. phase' = "refining"
  BY <1>1 DEF H!RestoreEdge
<1>4. removedSingle \in Seq(Hyperedge) /\ removedParallel \in Seq(ParallelHE)
  BY DEF CoreKept, ClientTyped
<1>5. RemovedAs(Last(log), e) /\ removedSingle # << >>
  BY RestoreSingleCore
<1>7. hg'.edges = hg.edges \cup {e} /\ hg.edges \in SUBSET Hyperedge
  <2>1. Last(log).e = e
    BY <1>5 DEF RemovedAs
  <2>2. e \in hg'.edges /\ hg.edges = hg'.edges \ {e} /\ hg.edges \in SUBSET Hyperedge
    BY <1>2, <2>1 DEF P!Drops, P!Sound
  <2> QED BY <2>2
<1>8. RepresentativeEnabled'
  BY <1>3 DEF RepresentativeEnabled
<1>9. Accounted(hg.edges, removedSingle, removedParallel) /\ Logged(log, removedSingle, removedParallel)
  BY DEF NetsKept, NetsAccounted, RemovalsLogged
<1>10. /\ Accounted(hg.edges \cup {e}, Front(removedSingle), removedParallel)
       /\ \A k \in 1 .. Len(Front(removedSingle)) : Front(removedSingle)[k] # e
       /\ \A q \in 1 .. Len(removedParallel) : removedParallel[q].removed # e
  BY <1>4, <1>5, <1>7, <1>9, UnaccountSingle
<1>11. NetsAccounted'
  BY <1>1, <1>7, <1>10 DEF NetsAccounted
<1>12. RemovalsLogged'
  <2>1. /\ Len(Front(removedSingle)) = Len(removedSingle) - 1 /\ Len(removedSingle) \in Nat
        /\ \A k \in 1 .. Len(removedSingle) - 1 : Front(removedSingle)[k] = removedSingle[k]
    BY <1>4, <1>5, Pop
  <2>2. \A k \in 1 .. Len(removedSingle) - 1 : k \in 1 .. Len(removedSingle)
    BY <2>1
  <2>3. \A k \in 1 .. Len(Front(removedSingle)) :
          /\ k \in 1 .. Len(removedSingle) /\ Front(removedSingle)[k] = removedSingle[k]
          /\ ~ RemovedAs(Last(log), Front(removedSingle)[k])
    BY <1>5, <1>10, <2>1, <2>2 DEF RemovedAs
  <2>4. \A q \in 1 .. Len(removedParallel) :
          /\ q \in 1 .. Len(removedParallel) /\ removedParallel[q] = removedParallel[q]
          /\ ~ RemovedAs(Last(log), removedParallel[q].removed)
    BY <1>5, <1>10 DEF RemovedAs
  <2>5. Logged(Front(log), Front(removedSingle), removedParallel)
    BY <1>2, <1>9, <2>3, <2>4, LogShrinks
  <2> QED BY <1>1, <1>2, <2>5 DEF RemovalsLogged
<1>13. WeightsKept'
  BY <1>1 DEF NetsKept, WeightsKept
<1> QED BY <1>8, <1>11, <1>12, <1>13 DEF NetsKept

\* A level that is undone has no net left to restore.
LEMMA UncontractKeepsNets ==
  ASSUME HypergraphKept, CoreKept, NetsKept, maxWeights # << >>, Uncontract
  PROVE  NetsKept'
<1>1. UNCHANGED <<edgeWeight, removedSingle, removedParallel>> /\ H!Uncontract
  BY DEF Uncontract, pruner
<1>2. /\ P!Merges(hg', Last(log).u, Last(log).v, hg) /\ log # << >> /\ log' = Front(log)
      /\ Last(log).op = "contract"
      /\ log \in Seq(P!P!LogEntry)
  BY <1>1, UncontractCall, LogTyped DEF HypergraphKept
<1>3. phase' = "refining"
  BY <1>1 DEF H!Uncontract
<1>4. hg'.edges = hg.edges
  BY <1>2 DEF P!Merges
<1>5. RepresentativeEnabled'
  BY <1>3 DEF RepresentativeEnabled
<1>6. NetsAccounted'
  BY <1>1, <1>4 DEF NetsKept, NetsAccounted
<1>7. RemovalsLogged'
  <2>1. Logged(log, removedSingle, removedParallel)
    BY DEF NetsKept, RemovalsLogged
  <2>2. \A e : ~ RemovedAs(Last(log), e)
    BY <1>2 DEF RemovedAs
  <2>3. \A k \in 1 .. Len(removedSingle) :
          k \in 1 .. Len(removedSingle) /\ removedSingle[k] = removedSingle[k] /\ ~ RemovedAs(Last(log), removedSingle[k])
    BY <2>2
  <2>4. \A q \in 1 .. Len(removedParallel) :
          /\ q \in 1 .. Len(removedParallel) /\ removedParallel[q] = removedParallel[q]
          /\ ~ RemovedAs(Last(log), removedParallel[q].removed)
    BY <2>2
  <2>5. Logged(Front(log), removedSingle, removedParallel)
    BY <1>2, <2>1, <2>3, <2>4, LogShrinks
  <2> QED BY <1>1, <1>2, <2>5 DEF RemovalsLogged
<1>8. WeightsKept'
  BY <1>1 DEF NetsKept, WeightsKept
<1> QED BY <1>5, <1>6, <1>7, <1>8 DEF NetsKept
-----------------------------------------------------------------------------
\* What the steps do to the levels and to the bounds on their weights.
LevelsKept == LevelsShrink /\ MaxWeightsKept

\* How many hypernodes a level has.
LEMMA NodesCounted ==
  ASSUME NEW N \in SUBSET Hypernode
  PROVE  /\ Cardinality(N) \in Nat /\ Cardinality(Hypernode) \in Nat
         /\ Cardinality(N) <= Cardinality(Hypernode)
         /\ \A v \in N : Cardinality(N \ {v}) = Cardinality(N) - 1 /\ Cardinality(N) \in Nat \ {0}
<1>1. IsFiniteSet(Hypernode) /\ IsFiniteSet(N) /\ Cardinality(N) <= Cardinality(Hypernode)
  BY HypergraphAssumption, FS_Subset
<1>2. Cardinality(N) \in Nat /\ Cardinality(Hypernode) \in Nat
  BY <1>1, FS_CardinalityType
<1>3. ASSUME NEW v \in N PROVE Cardinality(N \ {v}) = Cardinality(N) - 1 /\ Cardinality(N) \in Nat \ {0}
  <2>1. Cardinality(N \ {v}) = Cardinality(N) - 1 /\ Cardinality(N \ {v}) \in Nat
    BY <1>1, FS_RemoveElement, FS_CardinalityType
  <2> QED BY <1>2, <2>1
<1> QED BY <1>1, <1>2, <1>3

\* Without a history the hypergraph is the original one.
LEMMA NoHistory ==
  ASSUME HypergraphKept, ClientTyped, StackKept, history = << >>
  PROVE  log = << >> /\ hg.nodes = Hypernode /\ hg.edges = Hyperedge /\ hg.pins = InitPins
<1>1. removedSingle = << >> /\ removedParallel = << >>
  BY DEF StackKept, Stacked
<1>2. Len(log) = 0
  BY <1>1 DEF StackKept, Stacked
<1>3. hg = P!P!Original
  BY <1>2 DEF HypergraphKept, P!P!UndoChain, P!P!After
<1>4. log \in Seq(P!P!LogEntry)
  BY LogTyped DEF HypergraphKept
<1> QED BY <1>2, <1>3, <1>4, EmptySeq DEF P!P!Original

\* A quiet step changes no level.
LEMMA QuietLevels ==
  ASSUME HypergraphKept, CoreKept, LevelsKept, QuietStep
  PROVE  LevelsKept'
<1>1. ClientTyped /\ StackKept /\ LoopKept
  BY DEF CoreKept
<1>2. Stays /\ (phase' # "refining" => phase # "refining" \/ history = << >>)
  BY <1>1, QuietStays, QuietLoop
<1>3. UNCHANGED <<hg, log, maxWeights>>
  BY <1>2 DEF Stays
<1>4. Timely(maxWeights, Cardinality(hg.nodes), phase' # "refining")
  <2>1. Timely(maxWeights, Cardinality(hg.nodes), phase # "refining")
    BY DEF LevelsKept, MaxWeightsKept
  <2>2. CASE phase' # "refining" /\ phase = "refining"
    <3>1. hg.nodes = Hypernode
      BY <1>1, <1>2, <2>2, NoHistory
    <3>2. Cardinality(Hypernode) \in Nat
      BY NodesCounted
    <3>3. ~ (Cardinality(hg.nodes) <= Few)
      BY <3>1, <3>2 DEF Few
    <3> QED BY <2>1, <3>3 DEF Timely
  <2>3. CASE ~ (phase' # "refining" /\ phase = "refining")
    BY <2>1, <2>3 DEF Timely
  <2> QED BY <2>2, <2>3
<1>5. LevelsShrink'
  BY <1>3 DEF LevelsKept, LevelsShrink
<1>6. MaxWeightsKept'
  BY <1>3, <1>4 DEF LevelsKept, MaxWeightsKept
<1> QED BY <1>5, <1>6 DEF LevelsKept

\* A contraction begins a level of one hypernode less, and records a bound for
\* its representative if there is none yet.
LEMMA ContractLevels ==
  ASSUME HypergraphKept, CoreKept, LevelsKept, NEW u \in Hypernode, NEW v \in Hypernode, PerformContraction(u, v)
  PROVE  LevelsKept'
<1> DEFINE l == [op |-> "contract", u |-> u, v |-> v, before |-> hg]
           N == Cardinality(hg.nodes)
           w == hg'.weight[u]
<1>1. H!Contract(u, v) /\ maxWeights' = RaisedMaxWeights(u, w, Cardinality(hg'.nodes))
  BY DEF PerformContraction
<1>2. /\ P!Merges(hg, u, v, hg') /\ log' = Append(log, l) /\ l \in P!P!LogEntry /\ l.before = hg
      /\ log \in Seq(P!P!LogEntry) /\ Len(log) \in Nat
  BY <1>1, ContractCall, LogTyped DEF HypergraphKept
<1>3. phase = "coarsening" /\ phase' = phase
  BY <1>1 DEF H!Contract
<1>4. hg'.weight \in [Hypernode -> Nat]
  BY <1>2, WeightsAreNat DEF LevelsKept
<1>5. /\ hg.nodes \in SUBSET Hypernode /\ u \in hg.nodes /\ v \in hg.nodes /\ hg'.nodes = hg.nodes \ {v}
      /\ hg'.weight = [hg.weight EXCEPT ![u] = @ + hg.weight[v]] /\ hg.weight \in [Hypernode -> Int]
  BY <1>2 DEF P!Merges, P!Sound
<1>6. Cardinality(hg'.nodes) = N - 1 /\ N \in Nat \ {0} /\ Cardinality(Hypernode) \in Nat
  BY <1>5, NodesCounted
<1> HIDE DEF l
<1>7. LevelsShrink'
  <2>1. Shrinking(log, hg) /\ hg'.nodes \subseteq hg.nodes
    BY <1>5 DEF LevelsKept, LevelsShrink
  <2>2. Shrinking(Append(log, l), hg')
    BY <1>2, <1>4, <2>1, ShrinkPush
  <2> QED BY <1>2, <2>2 DEF LevelsShrink
<1>8. /\ maxWeights \in Seq(MaxWeight) /\ maxWeights # << >> /\ Ordered(maxWeights)
      /\ Timely(maxWeights, N, TRUE) /\ Bounded(maxWeights, hg)
      /\ \A j \in 1 .. Len(log) : Bounded(maxWeights, log[j].before)
  <2>1. Timely(maxWeights, N, phase # "refining") /\ (phase # "refining") = TRUE
    BY <1>3 DEF LevelsKept, MaxWeightsKept
  <2> QED BY <2>1 DEF CoreKept, ClientTyped, LevelsKept, MaxWeightsKept
<1>9. w \in Nat
  BY <1>4
<1>10. maxWeights' = Raised(maxWeights, N - 1, w)
  BY <1>1, <1>6 DEF RaisedMaxWeights, Raised
<1>11. /\ maxWeights' \in Seq(MaxWeight) /\ maxWeights' # << >> /\ Ordered(maxWeights') /\ Timely(maxWeights', N - 1, TRUE)
       /\ \A s : Bounded(maxWeights, s) => Bounded(maxWeights', s)
       /\ \E k \in 1 .. Len(maxWeights') : w <= maxWeights'[k].weight /\ N - 1 <= maxWeights'[k].numNodes
       /\ \A k \in 1 .. Len(maxWeights) : k \in 1 .. Len(maxWeights') /\ maxWeights'[k] = maxWeights[k]
  <2> HIDE DEF N, w
  <2>1. N \in Nat \ {0} /\ w \in Nat /\ Cardinality(Hypernode) \in Nat
    BY <1>6, <1>9, Zenon
  <2>2. RaisedWell(maxWeights, maxWeights', N - 1, w)
    BY <1>8, <1>10, <2>1, BoundsRaised
  <2> QED BY <2>2 DEF RaisedWell
<1>12. Bounded(maxWeights', hg')
  <2> SUFFICES ASSUME NEW x \in hg'.nodes
               PROVE  \E k \in 1 .. Len(maxWeights') :
                        hg'.weight[x] <= maxWeights'[k].weight /\ N - 1 <= maxWeights'[k].numNodes
    BY <1>6 DEF Bounded
  <2>1. CASE x = u
    BY <1>11, <2>1
  <2>2. CASE x # u
    <3>1. x \in hg.nodes /\ hg'.weight[x] = hg.weight[x]
      BY <1>5, <2>2
    <3>2. PICK k \in 1 .. Len(maxWeights) : hg.weight[x] <= maxWeights[k].weight /\ N <= maxWeights[k].numNodes
      BY <1>8, <3>1 DEF Bounded
    <3>3. maxWeights[k].numNodes \in Nat
      BY <1>8, BoundFields
    <3>4. N - 1 <= maxWeights[k].numNodes
      BY <1>6, <3>2, <3>3
    <3> QED BY <1>11, <3>1, <3>2, <3>4
  <2> QED BY <2>1, <2>2
<1>13. \A j \in 1 .. Len(log') : Bounded(maxWeights', log'[j].before)
  <2>1. /\ Len(log') = Len(log) + 1 /\ log'[Len(log) + 1] = l
        /\ \A j \in 1 .. Len(log) : log'[j] = log[j]
    BY <1>2, Push
  <2>2. \A j \in 1 .. Len(log) + 1 : j = Len(log) + 1 \/ j \in 1 .. Len(log)
    BY <1>2
  <2> QED BY <1>2, <1>8, <1>11, <2>1, <2>2
<1>14. MaxWeightsKept'
  <2>1. (phase' # "refining") = TRUE
    BY <1>3
  <2> QED BY <1>6, <1>11, <1>12, <1>13, <2>1 DEF MaxWeightsKept
<1> QED BY <1>7, <1>14 DEF LevelsKept

\* A net that is removed.
LEMMA RemoveLevels ==
  ASSUME HypergraphKept, CoreKept, LevelsKept, NEW e \in Hyperedge, H!RemoveEdge(e), maxWeights' = maxWeights
  PROVE  LevelsKept'
<1> DEFINE l == [op |-> "remove", e |-> e, before |-> hg]
<1>1. /\ P!Drops(hg, e, hg') /\ log' = Append(log, l) /\ l \in P!P!LogEntry /\ l.before = hg
      /\ log \in Seq(P!P!LogEntry) /\ Len(log) \in Nat
  BY RemoveCall, LogTyped DEF HypergraphKept
<1>2. phase' = phase
  BY DEF H!RemoveEdge
<1>3. hg'.nodes = hg.nodes /\ hg'.weight = hg.weight
  BY <1>1 DEF P!Drops
<1>4. Shrinking(log, hg)
  BY DEF LevelsKept, LevelsShrink
<1> HIDE DEF l
<1>5. LevelsShrink'
  <2>1. hg'.nodes \subseteq hg.nodes /\ hg'.weight \in [Hypernode -> Nat]
    BY <1>3, <1>4 DEF Shrinking
  <2>2. Shrinking(Append(log, l), hg')
    BY <1>1, <1>4, <2>1, ShrinkPush
  <2> QED BY <1>1, <2>2 DEF LevelsShrink
<1>6. /\ Bounded(maxWeights, hg) /\ \A j \in 1 .. Len(log) : Bounded(maxWeights, log[j].before)
      /\ Timely(maxWeights, Cardinality(hg.nodes), phase # "refining")
  BY DEF LevelsKept, MaxWeightsKept
<1>7. Bounded(maxWeights, hg')
  BY <1>3, <1>6 DEF Bounded
<1>8. \A j \in 1 .. Len(log') : Bounded(maxWeights, log'[j].before)
  <2>1. /\ Len(log') = Len(log) + 1 /\ log'[Len(log) + 1] = l
        /\ \A j \in 1 .. Len(log) : log'[j] = log[j]
    BY <1>1, Push
  <2>2. \A j \in 1 .. Len(log) + 1 : j = Len(log) + 1 \/ j \in 1 .. Len(log)
    BY <1>1
  <2> QED BY <1>1, <1>6, <2>1, <2>2
<1>9. MaxWeightsKept'
  BY <1>2, <1>3, <1>6, <1>7, <1>8 DEF LevelsKept, MaxWeightsKept
<1> QED BY <1>5, <1>9 DEF LevelsKept

\* A net that is restored.
LEMMA RestoreLevels ==
  ASSUME HypergraphKept, CoreKept, LevelsKept, H!RestoreEdge \/ \E rep : H!RestoreParallelEdge(rep),
         maxWeights' = maxWeights
  PROVE  LevelsKept'
<1>1. /\ P!Drops(hg', Last(log).e, hg) /\ log # << >> /\ log' = Front(log) /\ hg' = Last(log).before
      /\ log \in Seq(P!P!LogEntry)
  BY RestoreCall, LogTyped DEF HypergraphKept
<1>2. phase' = phase
  BY DEF H!RestoreEdge, H!RestoreParallelEdge
<1>3. hg'.nodes = hg.nodes /\ hg'.weight = hg.weight
  BY <1>1 DEF P!Drops
<1>4. Shrinking(log, hg)
  BY DEF LevelsKept, LevelsShrink
<1>5. /\ Shrinking(Front(log), Last(log).before)
      /\ \A j \in 1 .. Len(Front(log)) : j \in 1 .. Len(log) /\ Front(log)[j] = log[j]
  BY <1>1, <1>4, ShrinkPop
<1>6. /\ Bounded(maxWeights, hg) /\ \A j \in 1 .. Len(log) : Bounded(maxWeights, log[j].before)
      /\ Timely(maxWeights, Cardinality(hg.nodes), phase # "refining")
  BY DEF LevelsKept, MaxWeightsKept
<1>7. LevelsShrink'
  BY <1>1, <1>5 DEF LevelsShrink
<1>8. MaxWeightsKept'
  <2>1. Bounded(maxWeights, hg')
    BY <1>3, <1>6 DEF Bounded
  <2>2. \A j \in 1 .. Len(log') : Bounded(maxWeights, log'[j].before)
    BY <1>1, <1>5, <1>6
  <2> QED BY <1>2, <1>3, <1>6, <2>1, <2>2 DEF LevelsKept, MaxWeightsKept
<1> QED BY <1>7, <1>8 DEF LevelsKept

\* A level that is undone: a bound that was recorded for it is popped, and every
\* hypernode of the finer levels still has one.
LEMMA UncontractLevels ==
  ASSUME HypergraphKept, CoreKept, LevelsKept, Uncontract
  PROVE  LevelsKept'
<1> DEFINE N == Cardinality(hg.nodes)
           u == Last(log).u
           v == Last(log).v
<1>1. /\ H!Uncontract
      /\ maxWeights' = IF N > Last(maxWeights).numNodes THEN Front(maxWeights) ELSE maxWeights
  BY DEF Uncontract
<1>2. /\ P!Merges(hg', u, v, hg) /\ log # << >> /\ log' = Front(log) /\ hg' = Last(log).before
      /\ log \in Seq(P!P!LogEntry)
  BY <1>1, UncontractCall, LogTyped DEF HypergraphKept
<1>3. phase = "refining" /\ phase' = phase
  BY <1>1 DEF H!Uncontract
<1>4. hg'.nodes \in SUBSET Hypernode /\ v \in hg'.nodes /\ hg.nodes = hg'.nodes \ {v} /\ hg.nodes \in SUBSET Hypernode
  BY <1>2 DEF P!Merges, P!Sound
<1>5. /\ N = Cardinality(hg'.nodes) - 1 /\ N \in Nat
      /\ Cardinality(hg'.nodes) \in Nat /\ Cardinality(Hypernode) \in Nat
      /\ Cardinality(hg'.nodes) <= Cardinality(Hypernode)
  BY <1>4, NodesCounted
<1>6. Cardinality(hg'.nodes) = N + 1 /\ N + 1 <= Cardinality(Hypernode)
  BY <1>5
<1>7. Shrinking(log, hg)
  BY DEF LevelsKept, LevelsShrink
<1>8. /\ Shrinking(log', hg')
      /\ \A j \in 1 .. Len(log') : j \in 1 .. Len(log) /\ log'[j] = log[j]
      /\ \A j \in 1 .. Len(log') : hg'.nodes \subseteq log'[j].before.nodes
      /\ Len(log) \in 1 .. Len(log) /\ Last(log) = log[Len(log)]
  BY <1>2, <1>7, ShrinkPop
<1>9. LevelsShrink'
  BY <1>8 DEF LevelsShrink
<1>10. /\ maxWeights \in Seq(MaxWeight) /\ maxWeights # << >> /\ Ordered(maxWeights)
       /\ Timely(maxWeights, N, FALSE)
       /\ \A j \in 1 .. Len(log) : Bounded(maxWeights, log[j].before)
  <2>1. Timely(maxWeights, N, phase # "refining") /\ (phase # "refining") = FALSE
    BY <1>3 DEF LevelsKept, MaxWeightsKept
  <2> QED BY <2>1 DEF CoreKept, ClientTyped, LevelsKept, MaxWeightsKept
<1>11. Bounded(maxWeights, hg') /\ \A j \in 1 .. Len(log') : Bounded(maxWeights, log'[j].before)
  BY <1>2, <1>8, <1>10
<1>12. CASE ~ (N > Last(maxWeights).numNodes)
  <2>1. maxWeights' = maxWeights
    BY <1>1, <1>12
  <2>2. Timely(maxWeights, N + 1, FALSE)
    <3> HIDE DEF N
    <3> QED BY <1>5, <1>10, <1>12, BoundsStay, Zenon
  <2>3. MaxWeightsKept'
    <3>1. (phase' # "refining") = FALSE
      BY <1>3
    <3> QED BY <1>6, <1>10, <1>11, <2>1, <2>2, <3>1 DEF MaxWeightsKept
  <2> QED BY <1>9, <2>3 DEF LevelsKept
<1>13. CASE N > Last(maxWeights).numNodes
  <2>1. maxWeights' = Front(maxWeights)
    BY <1>1, <1>13
  <2>2. \E k \in 1 .. Len(maxWeights) : N + 1 <= maxWeights[k].numNodes
    BY <1>4, <1>6, <1>11 DEF Bounded
  <2>3. /\ Front(maxWeights) \in Seq(MaxWeight) /\ Front(maxWeights) # << >>
        /\ Ordered(Front(maxWeights)) /\ Timely(Front(maxWeights), N + 1, FALSE)
    <3> HIDE DEF N
    <3> QED BY <1>5, <1>6, <1>10, <1>13, <2>2, BoundsLowered
  <2>4. Last(maxWeights).numNodes \in Nat
    <3>1. Last(maxWeights) \in MaxWeight
      BY <1>10, Pop
    <3> QED BY <3>1 DEF MaxWeight
  <2>5. Bounded(Front(maxWeights), hg')
    <3>1. Last(maxWeights).numNodes < Cardinality(hg'.nodes)
      BY <1>5, <1>6, <1>13, <2>4
    <3> QED BY <1>5, <1>10, <1>11, <3>1, BoundedLess
  <2>6. ASSUME NEW j \in 1 .. Len(log') PROVE Bounded(Front(maxWeights), log'[j].before)
    <3>1. hg'.nodes \subseteq log'[j].before.nodes /\ log'[j].before.nodes \in SUBSET Hypernode
      <4>1. log[j] \in P!P!LogEntry /\ j \in 1 .. Len(log) /\ log'[j] = log[j]
        BY <1>2, <1>8, ElementOfSeq
      <4>2. log[j].before \in P!P!Structure
        BY <4>1 DEF P!P!LogEntry
      <4> QED BY <1>8, <4>1, <4>2 DEF P!P!Structure
    <3>2. /\ Cardinality(log'[j].before.nodes) \in Nat
          /\ Cardinality(hg'.nodes) <= Cardinality(log'[j].before.nodes)
      BY <3>1, HypergraphAssumption, FS_Subset, FS_CardinalityType
    <3>3. Last(maxWeights).numNodes < Cardinality(log'[j].before.nodes)
      BY <1>5, <1>6, <1>13, <2>4, <3>2
    <3> QED BY <1>10, <1>11, <3>2, <3>3, BoundedLess
  <2>7. MaxWeightsKept'
    <3>1. (phase' # "refining") = FALSE
      BY <1>3
    <3> QED BY <1>6, <2>1, <2>3, <2>5, <2>6, <3>1 DEF MaxWeightsKept
  <2> QED BY <1>9, <2>7 DEF LevelsKept
<1> QED BY <1>12, <1>13
-----------------------------------------------------------------------------
\* The invariant holds of the input.
LEMMA Initially ==
  ASSUME Init
  PROVE  Inv
<1> DEFINE x == [numNodes |-> Cardinality(Hypernode), weight |-> Heaviest(InitWeight, Hypernode)]
<1>1. /\ H!Init
      /\ edgeWeight = InitEdgeWeight
      /\ hash = [e \in Hyperedge |-> HashOf(InitPins[e])]
      /\ history = << >> /\ removedSingle = << >> /\ removedParallel = << >>
      /\ maxWeights = << x >>
      /\ pc = "idle" /\ cursor = 0 /\ timeUp = FALSE
  BY DEF Init
<1>2. P!Init
  BY <1>1, SameActions
<1>3. HypergraphKept
  BY <1>2, HypergraphConstants, P!InvInitially, P!ChainBegins DEF HypergraphKept
<1>4. /\ log = << >> /\ phase = "coarsening"
      /\ hg.nodes = Hypernode /\ hg.edges = Hyperedge /\ hg.weight = InitWeight
  <2>1. log = << >> /\ phase = "coarsening" /\ hg = P!I!Original
    BY <1>2 DEF P!Init, P!I!Init
  <2> QED BY <2>1 DEF P!I!Original
<1>5. /\ Cardinality(Hypernode) \in Nat
      /\ Heaviest(InitWeight, Hypernode) \in Nat
      /\ \A v \in Hypernode : InitWeight[v] <= Heaviest(InitWeight, Hypernode)
      /\ InitWeight \in [Hypernode -> Nat]
  <2>1. Cardinality(Hypernode) \in Nat
    BY NodesCounted
  <2> QED BY <2>1, HypergraphAssumption, HeaviestBounds
<1>6. x \in MaxWeight /\ x.numNodes = Cardinality(Hypernode) /\ x.weight = Heaviest(InitWeight, Hypernode)
  BY <1>5 DEF MaxWeight
<1> HIDE DEF x
<1>7. maxWeights \in Seq(MaxWeight) /\ maxWeights # << >> /\ Len(maxWeights) = 1 /\ maxWeights[1] = x
  BY <1>1, <1>6
<1>8. Len(history) = 0 /\ Len(removedSingle) = 0 /\ Len(removedParallel) = 0 /\ Len(log) = 0
  BY <1>1, <1>4
<1>9. ClientTyped
  <2>1. hash \in [Hyperedge -> [Hypernode -> Int]]
    BY <1>1 DEF HashOf
  <2>2. history \in Seq(Memento) /\ removedSingle \in Seq(Hyperedge) /\ removedParallel \in Seq(ParallelHE)
    BY <1>1
  <2> QED BY <1>1, <1>7, <2>1, <2>2, EdgeWeightAssumption DEF ClientTyped
<1>10. StackKept
  <2>1. BeginsOrdered(history, removedSingle, removedParallel)
    BY <1>1, <1>8 DEF BeginsOrdered
  <2> QED BY <1>1, <1>8, <2>1 DEF StackKept, Stacked
<1>11. LoopKept
  BY <1>1, <1>8 DEF LoopKept, LoopsBelow
<1>12. SinglesFirst /\ RepresentativeEnabled
  BY <1>1 DEF SinglesFirst, RepresentativeEnabled
<1>13. NetsAccounted
  <2>1. {removedSingle[k] : k \in 1 .. Len(removedSingle)} = {} /\ {removedParallel[q].removed : q \in 1 .. Len(removedParallel)} = {}
    BY <1>8
  <2> QED BY <1>4, <1>8, <2>1 DEF NetsAccounted, Accounted
<1>14. RemovalsLogged
  BY <1>8 DEF RemovalsLogged, Logged
<1>15. WeightsKept
  <2> DEFINE g == [q \in 0 .. 0 |-> InitEdgeWeight]
  <2>1. g \in [0 .. 0 -> [Hyperedge -> Nat]] /\ g[0] = InitEdgeWeight
    BY EdgeWeightAssumption
  <2>2. Merges(g, removedParallel, edgeWeight)
    BY <1>1, <1>8, <2>1 DEF Merges
  <2> QED BY <2>2 DEF WeightsKept
<1>16. LevelsShrink
  BY <1>4, <1>5, <1>8 DEF LevelsShrink, Shrinking
<1>17. MaxWeightsKept
  <2>1. Ordered(maxWeights)
    BY <1>7 DEF Ordered
  <2>2. Timely(maxWeights, Cardinality(hg.nodes), phase # "refining")
    BY <1>4, <1>5, <1>6, <1>7 DEF Timely
  <2>3. Bounded(maxWeights, hg)
    BY <1>4, <1>5, <1>6, <1>7 DEF Bounded
  <2> QED BY <1>7, <1>8, <2>1, <2>2, <2>3 DEF MaxWeightsKept
<1> QED BY <1>3, <1>9, <1>10, <1>11, <1>12, <1>13, <1>14, <1>15, <1>16, <1>17 DEF Inv

\* The invariant in the groups that the lemmas on the steps are about.
LEMMA InvGroups == Inv <=> HypergraphKept /\ CoreKept /\ NetsKept /\ LevelsKept
BY DEF Inv, CoreKept, NetsKept, LevelsKept

\* Until the time limit is exceeded, every step keeps what is known of the
\* hypergraph.
LEMMA HypergraphStep ==
  ASSUME HypergraphKept, [Next]_vars, ~ timeUp'
  PROVE  HypergraphKept'
<1>1. P!P!UndoChain /\ P!Inv /\ [P!Next]_(P!vars)
  BY StepHypergraph DEF HypergraphKept
<1>2. P!P!UndoChain'
  BY <1>1, HypergraphConstants, P!ChainKept
<1>3. P!Inv'
  BY <1>1, HypergraphConstants, P!InvInductive
<1> QED BY <1>2, <1>3 DEF HypergraphKept

\* The invariant is inductive until the time limit is exceeded.
LEMMA Inductive ==
  ASSUME Inv, [Next]_vars, ~ timeUp'
  PROVE  Inv'
<1>0. HypergraphKept /\ CoreKept /\ NetsKept /\ LevelsKept /\ HypergraphKept'
  BY InvGroups, HypergraphStep
<1>01. NetsAccounted /\ WeightsKept /\ LevelsShrink /\ maxWeights # << >>
  BY <1>0 DEF NetsKept, LevelsKept, MaxWeightsKept
<1> DEFINE Kept == CoreKept' /\ NetsKept' /\ LevelsKept'
<1>1. ASSUME NEW u \in Hypernode, NEW v \in Hypernode, PerformContraction(u, v) PROVE Kept
  BY <1>0, <1>01, <1>1, ContractCore, ContractKeepsNets, ContractLevels
<1>2. ASSUME NEW e \in Hyperedge, RemoveSingle(e) PROVE Kept
  <2>1. H!RemoveEdge(e) /\ maxWeights' = maxWeights
    BY <1>2 DEF RemoveSingle
  <2> QED BY <1>0, <1>2, <2>1, RemoveSingleCore, RemoveSingleKeepsNets, RemoveLevels
<1>3. ASSUME NEW rep \in Hyperedge, NEW e \in Hyperedge, RemoveParallel(rep, e) PROVE Kept
  <2>1. H!RemoveEdge(e) /\ maxWeights' = maxWeights
    BY <1>3 DEF RemoveParallel
  <2> QED BY <1>0, <1>3, <2>1, RemoveParallelCore, RemoveParallelKeepsNets, RemoveLevels
<1>4. ASSUME QuietStep PROVE Kept
  BY <1>0, <1>4, QuietCore, QuietNets, QuietLevels
<1>5. ASSUME RestoreParallel PROVE Kept
  <2>1. (\E rep : H!RestoreParallelEdge(rep)) /\ maxWeights' = maxWeights
    BY <1>5 DEF RestoreParallel
  <2> QED BY <1>0, <1>01, <1>5, <2>1, RestoreParallelCore, RestoreParallelKeepsNets, RestoreLevels
<1>6. ASSUME RestoreSingle PROVE Kept
  <2>1. H!RestoreEdge /\ maxWeights' = maxWeights
    BY <1>6 DEF RestoreSingle
  <2> QED BY <1>0, <1>6, <2>1, RestoreSingleCore, RestoreSingleKeepsNets, RestoreLevels
<1>7. ASSUME Uncontract PROVE Kept
  BY <1>0, <1>01, <1>7, UncontractCore, UncontractKeepsNets, UncontractLevels
<1>8. ~ SoftTimeLimit
  BY Zenon DEF SoftTimeLimit
<1> HIDE DEF Kept
<1>9. Kept
  BY <1>1, <1>2, <1>3, <1>4, <1>5, <1>6, <1>7, <1>8 DEF Next, Uncoarsening, QuietStep
<1>10. (HypergraphKept /\ CoreKept /\ NetsKept /\ LevelsKept)'
  BY <1>0, <1>9 DEF Kept
<1> QED BY <1>10 DEF Inv, CoreKept, NetsKept, LevelsKept

\* Nothing takes the excess of the time limit back.
LEMMA TimeStaysUp ==
  ASSUME timeUp, [Next]_vars
  PROVE  timeUp'
<1>1. ASSUME NEW u \in Hypernode, NEW v \in Hypernode, PerformContraction(u, v) PROVE timeUp'
  BY <1>1 DEF PerformContraction
<1>2. ASSUME NEW e \in Hyperedge, RemoveSingle(e) PROVE timeUp'
  BY <1>2 DEF RemoveSingle
<1>3. ASSUME NEW rep \in Hyperedge, NEW e \in Hyperedge, RemoveParallel(rep, e) PROVE timeUp'
  BY <1>3 DEF RemoveParallel
<1>4. ASSUME QuietStep PROVE timeUp'
  BY <1>4, QuietStays DEF Stays
<1>5. ASSUME RestoreParallel \/ RestoreSingle \/ Uncontract PROVE timeUp'
  BY <1>5 DEF RestoreParallel, RestoreSingle, Uncontract
<1>6. ASSUME SoftTimeLimit PROVE timeUp'
  BY <1>6, Zenon DEF SoftTimeLimit
<1> QED BY <1>1, <1>2, <1>3, <1>4, <1>5, <1>6 DEF Next, Uncoarsening, QuietStep

\* Until the soft time limit is exceeded, the log of the hypergraph is what the
\* coarsener's history and the pruner's two vectors say together.
THEOREM InvUntilTimeLimit == Spec => [](~ timeUp => Inv)
<1>1. Init => (~ timeUp => Inv)
  BY Initially
<1>2. (~ timeUp => Inv) /\ [Next]_vars => (~ timeUp => Inv)'
  BY Inductive, TimeStaysUp
<1> QED BY <1>1, <1>2, PTL DEF Spec
-----------------------------------------------------------------------------
(* What follows from the invariant.                                          *)

\* A partition property of Hypergraph means the same in both instances.
LEMMA SameTypes == H!TypeOK <=> P!TypeOK
BY SameIncidenceActions
DEF H!TypeOK, P!TypeOK, H!NetPart, P!NetPart, H!PartInfo, P!PartInfo

\* Within the n-level scheme, too, what the hypergraph keeps about the partition
\* is exact at every level, in every V-cycle, until the time limit is exceeded.
THEOREM PartitionExactUntilTimeLimit == Spec => [](~ timeUp => P!PartitionDataExact)
<1>1. Inv => P!PartitionDataExact
  BY HypergraphConstants, P!InvExact DEF Inv, HypergraphKept
<1> QED BY <1>1, InvUntilTimeLimit, PTL

\* The client's loops restore what was removed or contracted last.
LEMMA InvReverse ==
  ASSUME Inv
  PROVE  RestoresInReverse
<1> DEFINE n == Len(history)
<1>1. /\ StackParts(P!P!LogEntry, log, history, removedSingle, removedParallel)
      /\ Stacked(log, history, removedSingle, removedParallel)
      /\ history \in Seq(Memento) /\ removedSingle \in Seq(Hyperedge) /\ removedParallel \in Seq(ParallelHE)
  BY ClientParts DEF Inv, StackKept, ClientTyped
<1>2. LoopKept
  BY DEF Inv
<1>3. Last(history) = history[n] /\ Last(removedSingle) = removedSingle[Len(removedSingle)]
      /\ Last(removedParallel) = removedParallel[Len(removedParallel)]
  BY DEF Last
<1>4. ASSUME pc = "parallel", cursor > Last(history).parallelBegin
      PROVE  /\ cursor = Len(removedParallel)
             /\ Last(log).op = "remove" /\ Last(log).e = removedParallel[cursor].removed
  <2>1. history # << >> /\ cursor = Len(removedParallel)
    BY <1>2, <1>4 DEF LoopKept
  <2>2. RemovedAs(Last(log), Last(removedParallel).removed)
    BY <1>1, <1>3, <1>4, <2>1, PopParallel
  <2> QED BY <1>3, <2>1, <2>2 DEF RemovedAs
<1>5. ASSUME pc = "single", cursor > Last(history).singleBegin
      PROVE  /\ cursor = Len(removedSingle)
             /\ Last(log).op = "remove" /\ Last(log).e = removedSingle[cursor]
  <2>1. history # << >> /\ cursor = Len(removedSingle) /\ Len(removedParallel) = Last(history).parallelBegin
    BY <1>2, <1>5 DEF LoopKept
  <2>2. RemovedAs(Last(log), Last(removedSingle))
    BY <1>1, <1>3, <1>5, <2>1, PopSingle
  <2> QED BY <1>3, <2>1, <2>2 DEF RemovedAs
<1>6. ASSUME pc = "single", cursor = Last(history).singleBegin
      PROVE  Last(log).op = "contract" /\ Last(log).u = Last(history).u /\ Last(log).v = Last(history).v
  <2>1. history # << >> /\ cursor = Len(removedSingle) /\ Len(removedParallel) = Last(history).parallelBegin
    BY <1>2, <1>6 DEF LoopKept
  <2>2. ContractedAs(Last(log), Last(history))
    BY <1>1, <1>3, <1>6, <2>1, PopLevel
  <2> QED BY <2>2 DEF ContractedAs
<1> QED BY <1>4, <1>5, <1>6 DEF RestoresInReverse

\* The last bound is the highest one.
LEMMA InvBounds ==
  ASSUME Inv
  PROVE  MaxWeightBounds
<1>1. /\ maxWeights \in Seq(MaxWeight) /\ maxWeights # << >> /\ Ordered(maxWeights) /\ Bounded(maxWeights, hg)
      /\ hg.weight \in [Hypernode -> Nat] /\ hg.nodes \subseteq Hypernode
  <2>1. P!Sound(hg)
    BY LogTyped DEF Inv, HypergraphKept
  <2> QED BY <2>1 DEF Inv, ClientTyped, MaxWeightsKept, LevelsShrink, Shrinking, P!Sound
<1> DEFINE n == Len(maxWeights)
<1>2. /\ n \in Nat \ {0} /\ n \in 1 .. n /\ Last(maxWeights) = maxWeights[n]
      /\ \A k \in 1 .. n : maxWeights[k].weight \in Nat
  BY <1>1, BoundFields, EmptySeq DEF Last
<1> HIDE DEF n
<1>3. ASSUME NEW k \in 1 .. n PROVE maxWeights[k].weight <= maxWeights[n].weight
  <2>1. k = n \/ k < n
    BY <1>2
  <2>2. k < n => maxWeights[k].weight <= maxWeights[n].weight
    BY <1>1, <1>2 DEF Ordered, n
  <2> QED BY <1>2, <2>1, <2>2
<1>4. ASSUME NEW v \in hg.nodes PROVE hg.weight[v] <= Last(maxWeights).weight
  <2>1. PICK k \in 1 .. n : hg.weight[v] <= maxWeights[k].weight
    BY <1>1 DEF Bounded, n
  <2>2. /\ hg.weight[v] \in Nat /\ maxWeights[k].weight \in Nat /\ maxWeights[n].weight \in Nat
        /\ maxWeights[k].weight <= maxWeights[n].weight
    BY <1>1, <1>2, <1>3
  <2>3. hg.weight[v] <= maxWeights[n].weight
    BY <2>1, <2>2
  <2> QED BY <1>2, <2>3
<1> QED BY <1>4 DEF MaxWeightBounds

\* Nothing is left of what was recorded when the history is used up.
LEMMA InvHandsBack ==
  ASSUME Inv
  PROVE  NetsHandedBack
<1> SUFFICES ASSUME history = << >>
             PROVE  log = << >> /\ removedSingle = << >> /\ removedParallel = << >> /\ edgeWeight = InitEdgeWeight
  BY DEF NetsHandedBack
<1>1. removedSingle = << >> /\ removedParallel = << >>
  BY DEF Inv, StackKept, Stacked
<1>2. log = << >>
  BY NoHistory DEF Inv
<1>3. PICK g : Merges(g, removedParallel, edgeWeight)
  BY DEF Inv, WeightsKept
<1>4. edgeWeight = InitEdgeWeight
  BY <1>1, <1>3, NothingMerged
<1> QED BY <1>1, <1>2, <1>4

\* So what coarsening records fits what uncoarsening does with it.
LEMMA InvRecords ==
  ASSUME Inv
  PROVE  RecordsExact
<1>1. P!TypeOK
  BY HypergraphConstants, P!InvExact DEF Inv, HypergraphKept, P!PartitionDataExact
<1>2. TypeOK
  BY <1>1, SameTypes DEF TypeOK, Inv, ClientTyped
<1> QED BY <1>2, InvReverse, InvBounds, InvHandsBack DEF RecordsExact

\* Until the time limit is exceeded, through any number of V-cycles: the pruner's
\* two vectors and their indices restore the nets in exactly the reverse of the
\* order in which they were removed, each contraction is undone when the nets that
\* it made superfluous are back, _max_hn_weights bounds the weight of every
\* hypernode of the level that local search works on, and in the end all nets have
\* the weight they had in the input.
THEOREM RecordsExactUntilTimeLimit == Spec => [](~ timeUp => RecordsExact)
<1>1. Inv => RecordsExact
  BY InvRecords
<1> QED BY <1>1, InvUntilTimeLimit, PTL
-----------------------------------------------------------------------------
(* The metric.                                                               *)

\* What net e of the input pays per unit of its weight, minus one for being
\* connected at all.
Paid == [e \in Hyperedge |-> Cardinality(Connected(e)) - 1]

\* A hypernode of the input is projected to the same block in both instances of
\* Hypergraph.
LEMMA SameProjection ==
  /\ \A l, x : H!Up(l, x) = P!Up(l, x)
  /\ \A ops, x : H!Represented(ops, x) = P!Represented(ops, x)
  /\ \A x : H!Projected(x) = P!Projected(x)
<1>1. \A l, x : H!Up(l, x) = P!Up(l, x)
  BY DEF H!Up, P!Up
<1>2. \A ops, x : H!Represented(ops, x) = P!Represented(ops, x)
  BY <1>1, Zenon DEF H!Represented, P!Represented
<1>3. \A x : H!Projected(x) = P!Projected(x)
  BY <1>2 DEF H!Projected, P!Projected, H!Representative, P!Representative
<1> QED BY <1>1, <1>2, <1>3

\* Blocks that a net of the input connects, in the terms of the proofs about
\* Hypergraph.
LEMMA ConnectedMeans ==
  /\ \A e : Connected(e) = {P!Projected(x) : x \in InitPins[e]}
  /\ \A e \in Hyperedge : Cardinality(Connected(e)) \in Nat
  /\ Paid \in [Hyperedge -> Int]
<1>1. \A e : Connected(e) = {P!Projected(x) : x \in InitPins[e]}
  BY SameProjection DEF Connected
<1>2. ASSUME NEW e \in Hyperedge PROVE Cardinality(Connected(e)) \in Nat
  <2>1. IsFiniteSet(InitPins[e])
    BY HypergraphAssumption, FS_Subset
  <2>2. IsFiniteSet(Connected(e))
    <3> DEFINE f == [x \in InitPins[e] |-> H!Projected(x)]
    <3>1. f \in Surjection(InitPins[e], Connected(e))
      BY DEF Surjection, Connected
    <3> HIDE DEF f
    <3> QED BY <2>1, <3>1, FS_Surjection
  <2> QED BY <2>2, FS_CardinalityType
<1>3. Paid \in [Hyperedge -> Int]
  BY <1>2 DEF Paid
<1> QED BY <1>1, <1>2, <1>3

\* What the log says of the nets that are gone: a net that was merged pays what
\* the one that absorbed it pays, and a single-pin net pays nothing.
LEMMA RemovedPay ==
  ASSUME Inv
  PROVE  /\ \A q \in 1 .. Len(removedParallel) :
              Paid[removedParallel[q].representative] = Paid[removedParallel[q].removed]
         /\ \A k \in 1 .. Len(removedSingle) : Paid[removedSingle[k]] = 0
<1>1. /\ P!P!UndoChain /\ Logged(log, removedSingle, removedParallel)
      /\ removedSingle \in Seq(Hyperedge) /\ removedParallel \in Seq(ParallelHE)
  BY DEF Inv, HypergraphKept, RemovalsLogged, ClientTyped
<1>2. ASSUME NEW q \in 1 .. Len(removedParallel)
      PROVE  Paid[removedParallel[q].representative] = Paid[removedParallel[q].removed]
  <2> DEFINE r == removedParallel[q].representative
             x == removedParallel[q].removed
  <2>1. PICK j \in 1 .. Len(log) : ParallelLogged(log[j], removedParallel[q])
    BY <1>1 DEF Logged
  <2>2. /\ r \in log[j].before.edges /\ x \in log[j].before.edges
        /\ log[j].before.pins[r] = log[j].before.pins[x]
    <3>1. log[j].op = "remove" /\ log[j].e = x
      BY <2>1 DEF ParallelLogged, RemovedAs
    <3>2. x \in log[j].before.edges
      BY <1>1, <3>1, HypergraphConstants, P!LoggedRemoval
    <3> QED BY <2>1, <3>2 DEF ParallelLogged
  <2>3. {P!Projected(y) : y \in InitPins[r]} = {P!Projected(y) : y \in InitPins[x]}
    BY <1>1, <2>2, HypergraphConstants, P!AlikeInInput
  <2>4. r \in Hyperedge /\ x \in Hyperedge
    <3>1. removedParallel[q] \in ParallelHE
      BY <1>1, ElementOfSeq
    <3> QED BY <3>1 DEF ParallelHE
  <2>5. Connected(r) = Connected(x)
    BY <2>3, ConnectedMeans
  <2> QED BY <2>4, <2>5 DEF Paid
<1>3. ASSUME NEW k \in 1 .. Len(removedSingle) PROVE Paid[removedSingle[k]] = 0
  <2> DEFINE x == removedSingle[k]
  <2>1. PICK j \in 1 .. Len(log) : SingleLogged(log[j], x)
    BY <1>1 DEF Logged
  <2>2. log[j].op = "remove" /\ log[j].e = x
    BY <2>1 DEF SingleLogged, RemovedAs
  <2>3. x \in log[j].before.edges
    BY <1>1, <2>2, HypergraphConstants, P!LoggedRemoval
  <2>4. P!Cardinality(log[j].before.pins[x]) = 1
    BY <2>1, SameLibrary DEF SingleLogged
  <2>5. P!Cardinality({P!Projected(y) : y \in InitPins[x]}) = 1
    BY <1>1, <2>3, <2>4, HypergraphConstants, P!InternalInInput
  <2>6. Cardinality(Connected(x)) = 1
    <3>1. Connected(x) = {P!Projected(y) : y \in InitPins[x]}
      BY ConnectedMeans
    <3> QED BY <2>5, <3>1, SameLibrary
  <2>7. x \in Hyperedge
    BY <1>1, ElementOfSeq
  <2> QED BY <2>6, <2>7 DEF Paid
<1> QED BY <1>2, <1>3

\* So the nets of the level, with the weights of what they have absorbed, pay
\* together what those of the input pay.
LEMMA InvMetric ==
  ASSUME Inv
  PROVE  MetricOfInput
<1> SUFFICES ASSUME phase = "refining" PROVE Km1 = ProjectedKm1
  BY DEF MetricOfInput
<1>1. /\ P!P!UndoChain /\ P!Inv /\ Accounted(hg.edges, removedSingle, removedParallel)
      /\ edgeWeight \in [Hyperedge -> Nat] /\ hg.edges \in SUBSET Hyperedge
      /\ removedSingle \in Seq(Hyperedge) /\ removedParallel \in Seq(ParallelHE)
  <2>1. P!Sound(hg)
    BY LogTyped DEF Inv, HypergraphKept
  <2> QED BY <2>1 DEF Inv, HypergraphKept, NetsAccounted, ClientTyped, P!Sound
<1>2. PICK g : Merges(g, removedParallel, edgeWeight)
  BY DEF Inv, WeightsKept
<1>3. Paid \in [Hyperedge -> Int] /\ \A e \in Hyperedge : Cardinality(Connected(e)) \in Nat
  BY ConnectedMeans
<1> DEFINE N == Unmerged(removedParallel, Len(removedParallel))
<1>4. Total(Weighted(edgeWeight, Paid), N) = Total(Weighted(InitEdgeWeight, Paid), Hyperedge)
  <2>1. \A q \in 1 .. Len(removedParallel) :
          Paid[removedParallel[q].representative] = Paid[removedParallel[q].removed]
    BY RemovedPay
  <2> HIDE DEF N
  <2> QED BY <1>1, <1>2, <1>3, <2>1, MergersKeepSum DEF N
<1>5. Total(Weighted(edgeWeight, Paid), N) = Total(Weighted(edgeWeight, Paid), hg.edges)
  <2>1. \A k \in 1 .. Len(removedSingle) : Paid[removedSingle[k]] = 0
    BY RemovedPay
  <2> QED BY <1>1, <1>3, <2>1, EnabledSum
<1> HIDE DEF N
<1>6. \A e \in Hyperedge :
        Weighted(edgeWeight, Paid)[e] \in Int /\ Weighted(InitEdgeWeight, Paid)[e] \in Int
  <2>1. \A e \in Hyperedge : edgeWeight[e] \in Int /\ InitEdgeWeight[e] \in Int /\ Paid[e] \in Int
    BY <1>1, <1>3, EdgeWeightAssumption
  <2> QED BY <2>1, Distributes DEF Weighted
<1>7. Km1 = Total(Weighted(edgeWeight, Paid), hg.edges)
  <2> DEFINE f == [e \in hg.edges |-> edgeWeight[e] * (netPart[e].connectivity - 1)]
  <2>1. ASSUME NEW e \in hg.edges
        PROVE  Weighted(edgeWeight, Paid)[e] \in Int /\ f[e] = Weighted(edgeWeight, Paid)[e]
    <3>1. netPart[e].connectivity = P!Cardinality({P!Projected(x) : x \in InitPins[e]})
      BY <1>1, HypergraphConstants, P!InvProjected
    <3>2. Connected(e) = {P!Projected(x) : x \in InitPins[e]}
      BY ConnectedMeans
    <3>3. netPart[e].connectivity = Cardinality(Connected(e))
      BY <3>1, <3>2, SameLibrary
    <3>4. e \in Hyperedge
      BY <1>1
    <3> QED BY <1>6, <3>3, <3>4 DEF Weighted, Paid
  <2>2. IsFiniteSet(hg.edges)
    BY <1>1, HypergraphAssumption, FS_Subset
  <2>3. Km1 = Total(f, hg.edges)
    BY SumIsTotal DEF Km1
  <2> HIDE DEF f
  <2>4. Total(Weighted(edgeWeight, Paid), hg.edges) = Total(f, hg.edges)
    BY <2>1, <2>2, TotalEqual
  <2> QED BY <2>3, <2>4
<1>8. ProjectedKm1 = Total(Weighted(InitEdgeWeight, Paid), Hyperedge)
  <2> DEFINE f == [e \in Hyperedge |-> InitEdgeWeight[e] * (Cardinality(Connected(e)) - 1)]
  <2>1. \A e \in Hyperedge :
          Weighted(InitEdgeWeight, Paid)[e] \in Int /\ f[e] = Weighted(InitEdgeWeight, Paid)[e]
    BY <1>6 DEF Weighted, Paid
  <2>2. IsFiniteSet(Hyperedge)
    BY HypergraphAssumption
  <2>3. ProjectedKm1 = Total(f, Hyperedge)
    BY SumIsTotal DEF ProjectedKm1
  <2> HIDE DEF f
  <2>4. Total(Weighted(InitEdgeWeight, Paid), Hyperedge) = Total(f, Hyperedge)
    BY <2>1, <2>2, TotalEqual
  <2> QED BY <2>3, <2>4
<1> QED BY <1>4, <1>5, <1>7, <1>8

\* The connectivity metric that local search works on is that of the partition of
\* the input, at every level and in every V-cycle, until the time limit is
\* exceeded: no net that was removed or merged is missing from it or counted twice.
THEOREM MetricOfInputUntilTimeLimit == Spec => [](~ timeUp => MetricOfInput)
<1>1. Inv => MetricOfInput
  BY InvMetric
<1> QED BY <1>1, InvUntilTimeLimit, PTL
-----------------------------------------------------------------------------
(* The soft time limit.                                                      *)

\* Only the time limit sets time_limit_triggered.
LEMMA LimitStep ==
  ASSUME [Next]_vars, ~ timeUp, timeUp'
  PROVE  SoftTimeLimit
<1>1. ASSUME NEW u \in Hypernode, NEW v \in Hypernode, PerformContraction(u, v) PROVE FALSE
  BY <1>1 DEF PerformContraction
<1>2. ASSUME NEW e \in Hyperedge, RemoveSingle(e) PROVE FALSE
  BY <1>2 DEF RemoveSingle
<1>3. ASSUME NEW rep \in Hyperedge, NEW e \in Hyperedge, RemoveParallel(rep, e) PROVE FALSE
  BY <1>3 DEF RemoveParallel
<1>4. ASSUME QuietStep PROVE FALSE
  BY <1>4, QuietStays DEF Stays
<1>5. ASSUME RestoreParallel \/ RestoreSingle \/ Uncontract PROVE FALSE
  BY <1>5 DEF RestoreParallel, RestoreSingle, Uncontract
<1> QED BY <1>1, <1>2, <1>3, <1>4, <1>5 DEF Next, Uncoarsening, QuietStep

\* What the invariant says of the types of the partition.
LEMMA PartitionTypes ==
  ASSUME Inv
  PROVE  part \in Partitions /\ block \in [Block -> H!PartInfo]
<1>1. P!TypeOK
  BY HypergraphConstants, P!InvExact DEF Inv, HypergraphKept, P!PartitionDataExact
<1> QED BY <1>1, SameTypes DEF H!TypeOK, Partitions

\* restoreMemento for all that is left of the history projects the partition.
LEMMA LimitProjects ==
  ASSUME Inv, SoftTimeLimit
  PROVE  part' \in Partitions /\ \A x \in Hypernode : part'[x] = H!Projected(x)
<1>1. /\ part \in Partitions /\ history \in Seq(Memento)
      /\ StackParts(P!P!LogEntry, log, history, removedSingle, removedParallel)
      /\ Stacked(log, history, removedSingle, removedParallel)
      /\ log \in Seq(P!P!LogEntry) /\ Len(history) \in Nat
  BY PartitionTypes, ClientParts, LogTyped, LenProperties DEF Inv, StackKept, ClientTyped, HypergraphKept
<1>2. part' = ProjectedPart
  BY DEF SoftTimeLimit
<1>3. PICK q : RestoresBack(q, history, part) /\ q[0] = part'
  BY <1>1, <1>2, ProjectionExists
<1>4. part' \in Partitions
  BY <1>1, <1>3 DEF RestoresBack
<1>5. ASSUME NEW x \in Hypernode PROVE part'[x] = H!Projected(x)
  <2> DEFINE g == P!Represented(log, x)
  <2>1. P!Follows(g, log, x)
    BY <1>1, HypergraphConstants, P!RepresentedFollows
  <2>2. Leads(g, log) /\ g[0] = x
    BY <2>1, SameProjection DEF P!Follows, Leads
  <2>3. P!Projected(x) = part[g[Len(log)]]
    BY DEF P!Projected, P!Representative
  <2> HIDE DEF g
  <2>4. q[0][g[0]] = part[g[Len(log)]]
    BY <1>1, <1>3, <2>2, RestoresWhatLeads
  <2> QED BY <1>3, <2>2, <2>3, <2>4, SameProjection
<1> QED BY <1>4, <1>5

\* When the time limit cuts the uncoarsening short, every hypernode of the input gets
\* the block that the log of contractions projects it to, although restoreMemento
\* only sees the history, and the block weights that it leaves alone are those of
\* the projected partition.
THEOREM TimeLimitProjected == Spec => TimeLimitProjects
<1>1. ASSUME Inv, SoftTimeLimit
      PROVE  /\ \A v \in Hypernode : part'[v] = H!Projected(v)
             /\ \A b \in Block : block'[b].weight =
                  H!WeightOf([weight |-> InitWeight], {v \in Hypernode : part'[v] = b})
  <2>1. \A v \in Hypernode : part'[v] = H!Projected(v)
    BY <1>1, LimitProjects
  <2>2. ASSUME NEW b \in Block
        PROVE  block'[b].weight = H!WeightOf([weight |-> InitWeight], {v \in Hypernode : part'[v] = b})
    <3> DEFINE X == {v \in Hypernode : P!Projected(v) = b}
    <3>1. X = {v \in Hypernode : part'[v] = b}
      BY <2>1, SameProjection
    <3>2. block[b].weight = P!Total(InitWeight, X)
      BY <1>1, HypergraphConstants, P!ProjectedWeight DEF Inv, HypergraphKept
    <3>3. block'[b].weight = block[b].weight
      <4>1. block[b] \in H!PartInfo
        BY <1>1, PartitionTypes
      <4> QED BY <1>1, <4>1 DEF SoftTimeLimit, H!PartInfo
    <3> HIDE DEF X
    <3>4. H!WeightOf([weight |-> InitWeight], X) = P!Total(InitWeight, X)
      <4>1. P!WeightOf([weight |-> InitWeight], X) = P!Total([weight |-> InitWeight].weight, X)
        BY HypergraphConstants, P!WeightIsTotal
      <4> QED BY <4>1, SameDefinitions
    <3> QED BY <3>1, <3>2, <3>3, <3>4
  <2> QED BY <2>1, <2>2
<1>2. (~ timeUp => Inv) /\ [Next]_vars =>
        [timeUp' /\ ~ timeUp =>
           /\ \A v \in Hypernode : part'[v] = H!Projected(v)
           /\ \A b \in Block : block'[b].weight =
                H!WeightOf([weight |-> InitWeight], {v \in Hypernode : part'[v] = b})]_vars
  BY <1>1, LimitStep
<1> QED BY <1>2, InvUntilTimeLimit, PTL DEF Spec, TimeLimitProjects
-----------------------------------------------------------------------------
(* No superfluous net survives a level.                                      *)

\* Sound structures list the nets of their hypernodes.
LEMMA SoundListed == ASSUME NEW s, P!Sound(s) PROVE Listed(s)
BY DEF P!Sound, Listed

\* What the pruner leaves, in terms of the invariant.
LEMMA InvPruned ==
  ASSUME Inv, ProperKept, phase = "coarsening", Pruned
  PROVE  Proper(hg)
<1>1. Listed(hg) /\ ClientTyped /\ NetsAccounted /\ RepresentativeEnabled
  BY LogTyped, SoundListed DEF Inv, HypergraphKept
<1>2. history = << >> => hg.edges = Hyperedge /\ hg.pins = InitPins
  BY NoHistory DEF Inv
<1> QED BY <1>1, <1>2, PrunedProper

\* A contraction begins a level with the proper structure that the pruner has left.
LEMMA ContractProper ==
  ASSUME Inv, ProperKept, NEW u \in Hypernode, NEW v \in Hypernode, PerformContraction(u, v)
  PROVE  ProperKept'
<1> DEFINE m == [u |-> u, v |-> v,
                 singleBegin |-> Len(removedSingle), singleSize |-> 0,
                 parallelBegin |-> Len(removedParallel), parallelSize |-> 0]
           l == [op |-> "contract", u |-> u, v |-> v, before |-> hg]
<1>1. /\ history' = Append(history, m)
      /\ removedParallel' = removedParallel
      /\ H!Contract(u, v) /\ Pruned /\ hash' = ContractedHash(u, v)
      /\ phase = "coarsening" /\ phase' = phase
  BY DEF PerformContraction, pruner, H!Contract
<1>2. /\ P!Merges(hg, u, v, hg') /\ log' = Append(log, l) /\ l \in P!P!LogEntry
      /\ log \in Seq(P!P!LogEntry)
  BY <1>1, ContractCall, LogTyped DEF Inv, HypergraphKept
<1>3. Proper(hg)
  BY <1>1, InvPruned
<1>4. Last(history') = m /\ Len(removedParallel) \in Nat /\ hash \in [Hyperedge -> [Hypernode -> Int]]
  <2>1. /\ history \in Seq(Memento) /\ Len(removedSingle) \in Nat /\ Len(removedParallel) \in Nat
        /\ hash \in [Hyperedge -> [Hypernode -> Int]]
    BY ClientParts DEF Inv, ClientTyped
  <2>2. m \in Memento
    BY <2>1 DEF Memento
  <2> HIDE DEF m
  <2> QED BY <1>1, <2>1, <2>2, Push
<1>5. HashesExact'
  <2>1. \A e \in hg'.edges : hash'[e] = HashOf(hg'.pins[e])
    BY <1>1, <1>2, <1>4, SoundListed, ContractHashes DEF P!Merges, ProperKept
  <2> QED BY <1>1, <2>1 DEF HashesExact
<1>6. LevelBase(hg, m, hg', removedParallel')
  <2>1. \A e \in hg.edges : hg'.pins[e] = MergedPins(hg.pins[e], u, v)
    BY <1>2 DEF P!Merges, P!Sound, MergedPins
  <2>2. /\ hg'.edges = hg.edges /\ hg.pins \in [Hyperedge -> SUBSET Hypernode]
    BY <1>2 DEF P!Merges, P!Sound
  <2> QED BY <1>1, <1>3, <1>4, <2>1, <2>2 DEF LevelBase, Proper
<1>7. LevelMerged'
  BY <1>4, <1>6 DEF LevelMerged
<1>8. ContractedProper'
  <2>1. l.before = hg
    OBVIOUS
  <2> HIDE DEF l
  <2> QED BY <1>2, <1>3, <2>1, ContractedPush DEF ProperKept
<1> QED BY <1>5, <1>7, <1>8 DEF ProperKept

\* Removing a net with a single pin changes the base of the level no more than that.
LEMMA RemoveSingleProper ==
  ASSUME Inv, ProperKept, NEW e \in Hyperedge, RemoveSingle(e)
  PROVE  ProperKept'
<1> DEFINE l == [op |-> "remove", e |-> e, before |-> hg]
           m2 == [history[Len(history)] EXCEPT !.singleSize = @ + 1]
<1>1. /\ UNCHANGED <<removedParallel, hash>>
      /\ history # << >> /\ history' = [history EXCEPT ![Len(history)] = m2]
      /\ H!RemoveEdge(e)
      /\ phase = "coarsening" /\ phase' = phase
  BY DEF RemoveSingle, H!RemoveEdge
<1>2. /\ P!Drops(hg, e, hg') /\ log' = Append(log, l) /\ l \in P!P!LogEntry
      /\ log \in Seq(P!P!LogEntry)
  BY <1>1, RemoveCall, LogTyped DEF Inv, HypergraphKept
<1>3. history \in Seq(Memento) /\ removedParallel \in Seq(ParallelHE)
  BY DEF Inv, ClientTyped
<1>4. hg'.edges = hg.edges \ {e} /\ hg'.pins = hg.pins
  BY <1>2 DEF P!Drops
<1>5. HashesExact'
  BY <1>1, <1>4 DEF ProperKept, HashesExact
<1>6. SameLevel(Last(history), Last(history')) /\ Last(history).parallelBegin \in Nat
  <2>1. Last(history) \in Memento
    BY <1>1, <1>3, Pop, Zenon
  <2> QED BY <1>1, <1>3, <2>1, LastCounted DEF Memento
<1>7. LevelMerged'
  <2>1. PICK s : LevelBase(s, Last(history), hg, removedParallel)
    BY <1>1 DEF ProperKept, LevelMerged
  <2>2. LevelBase(s, Last(history'), hg', removedParallel)
    BY <1>3, <1>4, <1>6, <2>1, BaseKept DEF SameLevel
  <2> QED BY <1>1, <2>2 DEF LevelMerged
<1>8. ContractedProper'
  <2>1. l.op # "contract"
    OBVIOUS
  <2> HIDE DEF l
  <2> QED BY <1>2, <2>1, ContractedPush DEF ProperKept
<1> QED BY <1>5, <1>7, <1>8 DEF ProperKept

\* The removed parallel net, and its representative, were nets of that base.
LEMMA RemoveParallelProper ==
  ASSUME Inv, ProperKept, NEW rep \in Hyperedge, NEW e \in Hyperedge, RemoveParallel(rep, e)
  PROVE  ProperKept'
<1> DEFINE l == [op |-> "remove", e |-> e, before |-> hg]
           m2 == [history[Len(history)] EXCEPT !.parallelSize = @ + 1]
           pair == [representative |-> rep, removed |-> e]
<1>1. /\ hash' = hash /\ removedParallel' = Append(removedParallel, pair)
      /\ history # << >> /\ history' = [history EXCEPT ![Len(history)] = m2]
      /\ H!RemoveEdge(e)
      /\ phase = "coarsening" /\ phase' = phase
  BY DEF RemoveParallel, H!RemoveEdge
<1>2. /\ P!Drops(hg, e, hg') /\ log' = Append(log, l) /\ l \in P!P!LogEntry
      /\ log \in Seq(P!P!LogEntry)
  BY <1>1, RemoveCall, LogTyped DEF Inv, HypergraphKept
<1>3. history \in Seq(Memento) /\ removedParallel \in Seq(ParallelHE)
  BY DEF Inv, ClientTyped
<1>4. hg'.edges = hg.edges \ {e} /\ hg'.pins = hg.pins
  BY <1>2 DEF P!Drops
<1>5. HashesExact'
  BY <1>1, <1>4 DEF ProperKept, HashesExact
<1>6. SameLevel(Last(history), Last(history')) /\ Last(history).parallelBegin \in Nat
  <2>1. Last(history) \in Memento
    BY <1>1, <1>3, Pop, Zenon
  <2> QED BY <1>1, <1>3, <2>1, LastCounted DEF Memento
<1>7. LevelMerged'
  <2>1. PICK s : LevelBase(s, Last(history), hg, removedParallel)
    BY <1>1 DEF ProperKept, LevelMerged
  <2>2. /\ pair \in ParallelHE /\ pair.removed \in hg.edges
        /\ hg.pins[pair.representative] = hg.pins[pair.removed]
    <3>1. e \in hg.edges /\ hg.pins[rep] = hg.pins[e]
      BY InvGroups, AbsorbingNet
    <3> QED BY <3>1 DEF ParallelHE
  <2> HIDE DEF pair
  <2>3. LevelBase(s, Last(history'), hg', Append(removedParallel, pair))
    BY <1>3, <1>4, <1>6, <2>1, <2>2, BaseKept DEF SameLevel
  <2> QED BY <1>1, <2>3 DEF LevelMerged
<1>8. ContractedProper'
  <2>1. l.op # "contract"
    OBVIOUS
  <2> HIDE DEF l
  <2> QED BY <1>2, <2>1, ContractedPush DEF ProperKept
<1> QED BY <1>5, <1>7, <1>8 DEF ProperKept

\* While it uncoarsens, the client has no level to coarsen.
LEMMA UncoarsenProper ==
  ASSUME Inv, ProperKept, RestoreParallel \/ RestoreSingle \/ Uncontract
  PROVE  ProperKept'
<1>1. phase' = "refining"
  BY DEF RestoreParallel, RestoreSingle, Uncontract, H!RestoreParallelEdge, H!RestoreEdge, H!Uncontract
<1>2. log # << >> /\ log' = Front(log) /\ log \in Seq(P!P!LogEntry)
  BY RestoreCall, UncontractCall, LogTyped DEF Inv, HypergraphKept, RestoreParallel, RestoreSingle, Uncontract
<1>3. ContractedProper'
  BY <1>2, ContractedPop DEF ProperKept
<1> QED BY <1>1, <1>3 DEF ProperKept, HashesExact, LevelMerged

\* Initially nothing has been contracted.
LEMMA InitiallyProper ==
  ASSUME Init
  PROVE  ProperKept
<1>1. history = << >> /\ log = << >> /\ hg = H!I!Original /\ hash = [e \in Hyperedge |-> HashOf(InitPins[e])]
  BY DEF Init, H!Init, H!I!Init
<1>2. HashesExact
  BY <1>1 DEF HashesExact, H!I!Original
<1>3. LevelMerged /\ ContractedProper
  BY <1>1 DEF LevelMerged, ContractedProper
<1> QED BY <1>2, <1>3 DEF ProperKept

\* The steps keep this part of the invariant, too.
LEMMA ProperInductive ==
  ASSUME Inv, ProperKept, [Next]_vars, ~ timeUp'
  PROVE  ProperKept'
<1>1. ASSUME NEW u \in Hypernode, NEW v \in Hypernode, PerformContraction(u, v) PROVE ProperKept'
  BY <1>1, ContractProper
<1>2. ASSUME NEW e \in Hyperedge, RemoveSingle(e) PROVE ProperKept'
  BY <1>2, RemoveSingleProper
<1>3. ASSUME NEW rep \in Hyperedge, NEW e \in Hyperedge, RemoveParallel(rep, e) PROVE ProperKept'
  BY <1>3, RemoveParallelProper
<1>4. ASSUME QuietStep PROVE ProperKept'
  BY <1>4, QuietProper, SoundListed, LogTyped DEF Inv, HypergraphKept
<1>5. ASSUME RestoreParallel \/ RestoreSingle \/ Uncontract PROVE ProperKept'
  BY <1>5, UncoarsenProper
<1>6. ~ SoftTimeLimit
  BY Zenon DEF SoftTimeLimit
<1> QED BY <1>1, <1>2, <1>3, <1>4, <1>5, <1>6 DEF Next, Uncoarsening, QuietStep

\* What has been proper at the last contraction is so when the pruner is done.
LEMMA InvProper ==
  ASSUME Inv, ProperKept
  PROVE  NoSuperfluousNets
<1> SUFFICES ASSUME phase = "coarsening", Pruned, NoSingles(Hyperedge, InitPins), NoParallels(Hyperedge, InitPins)
             PROVE  NoSingles(hg.edges, hg.pins) /\ NoParallels(hg.edges, hg.pins)
  BY DEF NoSuperfluousNets, NoSingles, NoParallels
<1> QED BY InvPruned DEF Proper

\* The invariant with what it says of levels.
THEOREM ProperUntilTimeLimit == Spec => [](~ timeUp => Inv /\ ProperKept)
<1>1. Init => (~ timeUp => Inv /\ ProperKept)
  BY Initially, InitiallyProper
<1>2. (~ timeUp => Inv /\ ProperKept) /\ [Next]_vars => (~ timeUp => Inv /\ ProperKept)'
  BY Inductive, ProperInductive, TimeStaysUp
<1> QED BY <1>1, <1>2, PTL DEF Spec

\* Whatever is contracted, the pruner leaves no net with a single pin and no
\* parallel nets anywhere in the hypergraph, although it looks at the nets of one
\* hypernode only and skips those that have absorbed another.
THEOREM NoSuperfluousUntilTimeLimit == Spec => [](~ timeUp => NoSuperfluousNets)
<1>1. (~ timeUp => Inv /\ ProperKept) => (~ timeUp => NoSuperfluousNets)
  BY InvProper
<1> QED BY <1>1, ProperUntilTimeLimit, PTL

\* Until the soft time limit is exceeded, whatever the rater may propose satisfies
\* the assertion in contract.  (After it, a V-cycle may begin with nets that still
\* have their contracted pins.)
THEOREM RatedContractibleUntilTimeLimit == Spec => [](~ timeUp => RatedIsContractible)
<1>1. ASSUME Inv PROVE RatedIsContractible
  <2>1. P!Sound(hg)
    BY <1>1, LogTyped DEF Inv, HypergraphKept
  <2> SUFFICES ASSUME NEW v \in hg.nodes PROVE Contractible(v)
    BY DEF RatedIsContractible, Rated
  <2> QED BY <2>1 DEF P!Sound, Contractible
<1>2. (~ timeUp => Inv) => (~ timeUp => RatedIsContractible)
  BY <1>1
<1> QED BY <1>2, InvUntilTimeLimit, PTL
-----------------------------------------------------------------------------
(* When only the last V-cycle is limited, nothing comes after the limit.     *)

\* What is left of the types when the history is given up.
LEMMA LimitTypes ==
  ASSUME Inv, SoftTimeLimit
  PROVE  TypeOK'
<1>1. TypeOK /\ H!TypeOK
  BY InvRecords DEF RecordsExact, TypeOK
<1>2. /\ hg \in H!I!Structure /\ log \in Seq(H!I!LogEntry)
      /\ block \in [Block -> H!PartInfo] /\ fixedVertices \subseteq Hypernode
      /\ history \in Seq(Memento)
  BY <1>1 DEF TypeOK, H!TypeOK, H!I!TypeOK
<1> DEFINE nodes == {m.v : m \in ToSet(history)}
           freed(b) == {m.v : m \in {m \in ToSet(history) : FixedPart[m.u] = b /\ ~ H!IsFixed(m.v)}}
<1>3. ToSet(history) \subseteq Memento
  <2>1. \A i \in 1 .. Len(history) : history[i] \in Memento
    BY <1>2, ElementOfSeq
  <2>2. DOMAIN history = 1 .. Len(history)
    BY <1>2
  <2> QED BY <2>1, <2>2 DEF ToSet
<1>4. nodes \subseteq Hypernode /\ \A b : freed(b) \in SUBSET Hypernode
  BY <1>3 DEF Memento
<1>5. /\ hg' = [hg EXCEPT !.nodes = @ \cup nodes]
      /\ block' = [b \in Block |->
                    [block[b] EXCEPT
                       !.size = @ + Cardinality({v \in nodes : part'[v] = b}),
                       !.fixedWeight = @ - H!WeightOf(hg, freed(b))]]
      /\ fixedVertices' = fixedVertices \cup {v \in nodes : H!IsFixed(v)}
      /\ history' = << >> /\ log' = << >> /\ timeUp' = TRUE /\ pc' = "idle"
      /\ UNCHANGED <<phase, vcycle, netPart, cutNets, edgeWeight, hash, removedSingle, removedParallel, maxWeights, cursor>>
  BY DEF SoftTimeLimit, pruner
<1> HIDE DEF nodes, freed
<1>6. hg' \in H!I!Structure
  BY <1>2, <1>4, <1>5 DEF H!I!Structure
<1>7. block' \in [Block -> H!PartInfo]
  <2> SUFFICES ASSUME NEW b \in Block
               PROVE  [block[b] EXCEPT !.size = @ + Cardinality({v \in nodes : part'[v] = b}),
                                       !.fixedWeight = @ - H!WeightOf(hg, freed(b))] \in H!PartInfo
    BY <1>5
  <2>1. Cardinality({v \in nodes : part'[v] = b}) \in Int
    <3>1. {v \in nodes : part'[v] = b} \in SUBSET Hypernode
      BY <1>4
    <3>2. IsFiniteSet({v \in nodes : part'[v] = b})
      BY <3>1, HypergraphAssumption, FS_Subset
    <3> QED BY <3>2, FS_CardinalityType
  <2>2. H!WeightOf(hg, freed(b)) \in Int
    <3>1. P!Sound(hg)
      BY LogTyped DEF Inv, HypergraphKept
    <3>2. P!WeightOf(hg, freed(b)) \in Int
      BY <1>4, <3>1, HypergraphConstants, P!WeightType
    <3> QED BY <3>2, SameDefinitions
  <2>3. \A r \in H!PartInfo, x, y \in Int : [r EXCEPT !.size = @ + x, !.fixedWeight = @ - y] \in H!PartInfo
    <3> SUFFICES ASSUME NEW r \in H!PartInfo, NEW x \in Int, NEW y \in Int
                 PROVE  [r EXCEPT !.size = @ + x, !.fixedWeight = @ - y] \in H!PartInfo
      OBVIOUS
    <3>1. r.weight \in Int /\ r.size + x \in Int /\ r.fixedWeight - y \in Int
      BY DEF H!PartInfo
    <3>2. \A n, w \in Int : [r EXCEPT !.size = n, !.fixedWeight = w] \in H!PartInfo
      BY DEF H!PartInfo
    <3>3. [r EXCEPT !.size = @ + x, !.fixedWeight = @ - y]
            = [r EXCEPT !.size = r.size + x, !.fixedWeight = r.fixedWeight - y]
      BY DEF H!PartInfo
    <3> QED BY <3>1, <3>2, <3>3
  <2>4. block[b] \in H!PartInfo
    BY <1>2
  <2> QED BY <2>1, <2>2, <2>3, <2>4, Zenon
<1>8. fixedVertices' \subseteq Hypernode
  BY <1>2, <1>4, <1>5
<1>9. part' \in [Hypernode -> Block \cup {NoBlock}]
  BY LimitProjects DEF Partitions
<1>10. log' \in Seq(H!I!LogEntry) /\ history' \in Seq(Memento)
  <2>1. \A S : << >> \in Seq(S)
    OBVIOUS
  <2>2. log' = << >> /\ history' = << >>
    BY <1>5
  <2> QED BY <2>1, <2>2, Zenon
<1>11. H!TypeOK'
  BY <1>1, <1>5, <1>6, <1>7, <1>8, <1>9, <1>10 DEF H!TypeOK, H!I!TypeOK
<1> QED BY <1>1, <1>5, <1>10, <1>11 DEF TypeOK

\* The metric stays that of the input: the nets keep their contracted pins, but the
\* projected partition is the partition of the input now.
LEMMA LimitMetric ==
  ASSUME Inv, SoftTimeLimit
  PROVE  MetricOfInput'
<1>1. /\ phase = "refining" /\ log' = << >>
      /\ hg' = [hg EXCEPT !.nodes = @ \cup {m.v : m \in ToSet(history)}]
      /\ edgeWeight' = edgeWeight /\ netPart' = netPart
  BY DEF SoftTimeLimit
<1>2. Km1 = ProjectedKm1
  BY <1>1, InvMetric DEF MetricOfInput
<1>3. hg'.edges = hg.edges
  <2>1. hg \in H!I!Structure
    BY InvRecords DEF RecordsExact, TypeOK, H!TypeOK, H!I!TypeOK
  <2> QED BY <1>1, <2>1 DEF H!I!Structure
<1>4. Km1' = Km1
  BY <1>1, <1>3 DEF Km1
<1>5. ASSUME NEW x \in Hypernode PROVE H!Projected(x)' = H!Projected(x)
  <2> DEFINE g == P!Represented(<< >>, x)
  <2>1. P!Follows(g, << >>, x)
    <3>1. << >> \in Seq(P!P!LogEntry)
      OBVIOUS
    <3> QED BY <3>1, HypergraphConstants, P!RepresentedFollows
  <2>2. g[0] = x
    BY <2>1 DEF P!Follows
  <2>3. H!Projected(x)' = part'[H!Represented(log', x)[Len(log')]]
    BY DEF H!Projected, H!Representative
  <2>4. Len(log') = 0 /\ H!Represented(log', x) = g
    BY <1>1, SameProjection
  <2> HIDE DEF g
  <2>5. H!Projected(x)' = part'[x]
    BY <2>2, <2>3, <2>4
  <2> QED BY <2>5, LimitProjects
<1>6. \A e \in Hyperedge : Connected(e)' = Connected(e)
  BY <1>5, HypergraphAssumption DEF Connected
<1>7. ProjectedKm1' = ProjectedKm1
  BY <1>6 DEF ProjectedKm1
<1> QED BY <1>2, <1>4, <1>7 DEF MetricOfInput

\* The time limit in the last V-cycle leaves nothing to do.
Stopped == /\ timeUp
           /\ phase = "refining" /\ vcycle = MaxVCycles
           /\ history = << >> /\ pc = "idle"
           /\ TypeOK /\ MetricOfInput

\* No step leaves this state.
LEMMA StoppedStays ==
  ASSUME Stopped, [Next]_vars
  PROVE  UNCHANGED vars
<1>1. /\ phase = "refining" /\ vcycle = MaxVCycles /\ history = << >> /\ pc = "idle"
      /\ ~ (vcycle < MaxVCycles)
  BY HypergraphAssumption DEF Stopped
<1>2. ASSUME NEW u \in Hypernode, NEW v \in Hypernode, PerformContraction(u, v) PROVE FALSE
  BY <1>1, <1>2 DEF PerformContraction, H!Contract
<1>3. ASSUME NEW e \in Hyperedge, RemoveSingle(e) PROVE FALSE
  BY <1>1, <1>3 DEF RemoveSingle
<1>4. ASSUME NEW rep \in Hyperedge, NEW e \in Hyperedge, RemoveParallel(rep, e) PROVE FALSE
  BY <1>1, <1>4 DEF RemoveParallel
<1>5. ASSUME NEW v \in Hypernode, NEW b \in Block, SetNodePart(v, b) PROVE FALSE
  BY <1>1, <1>5 DEF SetNodePart, H!SetNodePart
<1>6. ASSUME ResetPartitioning \/ InitializeNumCutHyperedges \/ StartVCycle PROVE FALSE
  BY <1>1, <1>6 DEF ResetPartitioning, InitializeNumCutHyperedges, H!InitializeNumCutHyperedges,
                    StartVCycle, H!StartVCycle
<1>7. ASSUME Uncoarsening PROVE FALSE
  BY <1>1, <1>7 DEF Uncoarsening, BeginLevel, RestoreParallel, ParallelRestored, RestoreSingle, Uncontract
<1>8. ASSUME NEW v \in Hypernode, NEW b \in Block, ChangeNodePart(v, b) PROVE FALSE
  BY <1>1, <1>8 DEF ChangeNodePart
<1>9. ASSUME SoftTimeLimit PROVE FALSE
  BY <1>1, <1>9 DEF SoftTimeLimit
<1> QED BY <1>2, <1>3, <1>4, <1>5, <1>6, <1>7, <1>8, <1>9 DEF Next

\* When the soft time limit may only be exceeded in the last V-cycle, what is
\* recorded is exact, the metric is that of the input and no superfluous net is left
\* to the rater in every reachable state.
\* doUncoarsen makes no such restriction, and an earlier limit breaks what the next
\* V-cycle relies on.
THEOREM ExactWhenLastCycleLimited ==
  ASSUME TimeLimited \subseteq {MaxVCycles}
  PROVE  Spec => [](RecordsExact /\ MetricOfInput /\ NoSuperfluousNets /\ RatedIsContractible)
<1>1. Init => (~ timeUp => Inv) /\ (timeUp => Stopped)
  BY Initially DEF Init
<1>2. (~ timeUp => Inv) /\ (timeUp => Stopped) /\ [Next]_vars => (timeUp => Stopped)'
  <2> SUFFICES ASSUME ~ timeUp => Inv, timeUp => Stopped, [Next]_vars, timeUp'
               PROVE  Stopped'
    OBVIOUS
  <2>1. CASE timeUp
    <3>1. UNCHANGED vars
      BY <2>1, StoppedStays
    <3> QED BY <2>1, <3>1 DEF Stopped, vars, hypergraph, loop, pruner, TypeOK, MetricOfInput, H!TypeOK, H!I!TypeOK,
               Km1, ProjectedKm1, Connected, H!Projected, H!Representative
  <2>2. CASE ~ timeUp
    <3>1. Inv /\ SoftTimeLimit
      BY <2>2, LimitStep
    <3>2. TypeOK' /\ MetricOfInput'
      BY <3>1, LimitTypes, LimitMetric
    <3>3. /\ phase' = "refining" /\ vcycle' = MaxVCycles /\ history' = << >> /\ pc' = "idle"
      BY <3>1 DEF SoftTimeLimit
    <3> QED BY <3>2, <3>3 DEF Stopped
  <2> QED BY <2>1, <2>2
<1>3. /\ ~ timeUp => Inv /\ ProperKept
      /\ ~ timeUp => RatedIsContractible
      /\ timeUp => Stopped
      => RecordsExact /\ MetricOfInput /\ NoSuperfluousNets /\ RatedIsContractible
  <2>1. CASE timeUp
    BY <2>1 DEF Stopped, RecordsExact, RestoresInReverse, MaxWeightBounds, NetsHandedBack, NoSuperfluousNets,
                RatedIsContractible
  <2>2. CASE ~ timeUp
    BY <2>2, InvRecords, InvMetric, InvProper
  <2> QED BY <2>1, <2>2
<1> QED BY <1>1, <1>2, <1>3, ProperUntilTimeLimit, RatedContractibleUntilTimeLimit, PTL DEF Spec
-----------------------------------------------------------------------------
(* What the refiners are given at every level.                               *)

\* What is kept about the partition, in the terms of the partition alone.
PartitionGiven ==
  /\ part \in [Hypernode -> Block \cup {NoBlock}]
  /\ \A v \in hg.nodes : part[v] \in Block
  /\ \A e \in hg.edges :
       /\ \A b \in Block : netPart[e].count[b] = Cardinality({v \in hg.pins[e] : part[v] = b})
       /\ netPart[e].connectivity = Cardinality({part[v] : v \in hg.pins[e]})
  /\ \A v \in hg.nodes : cutNets[v] = Cardinality({e \in hg.nets[v] : netPart[e].connectivity > 1})
  /\ block \in [Block -> [weight : Int, size : Int, fixedWeight : Int]]
  /\ \A b \in Block : block[b].weight = Total(hg.weight, {v \in hg.nodes : part[v] = b})
  /\ hg.weight \in [Hypernode -> Nat]
  /\ Last(maxWeights).weight \in Nat

\* What is undone next is no part of the hypergraph: it can be given back.
LogGiven ==
  log # << >> =>
    /\ Last(log).op = "contract" => Last(log).u \in hg.nodes /\ Last(log).v \in Hypernode \ hg.nodes
    /\ Last(log).op = "remove" => Last(log).e \in Hyperedge \ hg.edges /\ hg.pins[Last(log).e] \subseteq hg.nodes

LevelGiven ==
  /\ P!Sound(hg)
  /\ edgeWeight \in [Hyperedge -> Nat]
  /\ phase = "refining" => PartitionGiven
  /\ LogGiven
  /\ RestoresInReverse

\* What a contraction or a removal has taken out is not there.
LEMMA InvLog == ASSUME Inv PROVE LogGiven
<1> SUFFICES ASSUME log # << >>
             PROVE  /\ Last(log).op = "contract" => Last(log).u \in hg.nodes /\ Last(log).v \in Hypernode \ hg.nodes
                    /\ Last(log).op = "remove" => /\ Last(log).e \in Hyperedge \ hg.edges
                                                  /\ hg.pins[Last(log).e] \subseteq hg.nodes
  BY DEF LogGiven
<1>1. P!P!UndoChain
  BY DEF Inv, HypergraphKept
<1>2. /\ P!Last(log).op = "contract" => P!Merges(P!Last(log).before, P!Last(log).u, P!Last(log).v, hg)
      /\ P!Last(log).op = "remove" => P!Drops(P!Last(log).before, P!Last(log).e, hg)
  BY <1>1, P!LastUndoes, HypergraphConstants
<1>3. P!Last(log) = Last(log)
  BY SameLibrary
<1> DEFINE l == Last(log)
<1>4. /\ l.op = "contract" => P!Merges(l.before, l.u, l.v, hg)
      /\ l.op = "remove" => P!Drops(l.before, l.e, hg)
  BY <1>2, <1>3
<1> HIDE DEF l
<1>5. ASSUME l.op = "contract" PROVE l.u \in hg.nodes /\ l.v \in Hypernode \ hg.nodes
  BY <1>4, <1>5 DEF P!Merges, P!Sound
<1>6. ASSUME l.op = "remove" PROVE l.e \in Hyperedge \ hg.edges /\ hg.pins[l.e] \subseteq hg.nodes
  BY <1>4, <1>6 DEF P!Drops, P!Sound
<1> QED BY <1>5, <1>6 DEF l

\* What the invariant says of the partition, for the refiners.
LEMMA InvPartition == ASSUME Inv, phase = "refining" PROVE PartitionGiven
<1>1. P!PartitionDataExact /\ P!Sound(hg) /\ P!AssignmentComplete
  BY HypergraphConstants, P!InvExact, LogTyped DEF Inv, HypergraphKept, P!Inv
<1>2. /\ part \in [Hypernode -> Block \cup {NoBlock}]
      /\ block \in [Block -> [weight : Int, size : Int, fixedWeight : Int]]
  BY <1>1 DEF P!PartitionDataExact, P!TypeOK, P!PartInfo
<1>3. hg.nodes \in SUBSET Hypernode /\ \A e \in hg.edges : hg.pins[e] \in SUBSET hg.nodes
  BY <1>1 DEF P!Sound
<1>4. \A v \in hg.nodes : part[v] \in Block
  BY <1>1, <1>2, <1>3 DEF P!AssignmentComplete, P!AllAssigned, P!Assigned
<1>5. ASSUME NEW e \in hg.edges
      PROVE  /\ \A b \in Block : netPart[e].count[b] = Cardinality({v \in hg.pins[e] : part[v] = b})
             /\ netPart[e].connectivity = Cardinality({part[v] : v \in hg.pins[e]})
  <2>1. {part[v] : v \in hg.pins[e]} \ {NoBlock} = {part[v] : v \in hg.pins[e]}
    BY <1>3, <1>4, HypergraphAssumption
  <2> QED BY <1>1, <2>1, SameLibrary DEF P!PartitionDataExact, P!PinCountsExact
<1>6. \A v \in hg.nodes : cutNets[v] = Cardinality({e \in hg.nets[v] : netPart[e].connectivity > 1})
  BY <1>1, SameLibrary DEF P!PartitionDataExact, P!CutNetsExact
<1>7. ASSUME NEW b \in Block
      PROVE  block[b].weight = Total(hg.weight, {v \in hg.nodes : part[v] = b})
  <2>1. block[b].weight = P!WeightOf(hg, {v \in hg.nodes : part[v] = b})
    BY <1>1 DEF P!PartitionDataExact, P!PartInfoExact
  <2>2. P!WeightOf(hg, {v \in hg.nodes : part[v] = b}) = P!Total(hg.weight, {v \in hg.nodes : part[v] = b})
    BY HypergraphConstants, P!WeightIsTotal
  <2>3. \A f, S : P!Total(f, S) = Total(f, S)
    BY Zenon DEF P!Total, Total, P!MapThenSumSet, MapThenSumSet, P!MapThenFoldSet, MapThenFoldSet
  <2> QED BY <2>1, <2>2, <2>3
<1>8. hg.weight \in [Hypernode -> Nat]
  BY DEF Inv, LevelsShrink, Shrinking
<1>9. Last(maxWeights).weight \in Nat
  <2>1. maxWeights \in Seq(MaxWeight) /\ maxWeights # << >>
    BY DEF Inv, ClientTyped, MaxWeightsKept
  <2> QED BY <2>1, BoundFields, EmptySeq DEF Last
<1> QED BY <1>2, <1>4, <1>5, <1>6, <1>7, <1>8, <1>9 DEF PartitionGiven

\* All of it.
LEMMA InvLevel == ASSUME Inv PROVE LevelGiven
<1>1. P!Sound(hg)
  BY LogTyped DEF Inv, HypergraphKept
<1>2. edgeWeight \in [Hyperedge -> Nat]
  BY DEF Inv, ClientTyped
<1> QED BY <1>1, <1>2, InvLog, InvPartition, InvReverse DEF LevelGiven

\* An uncontraction leads back to a structure that the pruner has left: without
\* nets of a single pin if the input has none.
LEMMA UncontractWithoutSingles ==
  ASSUME Inv, ProperKept, NoSingles(Hyperedge, InitPins), Uncontract
  PROVE  NoSingles(hg'.edges, hg'.pins)
<1>1. log # << >> /\ Last(log).op = "contract" /\ hg' = Last(log).before /\ log \in Seq(P!P!LogEntry)
  BY UncontractCall, LogTyped DEF Inv, HypergraphKept, Uncontract
<1>2. Len(log) \in 1 .. Len(log) /\ Last(log) = log[Len(log)]
  BY <1>1, EmptySeq, LenProperties DEF Last
<1>3. Proper(hg')
  BY <1>1, <1>2 DEF ProperKept, ContractedProper
<1> QED BY <1>3 DEF Proper
=============================================================================
