-------------------------- MODULE IncidenceProofs --------------------------
(***************************************************************************)
(* Proofs about module Incidence: for every hypergraph, undoing the        *)
(* contractions and removals in reverse order restores what they changed.  *)
(***************************************************************************)
EXTENDS Incidence, FiniteSetTheorems, SequenceTheorems, TLAPS

\* Two functions with the same domain and the same values are equal.
LEMMA SameFunction ==
  ASSUME NEW S, NEW T, NEW f, NEW g \in [S -> T],
         f = [x \in S |-> f[x]], \A x \in S : f[x] = g[x]
  PROVE  f = g
OBVIOUS

\* The first n entries of a sequence.
LEMMA Prefix ==
  ASSUME NEW S, NEW q \in Seq(S), NEW n \in 0 .. Len(q)
  PROVE  /\ SubSeq(q, 1, n) \in Seq(S)
         /\ Len(SubSeq(q, 1, n)) = n
         /\ \A i \in 1 .. n : SubSeq(q, 1, n)[i] = q[i]
<1>1. n \in Int /\ Len(q) \in Nat /\ \A i \in 1 .. n : q[i] \in S
  OBVIOUS
<1>2. /\ SubSeq(q, 1, n) \in Seq(S)
      /\ Len(SubSeq(q, 1, n)) = IF 1 <= n THEN n - 1 + 1 ELSE 0
      /\ \A i \in 1 .. n - 1 + 1 : SubSeq(q, 1, n)[i] = q[1 + i - 1]
  BY <1>1, SubSeqProperties
<1> QED BY <1>1, <1>2

\* Pushing on a stack and popping it again.
LEMMA PushPop ==
  ASSUME NEW S, NEW q \in Seq(S), NEW x \in S
  PROVE  /\ Append(q, x) \in Seq(S)
         /\ Len(Append(q, x)) = Len(q) + 1
         /\ Append(q, x) # << >>
         /\ Last(Append(q, x)) = x
         /\ Front(Append(q, x)) = q
         /\ \A i \in 1 .. Len(q) : Append(q, x)[i] = q[i]
<1>1. /\ Append(q, x) \in Seq(S)
      /\ Len(Append(q, x)) = Len(q) + 1
      /\ Len(q) \in Nat
      /\ \A i \in 1 .. Len(q) : Append(q, x)[i] = q[i]
      /\ Append(q, x)[Len(q) + 1] = x
  OBVIOUS
<1>2. Append(q, x) # << >> /\ Last(Append(q, x)) = x
  BY <1>1 DEF Last
<1>3. Front(Append(q, x)) = q
  <2>1. Front(Append(q, x)) = SubSeq(Append(q, x), 1, Len(q))
    BY <1>1 DEF Front
  <2>2. /\ SubSeq(Append(q, x), 1, Len(q)) \in Seq(S)
        /\ Len(SubSeq(Append(q, x), 1, Len(q))) = Len(q)
        /\ \A i \in 1 .. Len(q) : SubSeq(Append(q, x), 1, Len(q))[i] = Append(q, x)[i]
    <3>1. Len(q) \in 0 .. Len(Append(q, x))
      BY <1>1
    <3> QED BY <1>1, <3>1, Prefix
  <2> QED BY <1>1, <2>1, <2>2, SeqEqual
<1> QED BY <1>1, <1>2, <1>3

\* The part of a stack below its last entry.
LEMMA PopBelow ==
  ASSUME NEW S, NEW q \in Seq(S), q # << >>
  PROVE  /\ Front(q) \in Seq(S)
         /\ Len(Front(q)) = Len(q) - 1
         /\ \A i \in 1 .. Len(q) - 1 : Front(q)[i] = q[i]
         /\ Last(q) = q[Len(q)]
         /\ Len(q) \in Nat \ {0}
<1>1. Len(q) \in Nat \ {0}
  BY EmptySeq
<1>2. Len(q) - 1 \in 0 .. Len(q)
  BY <1>1
<1>3. Front(q) = SubSeq(q, 1, Len(q) - 1) /\ Last(q) = q[Len(q)]
  BY DEF Front, Last
<1>4. /\ SubSeq(q, 1, Len(q) - 1) \in Seq(S)
      /\ Len(SubSeq(q, 1, Len(q) - 1)) = Len(q) - 1
      /\ \A i \in 1 .. Len(q) - 1 : SubSeq(q, 1, Len(q) - 1)[i] = q[i]
  BY <1>2, Prefix
<1> QED BY <1>1, <1>3, <1>4
-----------------------------------------------------------------------------
\* What the lemmas on an operation and its inverse need of a structure.
WellFormed(s) == s \in Structure /\ Dual(s) /\ OnlyContracted(s)

\* A structure is determined by its components.
LEMMA StructureEqual ==
  ASSUME NEW s \in Structure, NEW t \in Structure,
         s.nodes = t.nodes, s.edges = t.edges, s.pins = t.pins, s.cutOff = t.cutOff,
         s.nets = t.nets, s.weight = t.weight, s.numPins = t.numPins
  PROVE  s = t
<1>1. s = [nodes |-> s.nodes, edges |-> s.edges, pins |-> s.pins, cutOff |-> s.cutOff,
            nets |-> s.nets, weight |-> s.weight, numPins |-> s.numPins]
  BY DEF Structure
<1>2. t = [nodes |-> t.nodes, edges |-> t.edges, pins |-> t.pins, cutOff |-> t.cutOff,
            nets |-> t.nets, weight |-> t.weight, numPins |-> t.numPins]
  BY DEF Structure
<1> QED BY <1>1, <1>2

\* The nets shared by two hypernodes are finitely many.
LEMMA SharedNetsFinite ==
  ASSUME NEW s \in Structure, NEW u \in Hypernode, NEW v \in Hypernode
  PROVE  SharedNets(s, u, v) \in SUBSET Hyperedge /\ Cardinality(SharedNets(s, u, v)) \in Nat
<1>1. SharedNets(s, u, v) \in SUBSET Hyperedge
  BY DEF SharedNets, Structure
<1> QED BY <1>1, HyperedgeAssumption, FS_Subset, FS_CardinalityType

\* Contraction preserves well-formedness: it keeps the two directions of the
\* incidence equal and cuts off only the hypernode it disables.
LEMMA ContractedWellFormed ==
  ASSUME NEW s, WellFormed(s), NEW u \in s.nodes, NEW v \in s.nodes, u # v
  PROVE  WellFormed(Contracted(s, u, v))
<1> DEFINE t == Contracted(s, u, v)
<1>1. s \in Structure /\ u \in Hypernode /\ v \in Hypernode
  BY DEF WellFormed, Structure
<1>2. /\ t.nodes = s.nodes \ {v}
      /\ t.edges = s.edges
      /\ t.pins = [e \in Hyperedge |-> IF e \in s.nets[v] THEN (s.pins[e] \ {v}) \cup {u} ELSE s.pins[e]]
      /\ t.cutOff = [e \in Hyperedge |-> IF e \in SharedNets(s, u, v) THEN Append(s.cutOff[e], v) ELSE s.cutOff[e]]
      /\ t.nets = [s.nets EXCEPT ![u] = @ \cup s.nets[v]]
      /\ t.weight = [s.weight EXCEPT ![u] = @ + s.weight[v]]
      /\ t.numPins = s.numPins - Cardinality(SharedNets(s, u, v))
  BY <1>1 DEF Contracted, Structure
<1>3. t \in Structure
  <2>1. t.cutOff \in [Hyperedge -> Seq(Hypernode)]
    BY <1>1, <1>2, PushPop DEF Structure
  <2>2. t.pins \in [Hyperedge -> SUBSET Hypernode]
    BY <1>1, <1>2 DEF Structure
  <2>3. t.nets \in [Hypernode -> SUBSET Hyperedge] /\ t.weight \in [Hypernode -> Int]
    BY <1>1, <1>2 DEF Structure
  <2>4. t.numPins \in Int
    <3>1. s.numPins \in Int
      BY <1>1 DEF Structure
    <3>2. Cardinality(SharedNets(s, u, v)) \in Nat
      BY <1>1, SharedNetsFinite
    <3> QED BY <1>2, <3>1, <3>2
  <2> QED BY <1>1, <2>1, <2>2, <2>3, <2>4 DEF Contracted, Structure
<1>4. Dual(t)
  <2>1. ASSUME NEW x \in t.nodes, NEW e \in Hyperedge
        PROVE  e \in t.nets[x] <=> e \in t.edges /\ x \in t.pins[e]
    BY <1>1, <1>2 DEF WellFormed, Dual, Structure
  <2>2. ASSUME NEW e \in t.edges PROVE t.pins[e] \subseteq t.nodes
    BY <1>1, <1>2 DEF WellFormed, Dual, Structure
  <2> QED BY <2>1, <2>2 DEF Dual
<1>5. OnlyContracted(t)
  <2> SUFFICES ASSUME NEW e \in t.edges, NEW i \in DOMAIN t.cutOff[e]
               PROVE  t.cutOff[e][i] \notin t.nodes
    BY DEF OnlyContracted
  <2>1. e \in Hyperedge /\ e \in s.edges /\ s.cutOff[e] \in Seq(Hypernode)
    BY <1>1, <1>2 DEF Structure
  <2>2. \A j \in 1 .. Len(s.cutOff[e]) : s.cutOff[e][j] \notin s.nodes
    BY <2>1 DEF WellFormed, OnlyContracted
  <2>3. CASE e \in SharedNets(s, u, v)
    <3>1. t.cutOff[e] = Append(s.cutOff[e], v)
      BY <1>2, <2>1, <2>3
    <3> QED BY <1>1, <1>2, <2>1, <2>2, <3>1
  <2>4. CASE e \notin SharedNets(s, u, v)
    BY <1>2, <2>1, <2>2, <2>4
  <2> QED BY <2>3, <2>4
<1> QED BY <1>3, <1>4, <1>5 DEF WellFormed

\* What uncontraction finds behind the pins and in the lists of nets is what
\* the contraction did: v was cut off from exactly the shared nets, and its
\* slot is reused in exactly its other nets.
LEMMA InferredNets ==
  ASSUME NEW s, WellFormed(s), NEW u \in s.nodes, NEW v \in s.nodes, u # v
  PROVE  /\ SharedNets(s, u, v) = s.nets[u] \cap s.nets[v]
         /\ CutOffNets(Contracted(s, u, v), u, v) = SharedNets(s, u, v)
         /\ ReusedNets(Contracted(s, u, v), u, v) = s.nets[v] \ s.nets[u]
<1> DEFINE t == Contracted(s, u, v)
<1>1. s \in Structure /\ u \in Hypernode /\ v \in Hypernode
  BY DEF WellFormed, Structure
<1>2. /\ t.nodes = s.nodes \ {v}
      /\ t.edges = s.edges
      /\ t.pins = [e \in Hyperedge |-> IF e \in s.nets[v] THEN (s.pins[e] \ {v}) \cup {u} ELSE s.pins[e]]
      /\ t.cutOff = [e \in Hyperedge |-> IF e \in SharedNets(s, u, v) THEN Append(s.cutOff[e], v) ELSE s.cutOff[e]]
      /\ t.nets = [s.nets EXCEPT ![u] = @ \cup s.nets[v]]
      /\ t.weight = [s.weight EXCEPT ![u] = @ + s.weight[v]]
      /\ t.numPins = s.numPins - Cardinality(SharedNets(s, u, v))
  BY <1>1 DEF Contracted, Structure
<1>3. \A e \in Hyperedge : e \in s.nets[v] <=> e \in s.edges /\ v \in s.pins[e]
  BY DEF WellFormed, Dual
<1>4. \A e \in Hyperedge : e \in s.nets[u] <=> e \in s.edges /\ u \in s.pins[e]
  BY DEF WellFormed, Dual
<1>5. t.nets[v] = s.nets[v] /\ t.nets[u] = s.nets[u] \cup s.nets[v]
  BY <1>1, <1>2 DEF Structure
<1>6. SharedNets(s, u, v) = s.nets[u] \cap s.nets[v]
  BY <1>1, <1>3, <1>4 DEF SharedNets, Structure
<1>7. CutOffNets(t, u, v) = SharedNets(s, u, v)
  <2>1. ASSUME NEW e \in SharedNets(s, u, v) PROVE e \in CutOffNets(t, u, v)
    <3>1. e \in Hyperedge /\ t.cutOff[e] = Append(s.cutOff[e], v) /\ s.cutOff[e] \in Seq(Hypernode)
      BY <1>1, <1>2, SharedNetsFinite DEF Structure
    <3>2. t.cutOff[e] # << >> /\ Last(t.cutOff[e]) = v
      BY <1>1, <3>1, PushPop
    <3> QED BY <1>5, <1>6, <3>2 DEF CutOffNets
  <2>2. ASSUME NEW e \in CutOffNets(t, u, v), e \notin SharedNets(s, u, v) PROVE FALSE
    <3>1. e \in s.nets[v] /\ e \in Hyperedge /\ e \in s.edges
      BY <1>1, <1>3, <1>5, <2>2 DEF CutOffNets, Structure
    <3>2. t.cutOff[e] = s.cutOff[e] /\ s.cutOff[e] \in Seq(Hypernode)
      BY <1>1, <1>2, <2>2, <3>1 DEF Structure
    <3>3. s.cutOff[e] # << >> /\ s.cutOff[e][Len(s.cutOff[e])] = v
      BY <2>2, <3>2 DEF CutOffNets, Last
    <3>4. Len(s.cutOff[e]) \in DOMAIN s.cutOff[e]
      BY <3>2, <3>3, EmptySeq
    <3>5. v \notin s.nodes
      BY <3>1, <3>3, <3>4 DEF WellFormed, OnlyContracted
    <3> QED BY <3>5
  <2> QED BY <2>1, <2>2
<1>8. ReusedNets(t, u, v) = s.nets[v] \ s.nets[u]
  BY <1>5, <1>6, <1>7 DEF ReusedNets
<1> QED BY <1>6, <1>7, <1>8

\* Uncontraction infers correctly what the contraction did: in every net it
\* takes the branch that undoes it, and restores all components.
LEMMA UncontractUndoesContract ==
  ASSUME NEW s, WellFormed(s), NEW u \in s.nodes, NEW v \in s.nodes, u # v
  PROVE  Uncontracted(Contracted(s, u, v), u, v) = s
<1> DEFINE t == Contracted(s, u, v)
           r == Uncontracted(t, u, v)
<1>1. s \in Structure /\ u \in Hypernode /\ v \in Hypernode
  BY DEF WellFormed, Structure
<1>2. /\ t.nodes = s.nodes \ {v}
      /\ t.edges = s.edges
      /\ t.pins = [e \in Hyperedge |-> IF e \in s.nets[v] THEN (s.pins[e] \ {v}) \cup {u} ELSE s.pins[e]]
      /\ t.cutOff = [e \in Hyperedge |-> IF e \in SharedNets(s, u, v) THEN Append(s.cutOff[e], v) ELSE s.cutOff[e]]
      /\ t.nets = [s.nets EXCEPT ![u] = @ \cup s.nets[v]]
      /\ t.weight = [s.weight EXCEPT ![u] = @ + s.weight[v]]
      /\ t.numPins = s.numPins - Cardinality(SharedNets(s, u, v))
  BY <1>1 DEF Contracted, Structure
<1>3. \A e \in Hyperedge : e \in s.nets[v] <=> e \in s.edges /\ v \in s.pins[e]
  BY DEF WellFormed, Dual
<1>4. \A e \in Hyperedge : e \in s.nets[u] <=> e \in s.edges /\ u \in s.pins[e]
  BY DEF WellFormed, Dual
<1>5. t.nets[v] = s.nets[v] /\ t.nets[u] = s.nets[u] \cup s.nets[v]
  BY <1>1, <1>2 DEF Structure
<1>6. SharedNets(s, u, v) = s.nets[u] \cap s.nets[v]
  BY InferredNets
<1>7. CutOffNets(t, u, v) = SharedNets(s, u, v)
  BY InferredNets
<1>8. ReusedNets(t, u, v) = s.nets[v] \ s.nets[u]
  BY InferredNets
<1>9. /\ r.nodes = t.nodes \cup {v}
      /\ r.edges = t.edges
      /\ r.pins = [e \in Hyperedge |-> IF e \in CutOffNets(t, u, v) THEN t.pins[e] \cup {v}
                                ELSE IF e \in ReusedNets(t, u, v) THEN (t.pins[e] \ {u}) \cup {v}
                                ELSE t.pins[e]]
      /\ r.cutOff = [e \in Hyperedge |-> IF e \in CutOffNets(t, u, v) THEN Front(t.cutOff[e]) ELSE t.cutOff[e]]
      /\ r.nets = [t.nets EXCEPT ![u] = @ \ ReusedNets(t, u, v)]
      /\ r.weight = [t.weight EXCEPT ![u] = @ - t.weight[v]]
      /\ r.numPins = t.numPins + Cardinality(CutOffNets(t, u, v))
  BY DEF Uncontracted
<1> HIDE DEF t, r
<1>10. r.nodes = s.nodes /\ r.edges = s.edges
  BY <1>2, <1>9
<1>11. r.pins = s.pins
  <2>1. ASSUME NEW e \in Hyperedge PROVE r.pins[e] = s.pins[e]
    <3>1. CASE e \in SharedNets(s, u, v)
      <4>1. r.pins[e] = ((s.pins[e] \ {v}) \cup {u}) \cup {v}
        BY <1>2, <1>6, <1>7, <1>9, <3>1
      <4>2. u \in s.pins[e] /\ v \in s.pins[e]
        BY <1>3, <1>4, <1>6, <3>1
      <4> QED BY <4>1, <4>2
    <3>2. CASE e \in s.nets[v] \ s.nets[u]
      <4>1. r.pins[e] = (((s.pins[e] \ {v}) \cup {u}) \ {u}) \cup {v}
        BY <1>2, <1>6, <1>7, <1>8, <1>9, <3>2
      <4>2. u \notin s.pins[e] /\ v \in s.pins[e]
        BY <1>3, <1>4, <3>2
      <4> QED BY <4>1, <4>2
    <3>3. CASE e \notin s.nets[v]
      BY <1>2, <1>6, <1>7, <1>8, <1>9, <3>3
    <3> QED BY <1>6, <3>1, <3>2, <3>3
  <2>2. s.pins \in [Hyperedge -> SUBSET Hypernode]
    BY <1>1 DEF Structure
  <2>3. r.pins = [e \in Hyperedge |-> r.pins[e]]
    BY <1>9
  <2> QED BY <2>1, <2>2, <2>3, SameFunction
<1>12. r.cutOff = s.cutOff
  <2>1. s.cutOff \in [Hyperedge -> Seq(Hypernode)]
    BY <1>1 DEF Structure
  <2>2. ASSUME NEW e \in Hyperedge PROVE r.cutOff[e] = s.cutOff[e]
    <3>1. s.cutOff[e] \in Seq(Hypernode)
      BY <2>1
    <3>2. Front(Append(s.cutOff[e], v)) = s.cutOff[e]
      BY <1>1, <3>1, PushPop
    <3> QED BY <1>2, <1>7, <1>9, <3>2
  <2>3. r.cutOff = [e \in Hyperedge |-> r.cutOff[e]]
    BY <1>9
  <2> QED BY <2>1, <2>2, <2>3, SameFunction
<1>13. r.nets = s.nets
  <2>1. s.nets \in [Hypernode -> SUBSET Hyperedge]
    BY <1>1 DEF Structure
  <2>2. t.nets \in [Hypernode -> SUBSET Hyperedge]
    BY <1>1, <1>2, <2>1
  <2>3. r.nets[u] = s.nets[u]
    <3>1. r.nets[u] = t.nets[u] \ ReusedNets(t, u, v)
      BY <1>1, <1>9, <2>2
    <3> QED BY <1>5, <1>8, <3>1
  <2>4. ASSUME NEW x \in Hypernode PROVE r.nets[x] = s.nets[x]
    BY <1>1, <1>2, <1>9, <2>1, <2>2, <2>3
  <2>5. r.nets = [x \in Hypernode |-> r.nets[x]]
    BY <1>9, <2>2
  <2> QED BY <2>1, <2>4, <2>5, SameFunction
<1>14. r.weight = s.weight
  <2>1. s.weight \in [Hypernode -> Int] /\ s.weight[u] \in Int /\ s.weight[v] \in Int
    BY <1>1 DEF Structure
  <2>2. (s.weight[u] + s.weight[v]) - s.weight[v] = s.weight[u]
    BY <2>1
  <2>3. t.weight[u] = s.weight[u] + s.weight[v] /\ t.weight[v] = s.weight[v]
    BY <1>1, <1>2, <2>1
  <2>4. r.weight[u] = s.weight[u]
    BY <1>1, <1>2, <1>9, <2>1, <2>2, <2>3
  <2> QED BY <1>1, <1>2, <1>9, <2>1, <2>4
<1>15. r.numPins = s.numPins
  <2>1. s.numPins \in Int /\ Cardinality(SharedNets(s, u, v)) \in Nat
    BY <1>1, SharedNetsFinite DEF Structure
  <2> QED BY <1>2, <1>7, <1>9, <2>1
<1>16. r = s
  <2>1. r \in Structure
    <3>1. /\ r.nodes \in SUBSET Hypernode /\ r.edges \in SUBSET Hyperedge
          /\ r.pins \in [Hyperedge -> SUBSET Hypernode] /\ r.cutOff \in [Hyperedge -> Seq(Hypernode)]
          /\ r.nets \in [Hypernode -> SUBSET Hyperedge] /\ r.weight \in [Hypernode -> Int]
          /\ r.numPins \in Int
      BY <1>1, <1>10, <1>11, <1>12, <1>13, <1>14, <1>15 DEF Structure
    <3> QED BY <3>1 DEF r, Uncontracted, Structure
  <2> QED BY <1>1, <1>10, <1>11, <1>12, <1>13, <1>14, <1>15, <2>1, StructureEqual
<1> QED BY <1>16 DEF r, t

\* Removing an enabled net keeps the structure well-formed.
LEMMA RemovedWellFormed ==
  ASSUME NEW s, WellFormed(s), NEW e \in s.edges
  PROVE  WellFormed(Removed(s, e))
<1> DEFINE t == Removed(s, e)
<1>1. s \in Structure /\ e \in Hyperedge
  BY DEF WellFormed, Structure
<1>2. /\ t.nodes = s.nodes
      /\ t.edges = s.edges \ {e}
      /\ t.pins = s.pins
      /\ t.cutOff = s.cutOff
      /\ t.nets = [v \in Hypernode |-> IF v \in s.pins[e] THEN s.nets[v] \ {e} ELSE s.nets[v]]
      /\ t.weight = s.weight
      /\ t.numPins = s.numPins - Cardinality(s.pins[e])
  BY DEF Removed
<1>3. t \in Structure
  <2>1. s.pins[e] \in SUBSET Hypernode /\ s.numPins \in Int
    BY <1>1 DEF Structure
  <2>2. Cardinality(s.pins[e]) \in Nat
    BY <2>1, HypernodeAssumption, FS_Subset, FS_CardinalityType
  <2>3. t.numPins \in Int
    BY <1>2, <2>1, <2>2
  <2> QED BY <1>1, <1>2, <2>3 DEF Removed, Structure
<1>4. Dual(t)
  BY <1>1, <1>2 DEF WellFormed, Dual, Structure
<1>5. OnlyContracted(t)
  BY <1>1, <1>2 DEF WellFormed, OnlyContracted
<1> QED BY <1>3, <1>4, <1>5 DEF WellFormed

\* Restoring a net gives it back to exactly the hypernodes that forgot it.
LEMMA RestoreUndoesRemove ==
  ASSUME NEW s, WellFormed(s), NEW e \in s.edges
  PROVE  Restored(Removed(s, e), e) = s
<1> DEFINE t == Removed(s, e)
           r == Restored(t, e)
<1>1. s \in Structure /\ e \in Hyperedge
  BY DEF WellFormed, Structure
<1>2. /\ t.nodes = s.nodes
      /\ t.edges = s.edges \ {e}
      /\ t.pins = s.pins
      /\ t.cutOff = s.cutOff
      /\ t.nets = [v \in Hypernode |-> IF v \in s.pins[e] THEN s.nets[v] \ {e} ELSE s.nets[v]]
      /\ t.weight = s.weight
      /\ t.numPins = s.numPins - Cardinality(s.pins[e])
  BY DEF Removed
<1>3. /\ r.nodes = t.nodes
      /\ r.edges = t.edges \cup {e}
      /\ r.pins = t.pins
      /\ r.cutOff = t.cutOff
      /\ r.nets = [v \in Hypernode |-> IF v \in t.pins[e] THEN t.nets[v] \cup {e} ELSE t.nets[v]]
      /\ r.weight = t.weight
      /\ r.numPins = t.numPins + Cardinality(t.pins[e])
  BY DEF Restored
<1> HIDE DEF t, r
<1>4. r.nets = s.nets
  <2>1. s.nets \in [Hypernode -> SUBSET Hyperedge] /\ s.pins[e] \in SUBSET Hypernode
    BY <1>1 DEF Structure
  <2>2. \A x \in s.pins[e] : e \in s.nets[x]
    BY <1>1 DEF WellFormed, Dual
  <2>3. ASSUME NEW x \in Hypernode PROVE r.nets[x] = s.nets[x]
    <3>1. CASE x \in s.pins[e]
      <4>1. r.nets[x] = (s.nets[x] \ {e}) \cup {e}
        BY <1>2, <1>3, <3>1
      <4> QED BY <2>2, <3>1, <4>1
    <3>2. CASE x \notin s.pins[e]
      BY <1>2, <1>3, <3>2
    <3> QED BY <3>1, <3>2
  <2>4. r.nets = [x \in Hypernode |-> r.nets[x]]
    BY <1>3
  <2> QED BY <2>1, <2>3, <2>4, SameFunction
<1>5. r.numPins = s.numPins
  <2>1. s.pins[e] \in SUBSET Hypernode /\ s.numPins \in Int
    BY <1>1 DEF Structure
  <2>2. Cardinality(s.pins[e]) \in Nat
    BY <2>1, HypernodeAssumption, FS_Subset, FS_CardinalityType
  <2> QED BY <1>2, <1>3, <2>1, <2>2
<1>6. r.nodes = s.nodes /\ r.edges = s.edges /\ r.pins = s.pins /\ r.cutOff = s.cutOff /\ r.weight = s.weight
  BY <1>2, <1>3
<1>7. r \in Structure
  BY <1>1, <1>4, <1>5, <1>6 DEF r, Restored, Structure
<1>8. r = s
  BY <1>1, <1>4, <1>5, <1>6, <1>7, StructureEqual
<1> QED BY <1>8 DEF t, r
-----------------------------------------------------------------------------
\* Entry l of the log leads to structure t: t is what its operation made of
\* the well-formed structure it was applied to.
LeadsTo(l, t) ==
  /\ WellFormed(l.before)
  /\ \/ /\ l.op = "contract"
        /\ l.u \in l.before.nodes /\ l.v \in l.before.nodes /\ l.u # l.v
        /\ t = Contracted(l.before, l.u, l.v)
     \/ /\ l.op = "remove"
        /\ l.e \in l.before.edges
        /\ t = Removed(l.before, l.e)

\* The structure after the first i operations of the log.
After(i) == IF i = Len(log) THEN hg ELSE log[i + 1].before

\* The inductive invariant: the log leads from the original hypergraph, one
\* operation at a time, to the current one.
UndoChain ==
  /\ TypeOK
  /\ WellFormed(hg)
  /\ After(0) = Original
  /\ \A i \in 1 .. Len(log) : LeadsTo(log[i], After(i))

\* An entry of the log has the arguments of its operation.
LEMMA LogEntryFields ==
  ASSUME NEW l \in LogEntry
  PROVE  /\ l.before \in Structure
         /\ l.op = "contract" \/ l.op = "remove"
         /\ l.op = "contract" => l.u \in Hypernode /\ l.v \in Hypernode
         /\ l.op = "remove" => l.e \in Hyperedge
<1>1. CASE l \in [op : {"contract"}, u : Hypernode, v : Hypernode, before : Structure]
  BY <1>1
<1>2. CASE l \in [op : {"remove"}, e : Hyperedge, before : Structure]
  BY <1>2
<1> QED BY <1>1, <1>2 DEF LogEntry

\* Appending an operation applied to the current structure extends the chain.
LEMMA ExtendChain ==
  ASSUME UndoChain, NEW l \in LogEntry, l.before = hg,
         log' = Append(log, l), LeadsTo(l, hg'), WellFormed(hg')
  PROVE  UndoChain'
<1>1. log \in Seq(LogEntry)
  BY DEF UndoChain, TypeOK
<1>2. /\ log' \in Seq(LogEntry)
      /\ Len(log') = Len(log) + 1
      /\ Len(log) \in Nat
      /\ \A i \in 1 .. Len(log) : log'[i] = log[i]
      /\ log'[Len(log) + 1] = l
  BY <1>1
<1>3. \A i \in Nat : i = Len(log') => After(i)' = hg'
  BY DEF After
<1>4. \A i \in 0 .. Len(log) : After(i)' = After(i)
  <2> SUFFICES ASSUME NEW i \in 0 .. Len(log) PROVE After(i)' = After(i)
    OBVIOUS
  <2>1. CASE i = Len(log)
    BY <1>2, <2>1 DEF After
  <2>2. CASE i # Len(log)
    <3>1. i + 1 \in 1 .. Len(log)
      BY <1>2, <2>2
    <3> QED BY <1>2, <2>2, <3>1 DEF After
  <2> QED BY <2>1, <2>2
<1>5. TypeOK'
  BY <1>2 DEF TypeOK, WellFormed
<1>6. After(0)' = Original
  BY <1>2, <1>4 DEF UndoChain
<1>7. ASSUME NEW i \in 1 .. Len(log') PROVE LeadsTo(log'[i], After(i)')
  <2>1. CASE i = Len(log')
    <3>1. log'[i] = l /\ After(i)' = hg'
      BY <1>2, <1>3, <2>1
    <3> QED BY <3>1
  <2>2. CASE i # Len(log')
    <3>1. i \in 1 .. Len(log)
      BY <1>2, <2>2
    <3> QED BY <1>2, <1>4, <3>1 DEF UndoChain
  <2> QED BY <2>1, <2>2
<1> QED BY <1>5, <1>6, <1>7 DEF UndoChain

\* Undoing the last operation gives the structure it was applied to and
\* shortens the chain.
LEMMA ShortenChain ==
  ASSUME UndoChain, log # << >>, log' = Front(log), hg' = Last(log).before
  PROVE  UndoChain'
<1>1. log \in Seq(LogEntry)
  BY DEF UndoChain, TypeOK
<1>2. /\ log' \in Seq(LogEntry)
      /\ Len(log') = Len(log) - 1
      /\ \A i \in 1 .. Len(log) - 1 : log'[i] = log[i]
      /\ Last(log) = log[Len(log)]
      /\ Len(log) \in Nat \ {0}
  BY <1>1, PopBelow
<1>3. WellFormed(hg')
  BY <1>2 DEF UndoChain, LeadsTo
<1>4. \A i \in 0 .. Len(log) - 1 : After(i)' = After(i)
  <2> SUFFICES ASSUME NEW i \in 0 .. Len(log) - 1 PROVE After(i)' = After(i)
    OBVIOUS
  <2>1. CASE i = Len(log) - 1
    BY <1>2, <2>1 DEF After
  <2>2. CASE i # Len(log) - 1
    <3>1. i + 1 \in 1 .. Len(log) - 1
      BY <1>2, <2>2
    <3> QED BY <1>2, <2>2, <3>1 DEF After
  <2> QED BY <2>1, <2>2
<1>5. TypeOK'
  BY <1>2, <1>3 DEF TypeOK, WellFormed
<1>6. After(0)' = Original
  BY <1>2, <1>4 DEF UndoChain
<1>7. ASSUME NEW i \in 1 .. Len(log') PROVE LeadsTo(log'[i], After(i)')
  <2>1. i \in 1 .. Len(log) - 1 /\ i \in 1 .. Len(log)
    BY <1>2
  <2> QED BY <1>2, <1>4, <2>1 DEF UndoChain
<1> QED BY <1>3, <1>5, <1>6, <1>7 DEF UndoChain

\* Each of the two undo operations restores the structure kept with the entry.
LEMMA UndoRestores ==
  ASSUME UndoChain, Uncontract \/ RestoreEdge
  PROVE  log # << >> /\ log' = Front(log) /\ hg' = Last(log).before
<1>1. log \in Seq(LogEntry) /\ log # << >> /\ log' = Front(log)
  BY DEF UndoChain, TypeOK, Uncontract, RestoreEdge, Undoes
<1>2. Last(log) = log[Len(log)] /\ Len(log) \in Nat \ {0}
  BY <1>1, PopBelow
<1>3. LeadsTo(Last(log), hg)
  BY <1>2 DEF UndoChain, After
<1> DEFINE l == Last(log)
<1>4. CASE Uncontract
  <2>1. l.op = "contract" /\ hg' = Uncontracted(hg, l.u, l.v)
    BY <1>4 DEF Uncontract, Undoes
  <2>2. /\ WellFormed(l.before) /\ l.u \in l.before.nodes /\ l.v \in l.before.nodes /\ l.u # l.v
        /\ hg = Contracted(l.before, l.u, l.v)
    BY <1>3, <2>1 DEF LeadsTo
  <2> HIDE DEF l
  <2>3. hg' = l.before
    BY <2>1, <2>2, UncontractUndoesContract
  <2> QED BY <1>1, <2>3 DEF l
<1>5. CASE RestoreEdge
  <2>1. l.op = "remove" /\ hg' = Restored(hg, l.e)
    BY <1>5 DEF RestoreEdge, Undoes
  <2>2. WellFormed(l.before) /\ l.e \in l.before.edges /\ hg = Removed(l.before, l.e)
    BY <1>3, <2>1 DEF LeadsTo
  <2> HIDE DEF l
  <2>3. hg' = l.before
    BY <2>1, <2>2, RestoreUndoesRemove
  <2> QED BY <1>1, <2>3 DEF l
<1> QED BY <1>4, <1>5

\* The hypergraph that is read is well-formed.
LEMMA OriginalWellFormed == WellFormed(Original)
<1>1. Original.cutOff \in [Hyperedge -> Seq(Hypernode)]
  BY EmptySeq DEF Original
<1>2. Original \in Structure
  BY <1>1, InitPinsAssumption, InitNumPinsAssumption, InitWeightAssumption DEF Original, Structure
<1>3. Dual(Original)
  BY InitPinsAssumption DEF Original, Dual
<1>4. OnlyContracted(Original)
  BY DEF Original, OnlyContracted
<1> QED BY <1>2, <1>3, <1>4 DEF WellFormed
-----------------------------------------------------------------------------
\* Nothing is logged of the original hypergraph.
LEMMA ChainBegins ==
  ASSUME Init
  PROVE  UndoChain
<1>1. log = << >> /\ hg = Original /\ Len(log) = 0
  BY DEF Init
<1> QED BY <1>1, OriginalWellFormed, EmptySeq DEF UndoChain, TypeOK, WellFormed, After

\* The invariant is inductive.
LEMMA ChainKept ==
  ASSUME UndoChain, [Next]_vars
  PROVE  UndoChain'
<1>1. WellFormed(hg) /\ hg \in Structure
  BY DEF UndoChain, WellFormed
<1>2. ASSUME NEW u \in Hypernode, NEW v \in Hypernode, Contract(u, v) PROVE UndoChain'
  <2> DEFINE l == [op |-> "contract", u |-> u, v |-> v, before |-> hg]
  <2>1. /\ u \in hg.nodes /\ v \in hg.nodes /\ u # v
        /\ hg' = Contracted(hg, u, v) /\ log' = Append(log, l)
    BY <1>2 DEF Contract
  <2>2. l \in LogEntry /\ l.before = hg
    BY <1>1 DEF LogEntry
  <2>3. LeadsTo(l, hg')
    BY <1>1, <2>1 DEF LeadsTo
  <2>4. WellFormed(hg')
    BY <1>1, <2>1, ContractedWellFormed
  <2> HIDE DEF l
  <2> QED BY <2>1, <2>2, <2>3, <2>4, ExtendChain
<1>3. ASSUME NEW e \in Hyperedge, RemoveEdge(e) PROVE UndoChain'
  <2> DEFINE l == [op |-> "remove", e |-> e, before |-> hg]
  <2>1. e \in hg.edges /\ hg' = Removed(hg, e) /\ log' = Append(log, l)
    BY <1>3 DEF RemoveEdge
  <2>2. l \in LogEntry /\ l.before = hg
    BY <1>1 DEF LogEntry
  <2>3. LeadsTo(l, hg')
    BY <1>1, <2>1 DEF LeadsTo
  <2>4. WellFormed(hg')
    BY <1>1, <2>1, RemovedWellFormed
  <2> HIDE DEF l
  <2> QED BY <2>1, <2>2, <2>3, <2>4, ExtendChain
<1>4. CASE Uncontract \/ RestoreEdge
  BY <1>4, UndoRestores, ShortenChain
<1>5. CASE UNCHANGED vars
  BY <1>5 DEF vars, UndoChain, TypeOK, After
<1> QED BY <1>2, <1>3, <1>4, <1>5 DEF Next

\* The log always leads from the original hypergraph to the current one.
THEOREM Chained == Spec => []UndoChain
<1>1. Init => UndoChain
  BY ChainBegins
<1>2. UndoChain /\ [Next]_vars => UndoChain'
  BY ChainKept
<1> QED BY <1>1, <1>2, PTL DEF Spec

\* Type correctness: in particular numPins never becomes a non-integer and
\* the stretches behind the pins hold hypernodes only.
THEOREM TypeCorrect == Spec => []TypeOK
<1>1. UndoChain => TypeOK
  BY DEF UndoChain
<1> QED BY <1>1, Chained, PTL

\* Hypernodes and nets always agree on who is incident to whom.
THEOREM IncidenceAgrees == Spec => []DualIncidence
<1>1. UndoChain => DualIncidence
  BY DEF UndoChain, WellFormed, DualIncidence
<1> QED BY <1>1, Chained, PTL

\* Only contracted hypernodes lie behind the pins of a net.
THEOREM PeekIsSafe == Spec => []CutOffContracted
<1>1. UndoChain => CutOffContracted
  BY DEF UndoChain, WellFormed, CutOffContracted
<1> QED BY <1>1, Chained, PTL

\* With everything undone, the hypergraph is the one that was read.
THEOREM InputHandedBack == Spec => []OriginalRestored
<1>1. UndoChain => OriginalRestored
  <2> SUFFICES ASSUME UndoChain, log = << >> PROVE hg = Original
    BY DEF OriginalRestored
  <2>1. Len(log) = 0
    OBVIOUS
  <2> QED BY <2>1 DEF UndoChain, After
<1> QED BY <1>1, Chained, PTL

\* Every undo step restores the structure its operation was applied to.
THEOREM UndoIsExact == Spec => ReverseReplay
<1>1. UndoChain /\ [Next]_vars => [Len(log') < Len(log) => hg' = Last(log).before]_vars
  <2> SUFFICES ASSUME UndoChain, Next, Len(log') < Len(log) PROVE hg' = Last(log).before
    OBVIOUS
  <2>1. log \in Seq(LogEntry) /\ hg \in Structure
    BY DEF UndoChain, TypeOK
  <2>2. ASSUME NEW l \in LogEntry, log' = Append(log, l) PROVE FALSE
    BY <2>1, <2>2
  <2>3. ASSUME NEW u \in Hypernode, NEW v \in Hypernode, Contract(u, v) PROVE FALSE
    BY <2>1, <2>2, <2>3 DEF Contract, LogEntry
  <2>4. ASSUME NEW e \in Hyperedge, RemoveEdge(e) PROVE FALSE
    BY <2>1, <2>2, <2>4 DEF RemoveEdge, LogEntry
  <2> QED BY <2>3, <2>4, UndoRestores DEF Next
<1> QED BY <1>1, Chained, PTL DEF Spec, ReverseReplay
=============================================================================
