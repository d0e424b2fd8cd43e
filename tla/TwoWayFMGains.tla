--------------------------- MODULE TwoWayFMGains ---------------------------
(***************************************************************************)
(* Why what the search of TwoWayFM only ever corrects stays exact, on      *)
(* levels that are exact themselves.  First the gains, net by net and then *)
(* added up: what a move, an uncontraction and a restored net change in    *)
(* the gain of a hypernode and in the cut.  Then SearchInv, the inductive  *)
(* invariant: the gain cache and the deltas of its rollback, the queue and *)
(* the activity of hypernodes, the locks, and the metrics of the best      *)
(* partition so far.                                                       *)
(***************************************************************************)
EXTENDS TwoWayFM, SetSums, FiniteSetTheorems, SequenceTheorems

-----------------------------------------------------------------------------
(* Gain and cut of a structure s under a partition p, whatever is counted.   *)

\* The pins of a net S in block b.
In(S, p, b) == {x \in S : p[x] = b}

\* What the net, of weight w, contributes to the gain of its pin v.
NetGain(S, w, p, v) == (IF In(S, p, p[v]) = {v} THEN w ELSE 0)
                       - (IF In(S, p, Other(p[v])) = {} THEN w ELSE 0)

IsCut(S, p) == \E x, y \in S : p[x] # p[y]
NetCut(S, w, p) == IF IsCut(S, p) THEN w ELSE 0

GainOf(s, ew, p, v) == Total([e \in s.nets[v] |-> NetGain(s.pins[e], ew[e], p, v)], s.nets[v])
CutOf(s, ew, p) == Total([e \in s.edges |-> NetCut(s.pins[e], ew[e], p)], s.edges)

Flip(p, v) == [p EXCEPT ![v] = Other(p[v])]

\* A structure whose nets, pins and weights are of the right kind: the nets of
\* a hypernode are the enabled ones that have it as a pin.
Listed(s) ==
  /\ s.nodes \in SUBSET Hypernode
  /\ s.edges \in SUBSET Hyperedge
  /\ s.pins \in [Hyperedge -> SUBSET Hypernode]
  /\ s.nets \in [Hypernode -> SUBSET Hyperedge]
  /\ \A e \in s.edges : s.pins[e] \subseteq s.nodes
  /\ \A v \in s.nodes, e \in Hyperedge : e \in s.nets[v] <=> e \in s.edges /\ v \in s.pins[e]

\* Every hypernode of V is in a block.
Parted(p, V) == p \in [Hypernode -> Block \cup {NoBlock}] /\ \A v \in V : p[v] \in Block
Weighted(ew) == ew \in [Hyperedge -> Nat]
-----------------------------------------------------------------------------
\* There are two blocks.
LEMMA TwoElements ==
  ASSUME NEW S, Cardinality(S) = 2, IsFiniteSet(S), NEW x \in S
  PROVE  \E y \in S : y # x /\ S = {x, y}
<1>1. IsFiniteSet(S \ {x}) /\ Cardinality(S \ {x}) = 1
  BY FS_RemoveElement
<1>2. PICK y : S \ {x} = {y}
  BY <1>1, FS_Singleton
<1> QED BY <1>2

\* Each is the other one of the other.
LEMMA OtherBlock ==
  ASSUME NEW b \in Block
  PROVE  /\ Other(b) \in Block /\ Other(b) # b /\ Other(Other(b)) = b
         /\ \A c \in Block : c = b \/ c = Other(b)
<1>0. IsFiniteSet(Block)
  BY HypergraphAssumption
<1>1. PICK c \in Block : c # b /\ Block = {b, c}
  BY <1>0, TwoBlocks, TwoElements
<1>2. Other(b) = c
  BY <1>1 DEF Other
<1>3. Other(c) = b
  BY <1>1 DEF Other
<1> QED BY <1>1, <1>2, <1>3

\* A set with one element, and with two of which both are known.
LEMMA CountOne ==
  ASSUME NEW S, IsFiniteSet(S), NEW x \in S
  PROVE  Cardinality(S) = 1 <=> S = {x}
<1>1. Cardinality(S) = 1 => S = {x}
  BY FS_Singleton
<1>2. S = {x} => Cardinality(S) = 1
  BY FS_Singleton
<1> QED BY <1>1, <1>2

\* The same for two.
LEMMA CountTwo ==
  ASSUME NEW S, IsFiniteSet(S), NEW x \in S, NEW y \in S, x # y
  PROVE  Cardinality(S) = 2 <=> S = {x, y}
<1>1. Cardinality(S) = 2 => S = {x, y}
  BY TwoElements
<1>2. S = {x, y} => Cardinality(S) = 2
  <2>1. IsFiniteSet({x}) /\ Cardinality({x}) = 1
    BY FS_Singleton
  <2>2. Cardinality({x} \cup {y}) = 2
    BY <2>1, FS_AddElement
  <2>3. {x} \cup {y} = {x, y}
    OBVIOUS
  <2> QED BY <2>2, <2>3
<1> QED BY <1>1, <1>2

\* And for none.
LEMMA CountNone ==
  ASSUME NEW S, IsFiniteSet(S)
  PROVE  (Cardinality(S) = 0 <=> S = {}) /\ Cardinality(S) \in Nat
BY FS_CardinalityType, FS_EmptySet
-----------------------------------------------------------------------------
(* One net and one move.                                                     *)

\* What the pins of a net in either block are after v has moved.
PinsFlipped(S, p, v) ==
  /\ Parted(Flip(p, v), S)
  /\ Flip(p, v)[v] = Other(p[v])
  /\ \A x \in Hypernode \ {v} : Flip(p, v)[x] = p[x]
  /\ In(S, Flip(p, v), p[v]) = In(S, p, p[v]) \ {v}
  /\ In(S, Flip(p, v), Other(p[v])) = In(S, p, Other(p[v])) \cup {v}

\* A move takes v from the one set to the other.
LEMMA InFlipped ==
  ASSUME NEW S \in SUBSET Hypernode, NEW p, Parted(p, S), NEW v \in S
  PROVE  PinsFlipped(S, p, v)
<1>1. p[v] \in Block /\ p \in [Hypernode -> Block \cup {NoBlock}] /\ v \in Hypernode
  BY DEF Parted
<1>2. Other(p[v]) \in Block /\ Other(p[v]) # p[v]
  BY <1>1, OtherBlock
<1>3. /\ Flip(p, v) \in [Hypernode -> Block \cup {NoBlock}]
      /\ Flip(p, v)[v] = Other(p[v])
      /\ \A x \in Hypernode \ {v} : Flip(p, v)[x] = p[x]
  BY <1>1, <1>2 DEF Flip
<1>4. \A x \in S : Flip(p, v)[x] \in Block
  BY <1>2, <1>3 DEF Parted
<1>5. In(S, Flip(p, v), p[v]) = In(S, p, p[v]) \ {v}
  BY <1>2, <1>3 DEF In
<1>6. In(S, Flip(p, v), Other(p[v])) = In(S, p, Other(p[v])) \cup {v}
  BY <1>2, <1>3 DEF In
<1> QED BY <1>3, <1>4, <1>5, <1>6 DEF Parted, PinsFlipped

\* Every pin is in one block or in the other.
LEMMA InEither ==
  ASSUME NEW S \in SUBSET Hypernode, NEW p, Parted(p, S), NEW b \in Block
  PROVE  S = In(S, p, b) \cup In(S, p, Other(b)) /\ In(S, p, b) \cap In(S, p, Other(b)) = {}
BY OtherBlock DEF In, Parted

\* The moved hypernode wins what it would have lost, and conversely.
LEMMA NetNegates ==
  ASSUME NEW S \in SUBSET Hypernode, NEW w \in Nat, NEW p, Parted(p, S), NEW v \in S
  PROVE  NetGain(S, w, Flip(p, v), v) = - NetGain(S, w, p, v)
<1> DEFINE b == p[v]
           A == In(S, p, b)
           B == In(S, p, Other(b))
<1>1. b \in Block /\ Other(b) \in Block /\ Other(Other(b)) = b /\ v \in A /\ v \notin B
  BY OtherBlock DEF Parted, In
<1>2. /\ Flip(p, v)[v] = Other(b)
      /\ In(S, Flip(p, v), b) = A \ {v}
      /\ In(S, Flip(p, v), Other(b)) = B \cup {v}
  <2>1. PinsFlipped(S, p, v)
    BY InFlipped
  <2> QED BY <2>1 DEF PinsFlipped
<1>3. (A \ {v} = {} <=> A = {v}) /\ (B \cup {v} = {v} <=> B = {})
  BY <1>1
<1>4. NetGain(S, w, p, v) = (IF A = {v} THEN w ELSE 0) - (IF B = {} THEN w ELSE 0)
  BY DEF NetGain
<1>5. NetGain(S, w, Flip(p, v), v) = (IF B \cup {v} = {v} THEN w ELSE 0) - (IF A \ {v} = {} THEN w ELSE 0)
  BY <1>1, <1>2 DEF NetGain
<1> HIDE DEF A, B, b
<1> QED BY <1>3, <1>4, <1>5

\* A gain is a number.
LEMMA NetGainTyped ==
  ASSUME NEW S, NEW w \in Nat, NEW p, NEW v
  PROVE  NetGain(S, w, p, v) \in Int /\ NetCut(S, w, p) \in Nat
<1>1. /\ (IF In(S, p, p[v]) = {v} THEN w ELSE 0) \in Int
      /\ (IF In(S, p, Other(p[v])) = {} THEN w ELSE 0) \in Int
  OBVIOUS
<1>2. NetCut(S, w, p) \in Nat
  BY DEF NetCut
<1> QED BY <1>1, <1>2 DEF NetGain

\* What fullUpdate and deltaUpdate add to the gain of another pin q of a net, by
\* the pin counts c after the move: six cases, that of a net of two pins included.
PinDelta(S, w, p, c, v, q) ==
  LET from == p[v]
      to == Other(from)
  IN IF Cardinality(S) = 2 THEN IF p[q] = from THEN 2 * w ELSE - 2 * w
     ELSE IF c[to] = 1 THEN w
     ELSE IF c[from] = 0 THEN - w
     ELSE IF c[to] = 2 /\ p[q] # from THEN - w
     ELSE IF c[from] = 1 /\ p[q] = from THEN w
     ELSE 0

\* The gain of a pin in a net is settled by four facts about the pins in the two
\* blocks.
LEMMA NetDelta ==
  ASSUME NEW S \in SUBSET Hypernode, NEW w \in Nat, NEW p, Parted(p, S),
         NEW v \in S, NEW q \in S, q # v,
         NEW c, \A b \in Block : c[b] = Cardinality(In(S, Flip(p, v), b))
  PROVE  NetGain(S, w, Flip(p, v), q) = NetGain(S, w, p, q) + PinDelta(S, w, p, c, v, q)
<1> DEFINE from == p[v]
           to == Other(from)
           A == In(S, p, from)
           B == In(S, p, to)
           AA == In(S, Flip(p, v), from)
           BB == In(S, Flip(p, v), to)
<1>1. /\ from \in Block /\ to \in Block /\ from # to /\ Other(to) = from
      /\ p[q] = from \/ p[q] = to
      /\ Other(from) = to
  BY OtherBlock DEF Parted
<1>2. IsFiniteSet(S) /\ IsFiniteSet(AA) /\ IsFiniteSet(BB)
  <2>1. AA \in SUBSET S /\ BB \in SUBSET S
    BY DEF In
  <2> QED BY <2>1, HypergraphAssumption, FS_Subset
<1>3. AA = A \ {v} /\ BB = B \cup {v} /\ Flip(p, v)[q] = p[q]
  <2>1. PinsFlipped(S, p, v)
    BY InFlipped
  <2> QED BY <2>1 DEF PinsFlipped
<1>4. S = A \cup B /\ A \cap B = {} /\ v \in A /\ v \notin B
  BY <1>1, InEither DEF In
<1>5. c[from] = Cardinality(AA) /\ c[to] = Cardinality(BB)
  BY <1>1
<1>6. Cardinality(S) = 2 <=> S = {v, q}
  BY <1>2, CountTwo
<1>7. v \in BB /\ (c[to] = 1 <=> BB = {v})
  BY <1>2, <1>3, <1>5, CountOne
<1>8. c[from] = 0 <=> AA = {}
  BY <1>2, <1>5, CountNone
<1>9. CASE p[q] = from
  <2>1. q \in A /\ q \in AA /\ q \notin B /\ q \notin BB
    BY <1>3, <1>4, <1>9 DEF In
  <2>2. c[from] = 1 <=> AA = {q}
    BY <1>2, <1>5, <2>1, CountOne
  <2>3. /\ NetGain(S, w, p, q) = (IF A = {q} THEN w ELSE 0) - (IF B = {} THEN w ELSE 0)
        /\ NetGain(S, w, Flip(p, v), q) = (IF AA = {q} THEN w ELSE 0) - (IF BB = {} THEN w ELSE 0)
    BY <1>1, <1>3, <1>9 DEF NetGain
  <2>4. PinDelta(S, w, p, c, v, q) =
          IF S = {v, q} THEN 2 * w
          ELSE IF BB = {v} THEN w
          ELSE IF AA = {} THEN - w
          ELSE IF AA = {q} THEN w
          ELSE 0
    BY <1>6, <1>7, <1>8, <1>9, <2>2 DEF PinDelta
  <2>5. /\ S = {v, q} <=> AA = {q} /\ B = {}
        /\ BB = {v} <=> B = {}
        /\ AA # {} /\ A # {q} /\ BB # {}
    BY <1>3, <1>4, <2>1
  <2> HIDE DEF A, B, AA, BB, from, to
  <2>6. CASE B = {} /\ AA = {q}
    BY <2>3, <2>4, <2>5, <2>6
  <2>7. CASE B = {} /\ AA # {q}
    BY <2>3, <2>4, <2>5, <2>7
  <2>8. CASE B # {} /\ AA = {q}
    BY <2>3, <2>4, <2>5, <2>8
  <2>9. CASE B # {} /\ AA # {q}
    BY <2>3, <2>4, <2>5, <2>9
  <2> QED BY <2>6, <2>7, <2>8, <2>9
<1>10. CASE p[q] = to
  <2>1. q \in B /\ q \in BB /\ q \notin A /\ q \notin AA
    BY <1>1, <1>3, <1>4, <1>10 DEF In
  <2>2. c[to] = 2 <=> BB = {v, q}
    BY <1>2, <1>5, <1>7, <2>1, CountTwo
  <2>3. /\ NetGain(S, w, p, q) = (IF B = {q} THEN w ELSE 0) - (IF A = {} THEN w ELSE 0)
        /\ NetGain(S, w, Flip(p, v), q) = (IF BB = {q} THEN w ELSE 0) - (IF AA = {} THEN w ELSE 0)
    BY <1>1, <1>3, <1>10 DEF NetGain
  <2>4. PinDelta(S, w, p, c, v, q) =
          IF S = {v, q} THEN - 2 * w
          ELSE IF BB = {v} THEN w
          ELSE IF AA = {} THEN - w
          ELSE IF BB = {v, q} THEN - w
          ELSE 0
    BY <1>1, <1>6, <1>7, <1>8, <1>10, <2>2 DEF PinDelta
  <2>5. /\ S = {v, q} <=> AA = {} /\ B = {q}
        /\ BB = {v, q} <=> B = {q}
        /\ BB # {v} /\ BB # {q} /\ A # {}
    BY <1>3, <1>4, <2>1
  <2> HIDE DEF A, B, AA, BB, from, to
  <2>6. CASE AA = {} /\ B = {q}
    BY <2>3, <2>4, <2>5, <2>6
  <2>7. CASE AA = {} /\ B # {q}
    BY <2>3, <2>4, <2>5, <2>7
  <2>8. CASE AA # {} /\ B = {q}
    BY <2>3, <2>4, <2>5, <2>8
  <2>9. CASE AA # {} /\ B # {q}
    BY <2>3, <2>4, <2>5, <2>9
  <2> QED BY <2>6, <2>7, <2>8, <2>9
<1> QED BY <1>1, <1>9, <1>10

\* A move takes its gain off the cut.
LEMMA NetCutDelta ==
  ASSUME NEW S \in SUBSET Hypernode, NEW w \in Nat, NEW p, Parted(p, S), NEW v \in S
  PROVE  NetCut(S, w, Flip(p, v)) = NetCut(S, w, p) - NetGain(S, w, p, v)
<1> DEFINE from == p[v]
           A == In(S, p, from)
           B == In(S, p, Other(from))
<1>1. from \in Block /\ Other(from) \in Block /\ Other(from) # from
  BY OtherBlock DEF Parted
<1>2. ASSUME NEW r, Parted(r, S) PROVE IsCut(S, r) <=> In(S, r, from) # {} /\ In(S, r, Other(from)) # {}
  <2>1. \A x \in S : r[x] = from \/ r[x] = Other(from)
    BY <1>1, <1>2, OtherBlock DEF Parted
  <2> HIDE DEF from
  <2> QED BY <1>1, <2>1 DEF IsCut, In
<1>3. /\ Parted(Flip(p, v), S)
      /\ In(S, Flip(p, v), from) = A \ {v}
      /\ In(S, Flip(p, v), Other(from)) = B \cup {v}
  <2>1. PinsFlipped(S, p, v)
    BY InFlipped
  <2> QED BY <2>1 DEF PinsFlipped
<1>4. v \in A /\ (A \ {v} = {} <=> A = {v}) /\ B \cup {v} # {} /\ A # {}
  BY DEF In
<1>5. IsCut(S, p) <=> B # {}
  BY <1>2, <1>4
<1>6. IsCut(S, Flip(p, v)) <=> A # {v}
  BY <1>2, <1>3, <1>4
<1>7. NetGain(S, w, p, v) = (IF A = {v} THEN w ELSE 0) - (IF B = {} THEN w ELSE 0)
  BY DEF NetGain
<1> HIDE DEF A, B, from
<1> QED BY <1>5, <1>6, <1>7 DEF NetCut
-----------------------------------------------------------------------------
(* A move and all nets of a structure.                                       *)

\* What is known of a net of a listed structure.
LEMMA NetListed ==
  ASSUME NEW s, Listed(s), NEW ew, Weighted(ew), NEW p, Parted(p, s.nodes)
  PROVE  /\ IsFiniteSet(s.edges) /\ IsFiniteSet(s.nodes)
         /\ \A e \in s.edges : /\ s.pins[e] \in SUBSET Hypernode /\ IsFiniteSet(s.pins[e])
                               /\ ew[e] \in Nat /\ Parted(p, s.pins[e])
         /\ \A v \in s.nodes : s.nets[v] \in SUBSET s.edges /\ IsFiniteSet(s.nets[v])
<1>1. IsFiniteSet(s.edges) /\ IsFiniteSet(s.nodes)
  BY HypergraphAssumption, FS_Subset DEF Listed
<1>2. ASSUME NEW e \in s.edges
      PROVE  s.pins[e] \in SUBSET Hypernode /\ IsFiniteSet(s.pins[e]) /\ ew[e] \in Nat /\ Parted(p, s.pins[e])
  <2>1. s.pins[e] \in SUBSET Hypernode /\ s.pins[e] \subseteq s.nodes /\ ew[e] \in Nat
    BY DEF Listed, Weighted
  <2>2. IsFiniteSet(s.pins[e])
    BY <2>1, HypergraphAssumption, FS_Subset
  <2>3. Parted(p, s.pins[e])
    BY <2>1 DEF Parted
  <2> QED BY <2>1, <2>2, <2>3
<1>3. ASSUME NEW v \in s.nodes PROVE s.nets[v] \in SUBSET s.edges /\ IsFiniteSet(s.nets[v])
  <2>1. s.nets[v] \in SUBSET s.edges
    BY DEF Listed
  <2> QED BY <1>1, <2>1, FS_Subset
<1> QED BY <1>1, <1>2, <1>3

\* A sum of zeros.
LEMMA TotalZero ==
  ASSUME NEW S, IsFiniteSet(S), NEW f, \A x \in S : f[x] = 0
  PROVE  Total(f, S) = 0
<1>1. (\A x \in S : f[x] \in Int) /\ {} \in SUBSET S /\ \A x \in S \ {} : f[x] = 0
  OBVIOUS
<1>2. Total(f, S) = Total(f, {})
  BY <1>1, TotalOfOthers
<1> QED BY <1>1, <1>2, TotalStep

\* The sum of what the other pin q gains by the move of v.
NetsShared(s, E, q) == {e \in E : q \in s.pins[e]}
DeltaOf(s, ew, p, np, E, v, q) ==
  Total([e \in NetsShared(s, E, q) |-> PinDelta(s.pins[e], ew[e], p, np[e].count, v, q)], NetsShared(s, E, q))

\* The pin counts are those of partition p.
Counted(s, np, p) == \A e \in s.edges : \A b \in Block : np[e].count[b] = Cardinality(In(s.pins[e], p, b))

\* The deltas are numbers.
LEMMA PinDeltaTyped ==
  ASSUME NEW S, NEW w \in Nat, NEW p, NEW c, NEW v, NEW q
  PROVE  PinDelta(S, w, p, c, v, q) \in Int
<1>1. w \in Int /\ - w \in Int /\ 2 * w \in Int /\ - 2 * w \in Int /\ 0 \in Int
  OBVIOUS
<1> QED BY <1>1 DEF PinDelta

\* The gain of every other hypernode changes by the sum of its deltas over the
\* nets it shares with the moved one.
LEMMA GainsMoved ==
  ASSUME NEW s, Listed(s), NEW ew, Weighted(ew), NEW p, Parted(p, s.nodes),
         NEW v \in s.nodes, NEW q \in s.nodes, q # v, NEW np, Counted(s, np, Flip(p, v))
  PROVE  /\ GainOf(s, ew, Flip(p, v), q) = GainOf(s, ew, p, q) + DeltaOf(s, ew, p, np, s.nets[v], v, q)
         /\ GainOf(s, ew, p, q) \in Int /\ DeltaOf(s, ew, p, np, s.nets[v], v, q) \in Int
<1> DEFINE E == s.nets[q]
           shared == NetsShared(s, s.nets[v], q)
           f == [e \in E |-> NetGain(s.pins[e], ew[e], Flip(p, v), q)]
           g == [e \in E |-> IF e \in shared THEN PinDelta(s.pins[e], ew[e], p, np[e].count, v, q) ELSE 0]
           h == [e \in E |-> NetGain(s.pins[e], ew[e], p, q)]
           d == [e \in shared |-> PinDelta(s.pins[e], ew[e], p, np[e].count, v, q)]
<1>1. /\ E \in SUBSET s.edges /\ IsFiniteSet(E) /\ s.nets[v] \in SUBSET s.edges
      /\ \A e \in s.edges : /\ s.pins[e] \in SUBSET Hypernode /\ IsFiniteSet(s.pins[e])
                            /\ ew[e] \in Nat /\ Parted(p, s.pins[e])
  BY NetListed
<1>2. shared \in SUBSET E /\ IsFiniteSet(shared)
  <2>1. shared \in SUBSET E
    BY DEF Listed, NetsShared
  <2> QED BY <1>1, <2>1, FS_Subset
<1>3. ASSUME NEW e \in E PROVE f[e] \in Int /\ g[e] \in Int /\ h[e] = f[e] - g[e] /\ h[e] \in Int
  <2>0. e \in s.edges /\ q \in s.pins[e] /\ ew[e] \in Nat
    BY <1>1 DEF Listed
  <2>1. h[e] = NetGain(s.pins[e], ew[e], p, q) /\ f[e] = NetGain(s.pins[e], ew[e], Flip(p, v), q)
    OBVIOUS
  <2>2. h[e] \in Int /\ f[e] \in Int
    BY <2>0, <2>1, NetGainTyped
  <2>3. CASE e \in shared
    <3>1. v \in s.pins[e] /\ g[e] = PinDelta(s.pins[e], ew[e], p, np[e].count, v, q)
      BY <2>3 DEF Listed, NetsShared
    <3>2. g[e] \in Int
      BY <2>0, <3>1, PinDeltaTyped
    <3>3. \A b \in Block : np[e].count[b] = Cardinality(In(s.pins[e], Flip(p, v), b))
      BY <2>0 DEF Counted
    <3>4. NetGain(s.pins[e], ew[e], Flip(p, v), q)
            = NetGain(s.pins[e], ew[e], p, q) + PinDelta(s.pins[e], ew[e], p, np[e].count, v, q)
      BY <1>1, <2>0, <3>1, <3>3, NetDelta
    <3>5. f[e] = h[e] + g[e]
      BY <2>1, <3>1, <3>4
    <3> HIDE DEF f, g, h
    <3> QED BY <2>2, <3>2, <3>5
  <2>4. CASE e \notin shared
    <3>1. g[e] = 0 /\ v \notin s.pins[e]
      BY <2>0, <2>4 DEF NetsShared, Listed
    <3>2. \A x \in s.pins[e] : Flip(p, v)[x] = p[x]
      <4>1. s.pins[e] \in SUBSET Hypernode /\ p \in [Hypernode -> Block \cup {NoBlock}]
        BY <1>1, <2>0 DEF Parted
      <4> QED BY <3>1, <4>1 DEF Flip
    <3>3. \A b : In(s.pins[e], Flip(p, v), b) = In(s.pins[e], p, b)
      BY <3>2 DEF In
    <3>4. Flip(p, v)[q] = p[q]
      BY <2>0, <3>2
    <3>5. h[e] = f[e]
      BY <2>1, <3>3, <3>4 DEF NetGain
    <3> HIDE DEF f, g, h
    <3> QED BY <2>2, <3>1, <3>5
  <2> QED BY <2>3, <2>4
<1>4. Total(h, E) = Total(f, E) - Total(g, E)
  <2> HIDE DEF f, g, h, E
  <2> QED BY <1>1, <1>3, TotalDifference
<1>5. Total(g, E) = Total(d, shared)
  <2>1. \A e \in shared : g[e] \in Int /\ d[e] = g[e]
    BY <1>2, <1>3
  <2>2. \A e \in E \ shared : g[e] = 0
    OBVIOUS
  <2>3. \A e \in E : g[e] \in Int
    BY <1>3
  <2> HIDE DEF f, g, h, E, d, shared
  <2>4. Total(g, E) = Total(g, shared)
    BY <1>1, <1>2, <2>2, <2>3, TotalOfOthers
  <2>5. Total(g, shared) = Total(d, shared)
    BY <1>2, <2>1, TotalEqual
  <2> QED BY <2>4, <2>5
<1>6. Total(f, E) \in Int /\ Total(g, E) \in Int /\ Total(h, E) \in Int
  <2> HIDE DEF f, g, h, E
  <2>1. (\A e \in E : f[e] \in Int) /\ (\A e \in E : g[e] \in Int) /\ (\A e \in E : h[e] \in Int)
    BY <1>3
  <2> QED BY <1>1, <2>1, TotalStep
<1>7. Total(f, E) = Total(h, E) + Total(d, shared) /\ Total(h, E) \in Int /\ Total(d, shared) \in Int
  <2> HIDE DEF f, g, h, E, d, shared
  <2> QED BY <1>4, <1>5, <1>6
<1> QED BY <1>7 DEF GainOf, DeltaOf

\* The moved hypernode's own gain changes its sign, and the cut falls by it.
LEMMA CutMoved ==
  ASSUME NEW s, Listed(s), NEW ew, Weighted(ew), NEW p, Parted(p, s.nodes), NEW v \in s.nodes
  PROVE  /\ GainOf(s, ew, Flip(p, v), v) = - GainOf(s, ew, p, v)
         /\ CutOf(s, ew, Flip(p, v)) = CutOf(s, ew, p) - GainOf(s, ew, p, v)
         /\ GainOf(s, ew, p, v) \in Int /\ CutOf(s, ew, p) \in Int
<1> DEFINE E == s.nets[v]
           f == [e \in E |-> NetGain(s.pins[e], ew[e], p, v)]
           h == [e \in E |-> NetGain(s.pins[e], ew[e], Flip(p, v), v)]
           z == [e \in E |-> 0]
           c == [e \in s.edges |-> NetCut(s.pins[e], ew[e], p)]
           d == [e \in s.edges |-> NetCut(s.pins[e], ew[e], Flip(p, v))]
           g == [e \in s.edges |-> IF e \in E THEN f[e] ELSE 0]
<1>1. /\ E \in SUBSET s.edges /\ IsFiniteSet(E) /\ IsFiniteSet(s.edges)
      /\ \A e \in s.edges : /\ s.pins[e] \in SUBSET Hypernode /\ IsFiniteSet(s.pins[e])
                            /\ ew[e] \in Nat /\ Parted(p, s.pins[e])
  BY NetListed
<1>2. ASSUME NEW e \in E PROVE z[e] \in Int /\ f[e] \in Int /\ h[e] = z[e] - f[e]
  <2>1. e \in s.edges /\ v \in s.pins[e] /\ ew[e] \in Nat
    BY <1>1 DEF Listed
  <2>2. NetGain(s.pins[e], ew[e], Flip(p, v), v) = - NetGain(s.pins[e], ew[e], p, v)
    BY <1>1, <2>1, NetNegates
  <2>3. NetGain(s.pins[e], ew[e], p, v) \in Int
    BY <2>1, NetGainTyped
  <2>4. f[e] = NetGain(s.pins[e], ew[e], p, v) /\ h[e] = - f[e] /\ z[e] = 0
    BY <2>2
  <2> HIDE DEF f, h, z
  <2> QED BY <2>3, <2>4
<1>3. Total(h, E) = - Total(f, E) /\ Total(f, E) \in Int
  <2>1. \A e \in E : z[e] = 0
    OBVIOUS
  <2> HIDE DEF f, h, z, E
  <2>2. Total(h, E) = Total(z, E) - Total(f, E)
    BY <1>1, <1>2, TotalDifference
  <2>3. Total(z, E) = 0
    BY <1>1, <2>1, TotalZero
  <2>4. \A e \in E : f[e] \in Int
    BY <1>2
  <2>5. Total(f, E) \in Int
    BY <1>1, <2>4, TotalStep
  <2> QED BY <2>2, <2>3, <2>5
<1>4. ASSUME NEW e \in s.edges PROVE c[e] \in Int /\ g[e] \in Int /\ d[e] = c[e] - g[e]
  <2>1. c[e] = NetCut(s.pins[e], ew[e], p) /\ d[e] = NetCut(s.pins[e], ew[e], Flip(p, v))
    OBVIOUS
  <2>2. c[e] \in Int
    <3>1. NetCut(s.pins[e], ew[e], p) \in Nat
      BY <1>1, NetGainTyped
    <3> QED BY <2>1, <3>1
  <2>3. CASE e \in E
    <3>1. v \in s.pins[e] /\ g[e] = NetGain(s.pins[e], ew[e], p, v)
      BY <2>3 DEF Listed
    <3>2. NetCut(s.pins[e], ew[e], Flip(p, v)) = NetCut(s.pins[e], ew[e], p) - NetGain(s.pins[e], ew[e], p, v)
      BY <1>1, <3>1, NetCutDelta
    <3>3. g[e] \in Int
      BY <1>2, <2>3
    <3> QED BY <2>1, <2>2, <3>1, <3>2, <3>3
  <2>4. CASE e \notin E
    <3>1. g[e] = 0 /\ v \notin s.pins[e]
      BY <2>4 DEF Listed
    <3>2. \A x \in s.pins[e] : Flip(p, v)[x] = p[x]
      <4>1. s.pins[e] \in SUBSET Hypernode /\ p \in [Hypernode -> Block \cup {NoBlock}]
        BY <1>1 DEF Parted
      <4> QED BY <3>1, <4>1 DEF Flip
    <3>3. d[e] = c[e]
      BY <2>1, <3>2 DEF NetCut, IsCut
    <3> HIDE DEF c, d, g
    <3> QED BY <2>2, <3>1, <3>3
  <2> QED BY <2>3, <2>4
<1>5. Total(d, s.edges) = Total(c, s.edges) - Total(g, s.edges) /\ Total(c, s.edges) \in Int
  <2> HIDE DEF c, d, g
  <2>1. Total(d, s.edges) = Total(c, s.edges) - Total(g, s.edges)
    BY <1>1, <1>4, TotalDifference
  <2>2. \A e \in s.edges : c[e] \in Int
    BY <1>4
  <2> QED BY <1>1, <2>1, <2>2, TotalStep
<1>6. Total(g, s.edges) = Total(f, E)
  <2>1. \A e \in E : g[e] \in Int /\ f[e] = g[e]
    BY <1>1, <1>4
  <2>2. \A e \in s.edges \ E : g[e] = 0
    OBVIOUS
  <2>3. \A e \in s.edges : g[e] \in Int
    BY <1>4
  <2> HIDE DEF c, d, g, f, E
  <2>4. Total(g, s.edges) = Total(g, E)
    BY <1>1, <2>2, <2>3, TotalOfOthers
  <2>5. Total(g, E) = Total(f, E)
    BY <1>1, <2>1, TotalEqual
  <2> QED BY <2>4, <2>5
<1> QED BY <1>3, <1>5, <1>6 DEF GainOf, CutOf
-----------------------------------------------------------------------------
(* Nets that return.                                                         *)

\* t is s with net e restored.
Returned(s, t, e) ==
  /\ e \in Hyperedge \ s.edges
  /\ s.pins[e] \subseteq s.nodes
  /\ t.nodes = s.nodes
  /\ t.edges = s.edges \cup {e}
  /\ t.pins = s.pins
  /\ \A v \in s.nodes : t.nets[v] = IF v \in s.pins[e] THEN s.nets[v] \cup {e} ELSE s.nets[v]

\* A net with a single pin pays nothing and promises nothing.
LEMMA SingleNet ==
  ASSUME NEW v, NEW w \in Nat, NEW p, p[v] \in Block
  PROVE  NetGain({v}, w, p, v) = 0 /\ NetCut({v}, w, p) = 0
<1>1. Other(p[v]) # p[v]
  BY OtherBlock
<1>2. In({v}, p, p[v]) = {v} /\ In({v}, p, Other(p[v])) = {}
  BY <1>1 DEF In
<1>3. ~ IsCut({v}, p)
  BY DEF IsCut
<1> QED BY <1>2, <1>3 DEF NetGain, NetCut

\* So its return changes neither gains nor cut.
LEMMA SingleReturned ==
  ASSUME NEW s, NEW t, NEW e, Listed(s), Returned(s, t, e), Cardinality(s.pins[e]) = 1,
         NEW ew, Weighted(ew), NEW p, Parted(p, s.nodes)
  PROVE  /\ \A v \in s.nodes : GainOf(t, ew, p, v) = GainOf(s, ew, p, v)
         /\ CutOf(t, ew, p) = CutOf(s, ew, p)
<1>1. /\ IsFiniteSet(s.edges) /\ IsFiniteSet(s.nodes)
      /\ \A x \in s.edges : /\ s.pins[x] \in SUBSET Hypernode /\ IsFiniteSet(s.pins[x])
                            /\ ew[x] \in Nat /\ Parted(p, s.pins[x])
      /\ \A v \in s.nodes : s.nets[v] \in SUBSET s.edges /\ IsFiniteSet(s.nets[v])
  BY NetListed
<1>2. e \in Hyperedge /\ e \notin s.edges /\ ew[e] \in Nat
  BY DEF Returned, Weighted
<1>3. PICK x \in s.nodes : s.pins[e] = {x}
  <2>1. s.pins[e] \subseteq s.nodes
    BY DEF Returned
  <2>2. IsFiniteSet(s.pins[e])
    BY <1>1, <2>1, FS_Subset
  <2>3. PICK x : s.pins[e] = {x}
    BY <2>2, FS_Singleton
  <2> QED BY <2>1, <2>3
<1>4. p[x] \in Block
  BY DEF Parted
<1>5. ASSUME NEW v \in s.nodes PROVE GainOf(t, ew, p, v) = GainOf(s, ew, p, v)
  <2> DEFINE S == s.nets[v]
             T == t.nets[v]
             f == [y \in T |-> NetGain(t.pins[y], ew[y], p, v)]
             g == [y \in S |-> NetGain(s.pins[y], ew[y], p, v)]
  <2>1. S \in SUBSET s.edges /\ IsFiniteSet(S) /\ T = (IF v = x THEN S \cup {e} ELSE S) /\ t.pins = s.pins
    BY <1>1, <1>3 DEF Returned
  <2>2. IsFiniteSet(T) /\ S \in SUBSET T
    BY <2>1, FS_AddElement
  <2>3. ASSUME NEW y \in T PROVE f[y] \in Int
    <3>1. ew[y] \in Nat
      BY <1>1, <1>2, <2>1
    <3> QED BY <3>1, NetGainTyped
  <2>4. ASSUME NEW y \in T \ S PROVE f[y] = 0
    <3>1. y = e /\ v = x
      BY <2>1
    <3>2. NetGain({x}, ew[e], p, x) = 0
      BY <1>2, <1>4, SingleNet
    <3> QED BY <1>3, <2>1, <3>1, <3>2
  <2>5. \A y \in S : f[y] \in Int /\ g[y] = f[y]
    BY <2>1, <2>2, <2>3
  <2>6. Total(f, T) = Total(g, S)
    <3> HIDE DEF f, g, S, T
    <3>1. Total(f, T) = Total(f, S)
      BY <2>2, <2>3, <2>4, TotalOfOthers
    <3>2. Total(f, S) = Total(g, S)
      BY <2>1, <2>5, TotalEqual
    <3> QED BY <3>1, <3>2
  <2> QED BY <2>6 DEF GainOf
<1>6. CutOf(t, ew, p) = CutOf(s, ew, p)
  <2> DEFINE S == s.edges
             T == t.edges
             f == [y \in T |-> NetCut(t.pins[y], ew[y], p)]
             g == [y \in S |-> NetCut(s.pins[y], ew[y], p)]
  <2>1. IsFiniteSet(S) /\ T = S \cup {e} /\ t.pins = s.pins
    BY <1>1 DEF Returned
  <2>2. IsFiniteSet(T) /\ S \in SUBSET T
    BY <2>1, FS_AddElement
  <2>3. ASSUME NEW y \in T PROVE f[y] \in Int
    <3>1. ew[y] \in Nat
      BY <1>1, <1>2, <2>1
    <3>2. NetCut(t.pins[y], ew[y], p) \in Nat
      BY <3>1, NetGainTyped
    <3> QED BY <3>2
  <2>4. ASSUME NEW y \in T \ S PROVE f[y] = 0
    <3>1. y = e
      BY <2>1
    <3>2. NetCut({x}, ew[e], p) = 0
      BY <1>2, <1>4, SingleNet
    <3> QED BY <1>3, <2>1, <3>1, <3>2
  <2>5. \A y \in S : f[y] \in Int /\ g[y] = f[y]
    BY <2>1, <2>2, <2>3
  <2>6. Total(f, T) = Total(g, S)
    <3> HIDE DEF f, g, S, T
    <3>1. Total(f, T) = Total(f, S)
      BY <2>2, <2>3, <2>4, TotalOfOthers
    <3>2. Total(f, S) = Total(g, S)
      BY <2>1, <2>5, TotalEqual
    <3> QED BY <3>1, <3>2
  <2> QED BY <2>6 DEF CutOf
<1> QED BY <1>5, <1>6

\* The weight of a net is split into that of two nets.
SplitWeight(ew, nw, rep, e) ==
  /\ nw[rep] + nw[e] = ew[rep]
  /\ \A x \in Hyperedge \ {rep, e} : nw[x] = ew[x]

\* The gain in a net is proportional to its weight.
LEMMA NetLinear ==
  ASSUME NEW S, NEW w \in Nat, NEW x \in Nat, NEW p, NEW v
  PROVE  NetGain(S, w, p, v) + NetGain(S, x, p, v) = NetGain(S, w + x, p, v)
<1> DEFINE A == In(S, p, p[v]) = {v}
           B == In(S, p, Other(p[v])) = {}
<1>1. \A y \in Nat : NetGain(S, y, p, v) = (IF A THEN y ELSE 0) - (IF B THEN y ELSE 0)
  BY DEF NetGain
<1>2. w + x \in Nat
  OBVIOUS
<1>3. NetGain(S, w, p, v) + NetGain(S, x, p, v) = NetGain(S, w + x, p, v)
  <2> HIDE DEF A, B
  <2>1. CASE A /\ B
    BY <1>1, <1>2, <2>1
  <2>2. CASE A /\ ~ B
    BY <1>1, <1>2, <2>2
  <2>3. CASE ~ A /\ B
    BY <1>1, <1>2, <2>3
  <2>4. CASE ~ A /\ ~ B
    BY <1>1, <1>2, <2>4
  <2> QED BY <2>1, <2>2, <2>3, <2>4
<1> QED BY <1>3

\* And so is the cut.
LEMMA NetCutLinear ==
  ASSUME NEW S, NEW w \in Nat, NEW x \in Nat, NEW p
  PROVE  NetCut(S, w, p) + NetCut(S, x, p) = NetCut(S, w + x, p)
<1>1. w + x \in Nat
  OBVIOUS
<1> QED BY <1>1 DEF NetCut

\* The return of a net to its parallel representative changes neither gains nor
\* cut.
LEMMA ParallelReturned ==
  ASSUME NEW s, NEW t, NEW e, Listed(s), Returned(s, t, e),
         NEW rep \in s.edges, s.pins[rep] = s.pins[e],
         NEW ew, Weighted(ew), NEW nw, Weighted(nw), SplitWeight(ew, nw, rep, e),
         NEW p, Parted(p, s.nodes)
  PROVE  /\ \A v \in s.nodes : GainOf(t, nw, p, v) = GainOf(s, ew, p, v)
         /\ CutOf(t, nw, p) = CutOf(s, ew, p)
<1>1. /\ IsFiniteSet(s.edges) /\ IsFiniteSet(s.nodes)
      /\ \A x \in s.edges : /\ s.pins[x] \in SUBSET Hypernode /\ IsFiniteSet(s.pins[x])
                            /\ ew[x] \in Nat /\ Parted(p, s.pins[x])
      /\ \A v \in s.nodes : s.nets[v] \in SUBSET s.edges /\ IsFiniteSet(s.nets[v])
  BY NetListed
<1>2. /\ e \in Hyperedge /\ e \notin s.edges /\ rep \in Hyperedge /\ rep # e
      /\ s.edges \in SUBSET Hyperedge /\ t.pins = s.pins
  BY DEF Returned, Listed
<1>3. nw[rep] \in Nat /\ nw[e] \in Nat /\ ew[rep] = nw[rep] + nw[e]
  BY <1>2 DEF SplitWeight, Weighted
<1>4. \A x \in s.edges \ {rep} : nw[x] = ew[x] /\ nw[x] \in Nat
  BY <1>1, <1>2 DEF SplitWeight
<1>5. ASSUME NEW v \in s.nodes PROVE GainOf(t, nw, p, v) = GainOf(s, ew, p, v)
  <2> DEFINE S == s.nets[v]
             T == t.nets[v]
             f == [y \in S |-> NetGain(s.pins[y], ew[y], p, v)]
             h == [y \in T |-> NetGain(t.pins[y], nw[y], p, v)]
  <2>1. S \in SUBSET s.edges /\ IsFiniteSet(S) /\ e \notin S
    BY <1>1, <1>2
  <2>2. \A y \in S : f[y] \in Int
    <3> SUFFICES ASSUME NEW y \in S PROVE f[y] \in Int
      OBVIOUS
    <3>1. ew[y] \in Nat
      BY <1>1, <2>1
    <3> QED BY <3>1, NetGainTyped
  <2>3. CASE v \in s.pins[e]
    <3>1. T = S \cup {e} /\ rep \in S
      BY <1>2, <2>3 DEF Returned, Listed
    <3>2. \A y \in S \ {rep} : h[y] = f[y]
      BY <1>2, <1>4, <2>1, <3>1
    <3>3. /\ h[rep] = NetGain(s.pins[rep], nw[rep], p, v) /\ h[e] = NetGain(s.pins[rep], nw[e], p, v)
          /\ f[rep] = NetGain(s.pins[rep], nw[rep] + nw[e], p, v)
      BY <1>2, <1>3, <3>1
    <3>4. h[rep] \in Int /\ h[e] \in Int
      BY <1>3, <3>3, NetGainTyped
    <3>5. h[rep] + h[e] = f[rep]
      BY <1>3, <3>3, NetLinear
    <3>6. Total(h, S \cup {e}) = Total(f, S)
      <4> HIDE DEF f, h, S, T
      <4>1. IsSplit(S, rep, e, f, h)
        BY <2>1, <2>2, <3>1, <3>2, <3>4, <3>5 DEF IsSplit
      <4> QED BY <2>1, <4>1, TotalSplit
    <3> QED BY <3>1, <3>6 DEF GainOf
  <2>4. CASE v \notin s.pins[e]
    <3>1. T = S /\ rep \notin S
      BY <1>2, <2>4 DEF Returned, Listed
    <3>2. \A y \in S : f[y] \in Int /\ h[y] = f[y]
      BY <1>2, <1>4, <2>1, <2>2, <3>1
    <3>3. Total(f, S) = Total(h, S)
      <4> HIDE DEF f, h, S, T
      <4> QED BY <2>1, <3>2, TotalEqual
    <3> QED BY <3>1, <3>3 DEF GainOf
  <2> QED BY <2>3, <2>4
<1>6. CutOf(t, nw, p) = CutOf(s, ew, p)
  <2> DEFINE S == s.edges
             T == t.edges
             f == [y \in S |-> NetCut(s.pins[y], ew[y], p)]
             h == [y \in T |-> NetCut(t.pins[y], nw[y], p)]
  <2>1. T = S \cup {e}
    BY DEF Returned
  <2>2. \A y \in S : f[y] \in Int
    <3> SUFFICES ASSUME NEW y \in S PROVE f[y] \in Int
      OBVIOUS
    <3>1. NetCut(s.pins[y], ew[y], p) \in Nat
      BY <1>1, NetGainTyped
    <3> QED BY <3>1
  <2>3. \A y \in S \ {rep} : h[y] = f[y]
    BY <1>2, <1>4, <2>1
  <2>4. /\ h[rep] = NetCut(s.pins[rep], nw[rep], p) /\ h[e] = NetCut(s.pins[rep], nw[e], p)
        /\ f[rep] = NetCut(s.pins[rep], nw[rep] + nw[e], p)
    BY <1>2, <1>3, <2>1
  <2>5. h[rep] \in Int /\ h[e] \in Int
    <3>1. NetCut(s.pins[rep], nw[rep], p) \in Nat /\ NetCut(s.pins[rep], nw[e], p) \in Nat
      BY <1>3, NetGainTyped
    <3> QED BY <2>4, <3>1
  <2>6. h[rep] + h[e] = f[rep]
    BY <1>3, <2>4, NetCutLinear
  <2>7. Total(h, S \cup {e}) = Total(f, S)
    <3>1. IsFiniteSet(S) /\ e \notin S /\ rep \in S
      BY <1>1, <1>2
    <3> HIDE DEF f, h, S, T
    <3>2. IsSplit(S, rep, e, f, h)
      BY <2>2, <2>3, <2>5, <2>6, <3>1 DEF IsSplit
    <3> QED BY <3>1, <3>2, TotalSplit
  <2> QED BY <2>1, <2>7 DEF CutOf
<1> QED BY <1>5, <1>6
-----------------------------------------------------------------------------
(* Contractions that are undone.                                             *)

\* What becomes of the pins S of a net: it has none of u and v, u alone stays,
\* v comes to u, or v takes the place of u.
CutOffPins(S, T, u, v) == u \in S /\ T = S \cup {v}
ReusedPins(S, T, u, v) == u \in S /\ T = (S \ {u}) \cup {v}
Inherited(p, u, v) == [p EXCEPT ![v] = p[u]]

UndonePins(S, T, u, v) == T = S \/ CutOffPins(S, T, u, v) \/ ReusedPins(S, T, u, v)

\* The pins of a net in block b, before and after.
BlockUndone(S, T, u, v, p, b) ==
  /\ T = S => In(T, Inherited(p, u, v), b) = In(S, p, b)
  /\ CutOffPins(S, T, u, v) => In(T, Inherited(p, u, v), b) = IF b = p[u] THEN In(S, p, b) \cup {v} ELSE In(S, p, b)
  /\ ReusedPins(S, T, u, v) => In(T, Inherited(p, u, v), b) =
       IF b = p[u] THEN (In(S, p, b) \ {u}) \cup {v} ELSE In(S, p, b)
  /\ u \in S => u \in In(S, p, p[u])
  /\ v \notin In(S, p, b)

\* A block gets the pin v, or gets it for u, if it is that of u.
LEMMA InUndone ==
  ASSUME NEW S \in SUBSET Hypernode, NEW T, NEW u \in Hypernode, NEW v \in Hypernode, v \notin S, u # v,
         NEW p, p \in [Hypernode -> Block \cup {NoBlock}], NEW b
  PROVE  BlockUndone(S, T, u, v, p, b)
<1>1. /\ \A x \in Hypernode \ {v} : Inherited(p, u, v)[x] = p[x]
      /\ Inherited(p, u, v)[v] = p[u]
  BY DEF Inherited
<1>2. \A x \in S : x \in Hypernode \ {v}
  OBVIOUS
<1>3. T = S => In(T, Inherited(p, u, v), b) = In(S, p, b)
  BY <1>1, <1>2 DEF In
<1>4. CutOffPins(S, T, u, v) => In(T, Inherited(p, u, v), b) = IF b = p[u] THEN In(S, p, b) \cup {v} ELSE In(S, p, b)
  BY <1>1, <1>2 DEF In, CutOffPins
<1>5. ReusedPins(S, T, u, v) => In(T, Inherited(p, u, v), b) =
        IF b = p[u] THEN (In(S, p, b) \ {u}) \cup {v} ELSE In(S, p, b)
  BY <1>1, <1>2 DEF In, ReusedPins
<1> QED BY <1>3, <1>4, <1>5 DEF In, BlockUndone

\* What is asked of the pins in a block is answered alike before and after, but
\* for u and v themselves.
UndoneIn(S, T, u, v, p) ==
  \A b \in Block :
    /\ In(T, Inherited(p, u, v), b) = {} <=> In(S, p, b) = {}
    /\ \A q \in S \ {u} : In(T, Inherited(p, u, v), b) = {q} <=> In(S, p, b) = {q}
    /\ T = S => In(T, Inherited(p, u, v), b) = In(S, p, b)
    /\ CutOffPins(S, T, u, v) /\ b = p[u] => /\ In(T, Inherited(p, u, v), b) = {u, v} <=> In(S, p, b) = {u}
                                             /\ In(T, Inherited(p, u, v), b) # {u}
                                             /\ In(T, Inherited(p, u, v), b) # {v}
    /\ ReusedPins(S, T, u, v) /\ b = p[u] => (In(T, Inherited(p, u, v), b) = {v} <=> In(S, p, b) = {u})

\* The five answers.
LEMMA UndoneInHolds ==
  ASSUME NEW S \in SUBSET Hypernode, NEW T, NEW u \in Hypernode, NEW v \in Hypernode, v \notin S, u # v,
         NEW p, p \in [Hypernode -> Block \cup {NoBlock}], UndonePins(S, T, u, v)
  PROVE  UndoneIn(S, T, u, v, p)
<1> SUFFICES ASSUME NEW b \in Block
             PROVE  /\ In(T, Inherited(p, u, v), b) = {} <=> In(S, p, b) = {}
                    /\ \A q \in S \ {u} : In(T, Inherited(p, u, v), b) = {q} <=> In(S, p, b) = {q}
                    /\ T = S => In(T, Inherited(p, u, v), b) = In(S, p, b)
                    /\ CutOffPins(S, T, u, v) /\ b = p[u] => /\ In(T, Inherited(p, u, v), b) = {u, v} <=> In(S, p, b) = {u}
                                                             /\ In(T, Inherited(p, u, v), b) # {u}
                                                             /\ In(T, Inherited(p, u, v), b) # {v}
                    /\ ReusedPins(S, T, u, v) /\ b = p[u] => (In(T, Inherited(p, u, v), b) = {v} <=> In(S, p, b) = {u})
  BY DEF UndoneIn
<1> DEFINE A == In(S, p, b)
           B == In(T, Inherited(p, u, v), b)
<1>1. /\ T = S => B = A
      /\ CutOffPins(S, T, u, v) => B = IF b = p[u] THEN A \cup {v} ELSE A
      /\ ReusedPins(S, T, u, v) => B = IF b = p[u] THEN (A \ {u}) \cup {v} ELSE A
      /\ u \in S => u \in In(S, p, p[u])
      /\ v \notin A
  <2>1. BlockUndone(S, T, u, v, p, b)
    BY InUndone
  <2> QED BY <2>1 DEF BlockUndone
<1>2. (CutOffPins(S, T, u, v) => u \in S) /\ (ReusedPins(S, T, u, v) => u \in S)
  BY DEF CutOffPins, ReusedPins
<1>3. (CutOffPins(S, T, u, v) \/ ReusedPins(S, T, u, v)) /\ b = p[u] => u \in A
  BY <1>1, <1>2
<1>4. T = S \/ CutOffPins(S, T, u, v) \/ ReusedPins(S, T, u, v)
  BY DEF UndonePins
<1>5. \A q \in S \ {u} : q # v /\ q # u
  OBVIOUS
<1> HIDE DEF A, B
<1>6. B = {} <=> A = {}
  BY <1>1, <1>3, <1>4
<1>7. \A q \in S \ {u} : B = {q} <=> A = {q}
  BY <1>1, <1>3, <1>4, <1>5
<1>8. CutOffPins(S, T, u, v) /\ b = p[u] => (B = {u, v} <=> A = {u}) /\ B # {u} /\ B # {v}
  BY <1>1, <1>3
<1>9. ReusedPins(S, T, u, v) /\ b = p[u] => (B = {v} <=> A = {u})
  BY <1>1, <1>3
<1> QED BY <1>1, <1>6, <1>7, <1>8, <1>9 DEF A, B

\* u loses what it won as the last of its block, when v comes to it; v has then
\* the gain of u, and takes it over with the net when it takes u's place.  All
\* other gains, and the cut, stay.
NetUndone(S, T, w, u, v, p) ==
  /\ \A q \in S \ {u} : NetGain(T, w, Inherited(p, u, v), q) = NetGain(S, w, p, q)
  /\ T = S /\ u \in S => NetGain(T, w, Inherited(p, u, v), u) = NetGain(S, w, p, u)
  /\ CutOffPins(S, T, u, v) =>
       /\ NetGain(T, w, Inherited(p, u, v), u)
            = NetGain(S, w, p, u) - (IF In(T, Inherited(p, u, v), p[u]) = {u, v} THEN w ELSE 0)
       /\ NetGain(T, w, Inherited(p, u, v), v) = NetGain(T, w, Inherited(p, u, v), u)
  /\ ReusedPins(S, T, u, v) => NetGain(T, w, Inherited(p, u, v), v) = NetGain(S, w, p, u)
  /\ NetCut(T, w, Inherited(p, u, v)) = NetCut(S, w, p)

\* All of this for one net.
LEMMA NetUndoneHolds ==
  ASSUME NEW S \in SUBSET Hypernode, NEW T, NEW w \in Nat,
         NEW u \in Hypernode, NEW v \in Hypernode, v \notin S, u # v,
         NEW p, Parted(p, S \cup {u}), UndonePins(S, T, u, v)
  PROVE  NetUndone(S, T, w, u, v, p)
<1> DEFINE pp == Inherited(p, u, v)
           b == p[u]
<1>1. p \in [Hypernode -> Block \cup {NoBlock}] /\ b \in Block /\ \A x \in S : p[x] \in Block
  BY DEF Parted
<1>2. UndoneIn(S, T, u, v, p)
  BY <1>1, UndoneInHolds
<1>3. (\A x \in Hypernode \ {v} : pp[x] = p[x]) /\ pp[v] = b /\ pp[u] = b
  BY <1>1 DEF Inherited
<1>4. ASSUME NEW q \in S \ {u} PROVE NetGain(T, w, pp, q) = NetGain(S, w, p, q)
  <2>1. pp[q] = p[q] /\ p[q] \in Block /\ Other(p[q]) \in Block
    BY <1>1, <1>3, OtherBlock
  <2> HIDE DEF pp
  <2>2. /\ In(T, pp, p[q]) = {q} <=> In(S, p, p[q]) = {q}
        /\ In(T, pp, Other(p[q])) = {} <=> In(S, p, Other(p[q])) = {}
    BY <1>2, <2>1 DEF UndoneIn, pp
  <2> QED BY <2>1, <2>2 DEF NetGain
<1>5. b \in Block /\ Other(b) \in Block
  BY <1>1, OtherBlock
<1>6. In(T, pp, Other(b)) = {} <=> In(S, p, Other(b)) = {}
  BY <1>2, <1>5 DEF UndoneIn
<1>7. ASSUME T = S, u \in S PROVE NetGain(T, w, pp, u) = NetGain(S, w, p, u)
  <2>1. In(T, pp, b) = In(S, p, b) /\ In(T, pp, Other(b)) = In(S, p, Other(b))
    BY <1>2, <1>5, <1>7 DEF UndoneIn
  <2> HIDE DEF pp
  <2> QED BY <1>3, <2>1 DEF NetGain
<1>8. ASSUME CutOffPins(S, T, u, v)
      PROVE  /\ NetGain(T, w, pp, u) = NetGain(S, w, p, u) - (IF In(T, pp, b) = {u, v} THEN w ELSE 0)
             /\ NetGain(T, w, pp, v) = NetGain(T, w, pp, u)
  <2>1. /\ In(T, pp, b) = {u, v} <=> In(S, p, b) = {u}
        /\ In(T, pp, b) # {u} /\ In(T, pp, b) # {v}
    BY <1>2, <1>5, <1>8 DEF UndoneIn
  <2>2. /\ NetGain(T, w, pp, u) = 0 - (IF In(T, pp, Other(b)) = {} THEN w ELSE 0)
        /\ NetGain(T, w, pp, v) = 0 - (IF In(T, pp, Other(b)) = {} THEN w ELSE 0)
    <3> HIDE DEF pp, b
    <3> QED BY <1>3, <2>1 DEF NetGain
  <2>3. NetGain(S, w, p, u) = (IF In(S, p, b) = {u} THEN w ELSE 0) - (IF In(S, p, Other(b)) = {} THEN w ELSE 0)
    BY DEF NetGain
  <2>4. NetGain(T, w, pp, v) = NetGain(T, w, pp, u)
    BY <2>2
  <2> DEFINE x == In(T, pp, b) = {u, v}
             y == In(T, pp, Other(b)) = {}
  <2>5. /\ NetGain(T, w, pp, u) = 0 - (IF y THEN w ELSE 0)
        /\ NetGain(S, w, p, u) = (IF x THEN w ELSE 0) - (IF y THEN w ELSE 0)
    BY <1>6, <2>1, <2>2, <2>3
  <2> HIDE DEF x, y, pp, b
  <2>6. NetGain(T, w, pp, u) = NetGain(S, w, p, u) - (IF x THEN w ELSE 0)
    <3>1. CASE x
      BY <2>5, <3>1
    <3>2. CASE ~ x
      BY <2>5, <3>2
    <3> QED BY <3>1, <3>2
  <2> QED BY <2>4, <2>6 DEF x
<1>9. ASSUME ReusedPins(S, T, u, v) PROVE NetGain(T, w, pp, v) = NetGain(S, w, p, u)
  <2>1. In(T, pp, b) = {v} <=> In(S, p, b) = {u}
    BY <1>2, <1>5, <1>9 DEF UndoneIn
  <2> HIDE DEF pp
  <2> QED BY <1>3, <1>6, <2>1 DEF NetGain
<1>10. NetCut(T, w, pp) = NetCut(S, w, p)
  <2>1. ASSUME NEW R, NEW r, \A x \in R : r[x] \in Block
        PROVE  IsCut(R, r) <=> In(R, r, b) # {} /\ In(R, r, Other(b)) # {}
    <3>1. \A x \in R : r[x] = b \/ r[x] = Other(b)
      BY <1>5, <2>1, OtherBlock
    <3>2. b # Other(b)
      BY <1>5, OtherBlock
    <3> HIDE DEF b
    <3> QED BY <3>1, <3>2 DEF IsCut, In
  <2>2. \A x \in T : pp[x] \in Block
    BY <1>1, <1>3 DEF UndonePins, CutOffPins, ReusedPins
  <2>3. In(T, pp, b) = {} <=> In(S, p, b) = {}
    BY <1>2, <1>5 DEF UndoneIn
  <2> HIDE DEF pp, b
  <2>4. IsCut(T, pp) <=> IsCut(S, p)
    BY <1>1, <1>6, <2>1, <2>2, <2>3
  <2> QED BY <2>4 DEF NetCut
<1> QED BY <1>4, <1>7, <1>8, <1>9, <1>10 DEF NetUndone

\* What a hypernode leaves with a net of two pins or more, read off pin count and
\* connectivity as uncontract does.
LostIn(w, c, b) == IF c.connectivity > 1 THEN (IF c.count[b] = 1 THEN w ELSE 0) ELSE - w

\* It is the gain it has in the net.
LEMMA NetLost ==
  ASSUME NEW T \in SUBSET Hypernode, Cardinality(T) > 1, NEW w \in Nat, NEW p, Parted(p, T),
         NEW x \in T, NEW c, \A b \in Block : c.count[b] = Cardinality(In(T, p, b)),
         c.connectivity > 1 <=> IsCut(T, p)
  PROVE  LostIn(w, c, p[x]) = NetGain(T, w, p, x)
<1> DEFINE b == p[x]
           A == In(T, p, b)
           B == In(T, p, Other(b))
<1>1. b \in Block /\ Other(b) \in Block /\ Other(b) # b
  BY OtherBlock DEF Parted
<1>2. T = A \cup B /\ A \cap B = {} /\ x \in A
  BY <1>1, InEither DEF In
<1>3. IsFiniteSet(A)
  <2>1. A \in SUBSET Hypernode
    BY <1>2
  <2> QED BY <2>1, HypergraphAssumption, FS_Subset
<1>4. c.count[b] = 1 <=> A = {x}
  BY <1>1, <1>2, <1>3, CountOne
<1>5. IsCut(T, p) <=> B # {}
  <2>1. \A y \in T : p[y] = b \/ p[y] = Other(b)
    BY <1>1, OtherBlock DEF Parted
  <2> HIDE DEF b
  <2> QED BY <1>1, <1>2, <2>1 DEF IsCut, In
<1>6. ~ (A = {x} /\ B = {})
  <2> SUFFICES ASSUME A = {x}, B = {} PROVE FALSE
    OBVIOUS
  <2>1. T = {x}
    BY <1>2
  <2>2. Cardinality({x}) = 1
    BY FS_Singleton
  <2> QED BY <2>1, <2>2
<1>7. NetGain(T, w, p, x) = (IF A = {x} THEN w ELSE 0) - (IF B = {} THEN w ELSE 0)
  BY DEF NetGain
<1>8. LostIn(w, c, b) = IF B # {} THEN (IF A = {x} THEN w ELSE 0) ELSE - w
  BY <1>4, <1>5 DEF LostIn
<1> HIDE DEF A, B, b
<1>9. LostIn(w, c, b) = NetGain(T, w, p, x)
  <2>1. CASE A = {x}
    BY <1>6, <1>7, <1>8, <2>1
  <2>2. CASE A # {x} /\ B = {}
    BY <1>7, <1>8, <2>2
  <2>3. CASE A # {x} /\ B # {}
    BY <1>7, <1>8, <2>3
  <2> QED BY <2>1, <2>2, <2>3
<1> QED BY <1>9 DEF b

\* What u pays when v comes to it.
TakenIn(w, c, b) == IF c.count[b] = 2 THEN w ELSE 0

\* t is s with the contraction of v into u undone, where v comes to the nets C
\* and takes the place of u in the nets R.
Undone(s, t, u, v, C, R) ==
  /\ u \in s.nodes /\ v \in Hypernode \ s.nodes
  /\ t.nodes = s.nodes \cup {v}
  /\ t.edges = s.edges
  /\ C \cup R = s.nets[u] \cap s.nets[v] /\ C \cap R = {}
  /\ \A e \in s.edges : t.pins[e] = IF e \in C THEN s.pins[e] \cup {v}
                                    ELSE IF e \in R THEN (s.pins[e] \ {u}) \cup {v}
                                    ELSE s.pins[e]
  /\ \A q \in s.nodes \ {u} : t.nets[q] = s.nets[q]
  /\ t.nets[u] = s.nets[u] \ R
  /\ t.nets[v] = s.nets[v]

\* No net of t has a single pin.
NoSinglePins(t) == \A e \in t.edges : Cardinality(t.pins[e]) > 1
Connects(t, np, p) == \A e \in t.edges : np[e].connectivity > 1 <=> IsCut(t.pins[e], p)

\* The nets of u and v, and what is known of each of them.
UndoneNet(s, t, u, v, C, R, ew, p, e) ==
  /\ s.pins[e] \in SUBSET Hypernode /\ t.pins[e] \in SUBSET Hypernode
  /\ v \notin s.pins[e] /\ ew[e] \in Nat
  /\ Parted(p, s.pins[e] \cup {u}) /\ Parted(Inherited(p, u, v), t.pins[e])
  /\ e \in C => CutOffPins(s.pins[e], t.pins[e], u, v)
  /\ e \in R => ReusedPins(s.pins[e], t.pins[e], u, v)
  /\ e \notin C \cup R => t.pins[e] = s.pins[e]
  /\ UndonePins(s.pins[e], t.pins[e], u, v)
  /\ e \in s.nets[u] <=> u \in s.pins[e]
  /\ NetUndone(s.pins[e], t.pins[e], ew[e], u, v, p)

\* All nets are like this, and the nets of v are those that it gets.
LEMMA NetsUndone ==
  ASSUME NEW s, NEW t, NEW u, NEW v, NEW C, NEW R, Listed(s), Listed(t), Undone(s, t, u, v, C, R),
         NEW ew, Weighted(ew), NEW p, Parted(p, s.nodes)
  PROVE  /\ \A e \in s.edges : UndoneNet(s, t, u, v, C, R, ew, p, e)
         /\ t.nets[v] = C \cup R
         /\ Parted(Inherited(p, u, v), t.nodes)
<1>1. /\ u \in s.nodes /\ u \in Hypernode /\ v \in Hypernode /\ v \notin s.nodes /\ u # v
      /\ C \subseteq s.edges /\ R \subseteq s.edges
  BY DEF Undone, Listed
<1>2. Parted(Inherited(p, u, v), t.nodes)
  <2>1. p \in [Hypernode -> Block \cup {NoBlock}] /\ p[u] \in Block
    BY <1>1 DEF Parted
  <2>2. t.nodes = s.nodes \cup {v}
    BY DEF Undone
  <2>3. Inherited(p, u, v) \in [Hypernode -> Block \cup {NoBlock}]
    BY <1>1, <2>1 DEF Inherited
  <2>4. \A x \in t.nodes : Inherited(p, u, v)[x] \in Block
    BY <1>1, <2>1, <2>2 DEF Inherited, Parted
  <2> QED BY <2>3, <2>4 DEF Parted
<1>3. ASSUME NEW e \in s.edges PROVE UndoneNet(s, t, u, v, C, R, ew, p, e)
  <2>1. /\ s.pins[e] \in SUBSET Hypernode /\ t.pins[e] \in SUBSET Hypernode
        /\ s.pins[e] \subseteq s.nodes /\ t.pins[e] \subseteq t.nodes
        /\ v \notin s.pins[e] /\ ew[e] \in Nat
    BY <1>1 DEF Listed, Weighted, Undone
  <2>2. Parted(p, s.pins[e] \cup {u}) /\ Parted(Inherited(p, u, v), t.pins[e])
    BY <1>1, <1>2, <2>1 DEF Parted
  <2>3. e \in s.nets[u] <=> u \in s.pins[e]
    BY <1>1 DEF Listed
  <2>4. /\ e \in C => CutOffPins(s.pins[e], t.pins[e], u, v)
        /\ e \in R => ReusedPins(s.pins[e], t.pins[e], u, v)
        /\ e \notin C \cup R => t.pins[e] = s.pins[e]
    BY <2>3 DEF Undone, CutOffPins, ReusedPins
  <2>5. UndonePins(s.pins[e], t.pins[e], u, v)
    BY <2>4 DEF UndonePins
  <2>6. NetUndone(s.pins[e], t.pins[e], ew[e], u, v, p)
    BY <1>1, <2>1, <2>2, <2>5, NetUndoneHolds
  <2> QED BY <2>1, <2>2, <2>3, <2>4, <2>5, <2>6 DEF UndoneNet
<1>4. t.nets[v] = C \cup R
  <2>1. \A e \in s.edges : v \in t.pins[e] <=> e \in C \cup R
    BY <1>1, <1>3 DEF UndoneNet, CutOffPins, ReusedPins
  <2>2. v \in t.nodes /\ t.edges = s.edges /\ s.edges \subseteq Hyperedge /\ t.nets[v] \subseteq Hyperedge
    BY <1>1 DEF Undone, Listed
  <2>3. \A e \in Hyperedge : e \in t.nets[v] <=> e \in s.edges /\ v \in t.pins[e]
    BY <2>2 DEF Listed
  <2> QED BY <1>1, <2>1, <2>2, <2>3
<1> QED BY <1>2, <1>3, <1>4

\* The gain of the other hypernodes, and the cut, stay.
LEMMA OthersUndone ==
  ASSUME NEW s, NEW t, NEW u, NEW v, NEW C, NEW R, Listed(s), Listed(t), Undone(s, t, u, v, C, R),
         NEW ew, Weighted(ew), NEW p, Parted(p, s.nodes)
  PROVE  /\ \A q \in s.nodes \ {u} : GainOf(t, ew, Inherited(p, u, v), q) = GainOf(s, ew, p, q)
         /\ CutOf(t, ew, Inherited(p, u, v)) = CutOf(s, ew, p)
<1>1. /\ IsFiniteSet(s.edges)
      /\ \A x \in s.edges : ew[x] \in Nat
      /\ \A q \in s.nodes : s.nets[q] \in SUBSET s.edges /\ IsFiniteSet(s.nets[q])
  BY NetListed
<1>2. \A e \in s.edges : UndoneNet(s, t, u, v, C, R, ew, p, e)
  BY NetsUndone
<1>3. ASSUME NEW q \in s.nodes \ {u} PROVE GainOf(t, ew, Inherited(p, u, v), q) = GainOf(s, ew, p, q)
  <2> DEFINE S == s.nets[q]
             f == [e \in S |-> NetGain(s.pins[e], ew[e], p, q)]
             h == [e \in S |-> NetGain(t.pins[e], ew[e], Inherited(p, u, v), q)]
  <2>1. ASSUME NEW e \in S PROVE f[e] \in Int /\ h[e] = f[e]
    <3>1. e \in s.edges /\ q \in s.pins[e] /\ ew[e] \in Nat
      BY <1>1 DEF Listed
    <3>2. NetGain(t.pins[e], ew[e], Inherited(p, u, v), q) = NetGain(s.pins[e], ew[e], p, q)
      BY <1>2, <3>1 DEF UndoneNet, NetUndone
    <3>3. NetGain(s.pins[e], ew[e], p, q) \in Int
      BY <3>1, NetGainTyped
    <3> QED BY <3>2, <3>3
  <2>2. IsFiniteSet(S) /\ t.nets[q] = S
    BY <1>1 DEF Undone
  <2>3. Total(f, S) = Total(h, S)
    <3> HIDE DEF f, h, S
    <3> QED BY <2>1, <2>2, TotalEqual
  <2> QED BY <2>2, <2>3 DEF GainOf
<1>4. CutOf(t, ew, Inherited(p, u, v)) = CutOf(s, ew, p)
  <2> DEFINE S == s.edges
             f == [e \in S |-> NetCut(s.pins[e], ew[e], p)]
             h == [e \in S |-> NetCut(t.pins[e], ew[e], Inherited(p, u, v))]
  <2>1. ASSUME NEW e \in S PROVE f[e] \in Int /\ h[e] = f[e]
    <3>1. NetCut(t.pins[e], ew[e], Inherited(p, u, v)) = NetCut(s.pins[e], ew[e], p)
      BY <1>2 DEF UndoneNet, NetUndone
    <3>2. NetCut(s.pins[e], ew[e], p) \in Nat
      BY <1>1, NetGainTyped
    <3> QED BY <3>1, <3>2
  <2>2. IsFiniteSet(S) /\ t.edges = S
    BY <1>1 DEF Undone
  <2>3. Total(f, S) = Total(h, S)
    <3> HIDE DEF f, h, S
    <3> QED BY <2>1, <2>2, TotalEqual
  <2> QED BY <2>2, <2>3 DEF CutOf
<1> QED BY <1>3, <1>4

\* The two sums of uncontract, from the pin counts after it.
TakenOf(ew, np, b, E) == Total([e \in E |-> TakenIn(ew[e], np[e], b)], E)
LostOf(ew, np, b, E) == Total([e \in E |-> LostIn(ew[e], np[e], b)], E)

\* The sum over some of the nets of a set, as one over all of them.
LEMMA TotalWithin ==
  ASSUME NEW E, IsFiniteSet(E), NEW A \in SUBSET E, NEW f, \A x \in A : f[x] \in Int
  PROVE  /\ Total([x \in E |-> IF x \in A THEN f[x] ELSE 0], E) = Total(f, A)
         /\ Total(f, A) \in Int
<1> DEFINE g == [x \in E |-> IF x \in A THEN f[x] ELSE 0]
<1>1. /\ \A x \in E : g[x] \in Int
      /\ \A x \in E \ A : g[x] = 0
      /\ \A x \in A : g[x] \in Int /\ f[x] = g[x]
  OBVIOUS
<1>2. IsFiniteSet(A)
  BY FS_Subset
<1> HIDE DEF g
<1>3. Total(g, E) = Total(g, A)
  BY <1>1, TotalOfOthers
<1>4. Total(g, A) = Total(f, A)
  BY <1>1, <1>2, TotalEqual
<1>5. Total(f, A) \in Int
  BY <1>2, TotalStep
<1> QED BY <1>3, <1>4, <1>5 DEF g

\* The gains of u and v in t are that of u in s, without what u pays for v and
\* without what it loses with the nets of v alone, and v with the nets of u alone.
PairGains(s, t, u, v, C, R, ew, p, np) ==
  /\ GainOf(t, ew, Inherited(p, u, v), u)
       = GainOf(s, ew, p, u) + (- TakenOf(ew, np, p[u], C) - LostOf(ew, np, p[u], R))
  /\ GainOf(t, ew, Inherited(p, u, v), v)
       = GainOf(s, ew, p, u) + (- TakenOf(ew, np, p[u], C) - LostOf(ew, np, p[u], s.nets[u] \ (C \cup R)))

\* What uncontract tells the gain cache of u and of v.
LEMMA PairUndone ==
  ASSUME NEW s, NEW t, NEW u, NEW v, NEW C, NEW R, Listed(s), Listed(t), Undone(s, t, u, v, C, R),
         NEW ew, Weighted(ew), NEW p, Parted(p, s.nodes), NoSinglePins(t),
         NEW np, Counted(t, np, Inherited(p, u, v)), Connects(t, np, Inherited(p, u, v))
  PROVE  PairGains(s, t, u, v, C, R, ew, p, np)
<1> DEFINE pp == Inherited(p, u, v)
           b == p[u]
           E == s.nets[u]
           O == E \ (C \cup R)
           taken == [e \in C |-> TakenIn(ew[e], np[e], b)]
           lostR == [e \in R |-> LostIn(ew[e], np[e], b)]
           lostO == [e \in O |-> LostIn(ew[e], np[e], b)]
           f == [e \in E |-> NetGain(s.pins[e], ew[e], p, u)]
           x == [e \in E |-> IF e \in C THEN taken[e] ELSE 0]
           y == [e \in E |-> IF e \in R THEN lostR[e] ELSE 0]
           z == [e \in E |-> IF e \in O THEN lostO[e] ELSE 0]
           gu == [e \in t.nets[u] |-> NetGain(t.pins[e], ew[e], pp, u)]
           gv == [e \in t.nets[v] |-> NetGain(t.pins[e], ew[e], pp, v)]
           GU == [e \in E |-> IF e \in t.nets[u] THEN gu[e] ELSE 0]
           GV == [e \in E |-> IF e \in t.nets[v] THEN gv[e] ELSE 0]
           D == [e \in E |-> f[e] - x[e]]
<1>1. /\ E \in SUBSET s.edges /\ IsFiniteSet(E) /\ u \in s.nodes /\ v \in Hypernode \ s.nodes
      /\ \A e \in s.edges : ew[e] \in Nat
  <2>1. u \in s.nodes /\ v \in Hypernode \ s.nodes
    BY DEF Undone
  <2> QED BY <2>1, NetListed
<1>2. /\ \A e \in s.edges : UndoneNet(s, t, u, v, C, R, ew, p, e)
      /\ t.nets[v] = C \cup R
  BY NetsUndone
<1>3. /\ C \in SUBSET E /\ R \in SUBSET E /\ O \in SUBSET E /\ C \cap R = {}
      /\ t.nets[u] = E \ R /\ t.nets[u] \in SUBSET E /\ t.nets[v] \in SUBSET E
      /\ b \in Block /\ pp[u] = b /\ pp[v] = b /\ u # v /\ t.edges = s.edges
  <2>1. u \in Hypernode /\ v \in Hypernode /\ u # v
    BY <1>1 DEF Listed
  <2>2. p \in [Hypernode -> Block \cup {NoBlock}] /\ b \in Block
    BY <1>1 DEF Parted
  <2>3. pp[u] = b /\ pp[v] = b
    BY <2>1, <2>2 DEF Inherited
  <2>4. C \in SUBSET E /\ R \in SUBSET E /\ O \in SUBSET E /\ C \cap R = {} /\ t.nets[u] = E \ R /\ t.edges = s.edges
    BY DEF Undone
  <2> QED BY <1>2, <2>1, <2>2, <2>3, <2>4
<1>4. ASSUME NEW e \in E
      PROVE  /\ ew[e] \in Nat /\ Cardinality(t.pins[e]) > 1
             /\ t.pins[e] \in SUBSET Hypernode /\ Parted(pp, t.pins[e])
             /\ \A c \in Block : np[e].count[c] = Cardinality(In(t.pins[e], pp, c))
             /\ np[e].connectivity > 1 <=> IsCut(t.pins[e], pp)
             /\ u \in s.pins[e]
             /\ UndoneNet(s, t, u, v, C, R, ew, p, e)
  BY <1>1, <1>2, <1>3 DEF NoSinglePins, Counted, Connects, UndoneNet
<1>5. ASSUME NEW e \in C
      PROVE  /\ taken[e] \in Int
             /\ NetGain(t.pins[e], ew[e], pp, u) = f[e] - taken[e]
             /\ NetGain(t.pins[e], ew[e], pp, v) = f[e] - taken[e]
  <2>0. e \in E /\ ew[e] \in Nat
    BY <1>3, <1>4
  <2>1. CutOffPins(s.pins[e], t.pins[e], u, v)
    BY <1>4, <2>0 DEF UndoneNet
  <2>2. /\ NetGain(t.pins[e], ew[e], pp, u) = f[e] - (IF In(t.pins[e], pp, b) = {u, v} THEN ew[e] ELSE 0)
        /\ NetGain(t.pins[e], ew[e], pp, v) = NetGain(t.pins[e], ew[e], pp, u)
    BY <1>4, <2>0, <2>1 DEF UndoneNet, NetUndone
  <2>3. np[e].count[b] = 2 <=> In(t.pins[e], pp, b) = {u, v}
    <3>1. np[e].count[b] = Cardinality(In(t.pins[e], pp, b))
      BY <1>3, <1>4, <2>0
    <3>2. u \in In(t.pins[e], pp, b) /\ v \in In(t.pins[e], pp, b)
      BY <1>3, <2>1 DEF CutOffPins, In
    <3>3. IsFiniteSet(In(t.pins[e], pp, b))
      <4>1. In(t.pins[e], pp, b) \in SUBSET Hypernode
        BY <1>4, <2>0 DEF In
      <4> QED BY <4>1, HypergraphAssumption, FS_Subset
    <3> HIDE DEF pp, b
    <3> QED BY <1>3, <3>1, <3>2, <3>3, CountTwo
  <2>4. taken[e] = IF In(t.pins[e], pp, b) = {u, v} THEN ew[e] ELSE 0
    BY <2>3 DEF TakenIn
  <2>5. taken[e] \in Int
    BY <2>0, <2>4
  <2> QED BY <2>2, <2>4, <2>5
<1>6. ASSUME NEW e \in R
      PROVE  lostR[e] = f[e] /\ NetGain(t.pins[e], ew[e], pp, v) = f[e]
  <2>0. e \in E /\ v \in t.pins[e]
    BY <1>3, <1>4 DEF UndoneNet, ReusedPins
  <2>1. NetGain(t.pins[e], ew[e], pp, v) = f[e]
    BY <1>4, <2>0 DEF UndoneNet, NetUndone
  <2>2. LostIn(ew[e], np[e], pp[v]) = NetGain(t.pins[e], ew[e], pp, v)
    BY <1>4, <2>0, NetLost
  <2> QED BY <1>3, <2>1, <2>2
<1>7. ASSUME NEW e \in O
      PROVE  lostO[e] = f[e] /\ NetGain(t.pins[e], ew[e], pp, u) = f[e]
  <2>0. e \in E /\ t.pins[e] = s.pins[e] /\ u \in t.pins[e]
    BY <1>3, <1>4 DEF UndoneNet
  <2>1. NetGain(t.pins[e], ew[e], pp, u) = f[e]
    BY <1>4, <2>0 DEF UndoneNet, NetUndone
  <2>2. LostIn(ew[e], np[e], pp[u]) = NetGain(t.pins[e], ew[e], pp, u)
    BY <1>4, <2>0, NetLost
  <2> QED BY <1>3, <2>1, <2>2
<1>8. ASSUME NEW e \in E PROVE f[e] \in Int
  <2>1. f[e] = NetGain(s.pins[e], ew[e], p, u) /\ ew[e] \in Nat
    BY <1>4
  <2> QED BY <2>1, NetGainTyped
<1>9. ASSUME NEW e \in E
      PROVE  /\ f[e] \in Int /\ x[e] \in Int /\ y[e] \in Int /\ z[e] \in Int /\ D[e] \in Int
             /\ D[e] = f[e] - x[e] /\ GU[e] = D[e] - y[e] /\ GV[e] = D[e] - z[e]
  <2>1. CASE e \in C
    <3>1. e \notin R /\ e \notin O /\ e \in t.nets[u] /\ e \in t.nets[v]
      BY <1>2, <1>3, <2>1
    <3>2. x[e] = taken[e] /\ y[e] = 0 /\ z[e] = 0 /\ D[e] = f[e] - taken[e]
      BY <2>1, <3>1
    <3>3. GU[e] = NetGain(t.pins[e], ew[e], pp, u) /\ GV[e] = NetGain(t.pins[e], ew[e], pp, v)
      BY <3>1
    <3> HIDE DEF f, x, y, z, D, GU, GV, taken
    <3> QED BY <1>5, <1>8, <2>1, <3>2, <3>3
  <2>2. CASE e \in R
    <3>1. e \notin C /\ e \notin O /\ e \notin t.nets[u] /\ e \in t.nets[v]
      BY <1>2, <1>3, <2>2
    <3>2. x[e] = 0 /\ y[e] = lostR[e] /\ z[e] = 0 /\ D[e] = f[e] - 0
      BY <2>2, <3>1
    <3>3. GU[e] = 0 /\ GV[e] = NetGain(t.pins[e], ew[e], pp, v)
      BY <3>1
    <3> HIDE DEF f, x, y, z, D, GU, GV, lostR
    <3> QED BY <1>6, <1>8, <2>2, <3>2, <3>3
  <2>3. CASE e \in O
    <3>1. e \notin C /\ e \notin R /\ e \in t.nets[u] /\ e \notin t.nets[v]
      BY <1>2, <1>3, <2>3
    <3>2. x[e] = 0 /\ y[e] = 0 /\ z[e] = lostO[e] /\ D[e] = f[e] - 0
      BY <2>3, <3>1
    <3>3. GU[e] = NetGain(t.pins[e], ew[e], pp, u) /\ GV[e] = 0
      BY <3>1
    <3> HIDE DEF f, x, y, z, D, GU, GV, lostO
    <3> QED BY <1>7, <1>8, <2>3, <3>2, <3>3
  <2> QED BY <2>1, <2>2, <2>3
<1>10. /\ Total(GU, E) = (Total(f, E) - Total(x, E)) - Total(y, E)
       /\ Total(GV, E) = (Total(f, E) - Total(x, E)) - Total(z, E)
       /\ Total(f, E) \in Int
  <2> HIDE DEF f, x, y, z, D, GU, GV, E
  <2>1. Total(D, E) = Total(f, E) - Total(x, E)
    BY <1>1, <1>9, TotalDifference
  <2>2. Total(GU, E) = Total(D, E) - Total(y, E)
    BY <1>1, <1>9, TotalDifference
  <2>3. Total(GV, E) = Total(D, E) - Total(z, E)
    BY <1>1, <1>9, TotalDifference
  <2>4. Total(f, E) \in Int
    <3>1. \A e \in E : f[e] \in Int
      BY <1>9
    <3> QED BY <1>1, <3>1, TotalStep
  <2> QED BY <2>1, <2>2, <2>3, <2>4
<1>11. /\ \A e \in C : taken[e] \in Int
       /\ \A e \in R : lostR[e] \in Int
       /\ \A e \in O : lostO[e] \in Int
       /\ \A e \in t.nets[u] : gu[e] \in Int
       /\ \A e \in t.nets[v] : gv[e] \in Int
  <2>1. \A e \in R : lostR[e] \in Int
    BY <1>3, <1>6, <1>8
  <2>2. \A e \in O : lostO[e] \in Int
    BY <1>3, <1>7, <1>8
  <2>3. ASSUME NEW e \in E PROVE NetGain(t.pins[e], ew[e], pp, u) \in Int /\ NetGain(t.pins[e], ew[e], pp, v) \in Int
    BY <1>4, NetGainTyped
  <2>4. \A e \in t.nets[u] : gu[e] \in Int
    BY <1>3, <2>3
  <2>5. \A e \in t.nets[v] : gv[e] \in Int
    BY <1>3, <2>3
  <2> QED BY <1>5, <2>1, <2>2, <2>4, <2>5
<1>12. Total(x, E) = Total(taken, C) /\ Total(taken, C) \in Int
  <2> HIDE DEF taken, E
  <2> QED BY <1>1, <1>3, <1>11, TotalWithin
<1>13. Total(y, E) = Total(lostR, R) /\ Total(lostR, R) \in Int
  <2> HIDE DEF lostR, E
  <2> QED BY <1>1, <1>3, <1>11, TotalWithin
<1>14. Total(z, E) = Total(lostO, O) /\ Total(lostO, O) \in Int
  <2> HIDE DEF lostO, E, O
  <2> QED BY <1>1, <1>3, <1>11, TotalWithin
<1>15. Total(GU, E) = Total(gu, t.nets[u])
  <2> HIDE DEF gu, E
  <2> QED BY <1>1, <1>3, <1>11, TotalWithin
<1>16. Total(GV, E) = Total(gv, t.nets[v])
  <2> HIDE DEF gv, E
  <2> QED BY <1>1, <1>3, <1>11, TotalWithin
<1>17. /\ GainOf(t, ew, pp, u) = Total(gu, t.nets[u])
       /\ GainOf(t, ew, pp, v) = Total(gv, t.nets[v])
       /\ GainOf(s, ew, p, u) = Total(f, E)
       /\ TakenOf(ew, np, b, C) = Total(taken, C)
       /\ LostOf(ew, np, b, R) = Total(lostR, R)
       /\ LostOf(ew, np, b, O) = Total(lostO, O)
  BY DEF GainOf, TakenOf, LostOf
<1>18. /\ GainOf(t, ew, pp, u) = GainOf(s, ew, p, u) + (- TakenOf(ew, np, b, C) - LostOf(ew, np, b, R))
       /\ GainOf(t, ew, pp, v) = GainOf(s, ew, p, u) + (- TakenOf(ew, np, b, C) - LostOf(ew, np, b, O))
  <2> HIDE DEF f, x, y, z, GU, GV, gu, gv, E, O, taken, lostR, lostO, pp, b
  <2> QED BY <1>10, <1>12, <1>13, <1>14, <1>15, <1>16, <1>17
<1> QED BY <1>18 DEF PairGains
-----------------------------------------------------------------------------
(* What TwoWayFM computes, in these terms.                                   *)

\* Gain and Cut are those of the partition when the pin counts are.
GainBy(s, ew, np, p, v) ==
  Total([e \in s.nets[v] |-> (IF np[e].count[p[v]] = 1 THEN ew[e] ELSE 0)
                             - (IF np[e].count[Other(p[v])] = 0 THEN ew[e] ELSE 0)], s.nets[v])
CutBy(s, ew, np) == Total([e \in s.edges |-> IF np[e].connectivity > 1 THEN ew[e] ELSE 0], s.edges)

\* Only their definitions are to be unfolded.
LEMMA GainDefined == (\A v : Gain(v) = GainBy(hg, edgeWeight, netPart, part, v)) /\ Cut = CutBy(hg, edgeWeight, netPart)
BY DEF Gain, Cut, GainBy, CutBy, SumOver, Total

\* Pin counts of one and of zero identify the pins.
LEMMA GainIs ==
  ASSUME NEW s, Listed(s), NEW ew, Weighted(ew), NEW p, Parted(p, s.nodes),
         NEW np, Counted(s, np, p), NEW v \in s.nodes
  PROVE  GainBy(s, ew, np, p, v) = GainOf(s, ew, p, v)
<1>1. /\ \A e \in s.edges : s.pins[e] \in SUBSET Hypernode /\ IsFiniteSet(s.pins[e]) /\ Parted(p, s.pins[e])
      /\ s.nets[v] \in SUBSET s.edges
  BY NetListed
<1>2. ASSUME NEW e \in s.nets[v]
      PROVE  /\ np[e].count[p[v]] = 1 <=> In(s.pins[e], p, p[v]) = {v}
             /\ np[e].count[Other(p[v])] = 0 <=> In(s.pins[e], p, Other(p[v])) = {}
  <2>1. e \in s.edges /\ v \in s.pins[e]
    BY <1>1 DEF Listed
  <2>2. p[v] \in Block /\ Other(p[v]) \in Block
    BY OtherBlock DEF Parted
  <2>3. /\ np[e].count[p[v]] = Cardinality(In(s.pins[e], p, p[v]))
        /\ np[e].count[Other(p[v])] = Cardinality(In(s.pins[e], p, Other(p[v])))
    BY <2>1, <2>2 DEF Counted
  <2>4. IsFiniteSet(In(s.pins[e], p, p[v])) /\ IsFiniteSet(In(s.pins[e], p, Other(p[v])))
    <3>1. \A b : In(s.pins[e], p, b) \in SUBSET s.pins[e]
      BY DEF In
    <3> QED BY <1>1, <2>1, <3>1, FS_Subset
  <2>5. v \in In(s.pins[e], p, p[v])
    BY <2>1 DEF In
  <2> QED BY <2>3, <2>4, <2>5, CountOne, CountNone
<1>3. [e \in s.nets[v] |-> (IF np[e].count[p[v]] = 1 THEN ew[e] ELSE 0)
                           - (IF np[e].count[Other(p[v])] = 0 THEN ew[e] ELSE 0)]
        = [e \in s.nets[v] |-> NetGain(s.pins[e], ew[e], p, v)]
  BY <1>2 DEF NetGain
<1> QED BY <1>3 DEF GainBy, GainOf

\* A net is cut if it connects two blocks.
LEMMA CutIs ==
  ASSUME NEW s, NEW ew, NEW p, NEW np, Connects(s, np, p)
  PROVE  CutBy(s, ew, np) = CutOf(s, ew, p)
<1>1. [e \in s.edges |-> IF np[e].connectivity > 1 THEN ew[e] ELSE 0]
        = [e \in s.edges |-> NetCut(s.pins[e], ew[e], p)]
  BY DEF Connects, NetCut
<1> QED BY <1>1 DEF CutBy, CutOf

\* The updates of the neighbours of v add up to what its move changes.
LEMMA DeltaIs ==
  ASSUME NEW v, NEW q, NEW E, NEW np
  PROVE  Delta(E, q, part[v], Other(part[v]), np) = DeltaOf(hg, edgeWeight, part, np, E, v, q)
<1> DEFINE shared == {e \in E : q \in hg.pins[e]}
<1>1. \A e : GainDelta(e, q, part[v], Other(part[v]), np[e].count)
               = PinDelta(hg.pins[e], edgeWeight[e], part, np[e].count, v, q)
  BY DEF GainDelta, PinDelta
<1>2. [e \in shared |-> GainDelta(e, q, part[v], Other(part[v]), np[e].count)]
        = [e \in shared |-> PinDelta(hg.pins[e], edgeWeight[e], part, np[e].count, v, q)]
  BY <1>1
<1>3. Delta(E, q, part[v], Other(part[v]), np)
        = Total([e \in shared |-> GainDelta(e, q, part[v], Other(part[v]), np[e].count)], shared)
  BY DEF Delta, SumOver, Total
<1> QED BY <1>2, <1>3 DEF DeltaOf, NetsShared

\* The gain changes of an uncontraction are the two sums.
LEMMA ChangesAre ==
  ASSUME NEW u, NEW v, NEW np
  PROVE  LET C == N!H!I!CutOffNets(hg, u, v)
             R == N!H!I!ReusedNets(hg, u, v)
             O == hg.nets[u] \ (C \cup R)
         IN GainChanges(u, v, np) =
              [representative |-> - TakenOf(edgeWeight, np, part[u], C) - LostOf(edgeWeight, np, part[u], R),
               partner        |-> - TakenOf(edgeWeight, np, part[u], C) - LostOf(edgeWeight, np, part[u], O)]
<1> DEFINE C == N!H!I!CutOffNets(hg, u, v)
           R == N!H!I!ReusedNets(hg, u, v)
           O == hg.nets[u] \ (C \cup R)
           single(e, n) == IF np[e].count[part[u]] = n THEN edgeWeight[e] ELSE 0
           lost(e) == IF np[e].connectivity > 1 THEN single(e, 1) ELSE - edgeWeight[e]
           taken == SumOver(C, [e \in C |-> single(e, 2)])
           without(E) == SumOver(E, [e \in E |-> lost(e)])
<1>1. GainChanges(u, v, np) = [representative |-> - taken - without(R), partner |-> - taken - without(O)]
  BY DEF GainChanges
<1>2. taken = TakenOf(edgeWeight, np, part[u], C)
  BY DEF TakenOf, TakenIn, SumOver, Total
<1>3. \A E : without(E) = LostOf(edgeWeight, np, part[u], E)
  BY DEF LostOf, LostIn, SumOver, Total
<1> HIDE DEF taken, without, C, R, O
<1>4. GainChanges(u, v, np) =
        [representative |-> - TakenOf(edgeWeight, np, part[u], C) - LostOf(edgeWeight, np, part[u], R),
         partner        |-> - TakenOf(edgeWeight, np, part[u], C) - LostOf(edgeWeight, np, part[u], O)]
  BY <1>1, <1>2, <1>3
<1> QED BY <1>4 DEF C, R, O
-----------------------------------------------------------------------------
(* What the uncoarsening hands to the search, at every level.                *)

\* The weights of the blocks of a partition.
Weights(s, p) == [b \in Block |-> Total(s.weight, {v \in s.nodes : p[v] = b})]

\* All that is kept about the partition is that of the partition.
PartitionExact ==
  /\ Parted(part, hg.nodes)
  /\ Counted(hg, netPart, part)
  /\ Connects(hg, netPart, part)
  /\ \A v \in hg.nodes : cutNets[v] = Cardinality({e \in hg.nets[v] : netPart[e].connectivity > 1})
  /\ block \in [Block -> [weight : Int, size : Int, fixedWeight : Int]]
  /\ WeightsOf(block) = Weights(hg, part)
  /\ hg.weight \in [Hypernode -> Nat]
  /\ Last(maxWeights).weight \in Nat

\* What is to be undone next is no part of the hypergraph.
LastLogged ==
  log # << >> =>
    /\ Last(log).op = "contract" => Last(log).u \in hg.nodes /\ Last(log).v \in Hypernode \ hg.nodes
    /\ Last(log).op = "remove" => Last(log).e \in Hyperedge \ hg.edges /\ hg.pins[Last(log).e] \subseteq hg.nodes

LevelExact ==
  /\ Listed(hg)
  /\ Weighted(edgeWeight)
  /\ phase = "refining" => PartitionExact
  /\ LastLogged
  /\ N!RestoresInReverse
-----------------------------------------------------------------------------
(* The inductive invariant of the search: the gains.                         *)

Stages == {"idle", "flow", "dictated", "refine", "moving", "rollback"}

SearchTyped ==
  /\ cache \in [Hypernode -> Int \cup {NotCached}]
  /\ delta \in [Hypernode -> Int]
  /\ changes \in [representative : Int, partner : Int]
  /\ moves \in Seq(Hypernode)
  /\ metrics \in [cut : Int, imbalance : Int]
  /\ search \in [stage : Stages, nodes : Seq(Hypernode), cut : Int, initialCut : Int, initialImbalance : Int,
                 best : Nat, cursor : Nat, iteration : Nat, dictated : SUBSET Hypernode]

\* The moves behind the best partition that are not undone yet, and the best
\* partition itself.
Ahead == {moves[i] : i \in search.best + 1 .. (IF search.stage = "moving" THEN Len(moves) ELSE search.cursor)}
BestPart == [v \in Hypernode |-> IF v \in Ahead THEN Other(part[v]) ELSE part[v]]

Searching == search.stage \in {"moving", "rollback"}

\* A search runs on a level that is restored, from two hypernodes of it, and
\* moves a hypernode at most once.
StagesKept ==
  /\ search.stage # "idle" =>
       /\ phase = "refining" /\ pc = "search"
       /\ Len(search.nodes) = 2 /\ search.nodes[1] # search.nodes[2]
       /\ search.nodes[1] \in hg.nodes /\ search.nodes[2] \in hg.nodes
  /\ Searching =>
       /\ search.best <= Len(moves)
       /\ \A i, j \in 1 .. Len(moves) : moves[i] = moves[j] => i = j
       /\ \A i \in 1 .. Len(moves) : moves[i] \in hg.nodes
  /\ search.stage = "rollback" => search.best <= search.cursor /\ search.cursor <= Len(moves)

\* The states of hypernodes tell what is queued and what has been moved.
StatesExact ==
  /\ state \in [Hypernode -> {"inactive", "active", "marked"}]
  /\ DOMAIN key = {v \in Hypernode : state[v] = "active"}
  /\ ToSet(moves) = {v \in Hypernode : state[v] = "marked"}
  /\ DOMAIN key \subseteq hg.nodes

\* The keys are the cached gains, of free border nodes only.
KeysExact == \A v \in DOMAIN key : key[v] = cache[v] /\ IsBorder(v) /\ ~ IsFixed(v)

\* The lock of a net tells into which blocks its moved pins went, and only nets
\* with a moved pin can be fully active.
LockOf(B) == IF B = {} THEN Free ELSE IF B = Block THEN Locked ELSE CHOOSE b \in Block : b \in B
MovedInto(p, M, S) == {p[v] : v \in M \cap S}
LocksExact ==
  /\ locks \in [Hyperedge -> Block \cup {Free, Locked}] /\ fullyActive \in SUBSET Hyperedge
  /\ \A e \in hg.edges : locks[e] = LockOf(MovedInto(part, ToSet(moves), hg.pins[e]))
  /\ \A e \in fullyActive : locks[e] # Free

\* The free border nodes around what has been moved.
NeighboursExact ==
  \A v \in ToSet(moves) : \A e \in hg.nets[v] : \A q \in hg.pins[e] :
    IsBorder(q) /\ ~ IsFixed(q) => q \in DOMAIN key \cup ToSet(moves)

\* The enabled queues.
QueuesEnabled ==
  /\ enabled \in SUBSET Block
  /\ \A b \in Block : b \in enabled <=> Queued(key, b) /\ block[b].weight < MaxAllowed(b)

QueueStates ==
  search.stage = "moving" => StatesExact /\ KeysExact /\ LocksExact /\ NeighboursExact /\ QueuesEnabled

Cached(values, s, ew, p) == \A v \in s.nodes : values[v] = GainOf(s, ew, p, v)

\* The cache has the gains of the present partition, and together with its deltas
\* those of the best one.
GainsKept ==
  phase = "refining" =>
    /\ \A v \in Hypernode \ hg.nodes : cache[v] = NotCached
    /\ search.stage \in {"idle", "dictated", "moving"} => Cached(cache, hg, edgeWeight, part)
    /\ search.stage \in {"flow", "refine"} =>
         Cached(Applied(search.nodes[1], search.nodes[2]), hg, edgeWeight, part)
    /\ Searching => Cached(RolledBack, hg, edgeWeight, BestPart)
    /\ ~ Searching => \A v \in Hypernode : delta[v] = 0

GainInv == SearchTyped /\ StagesKept /\ QueueStates /\ GainsKept
-----------------------------------------------------------------------------
(* Steps of the level below, as the search sees them.                        *)

\* Hypernode v moves.
Moves(v) ==
  /\ v \in hg.nodes /\ ~ IsFixed(v) /\ phase = "refining" /\ pc = "search"
  /\ part' = Flip(part, v)
  /\ UNCHANGED <<hg, log, phase, vcycle, edgeWeight, history, maxWeights, pc, cursor>>

\* This is what changeNodePart does to it.
LEMMA ChangeMoves ==
  ASSUME NEW v, N!ChangeNodePart(v, Other(part[v]))
  PROVE  Moves(v)
BY DEF N!ChangeNodePart, N!H!ChangeNodePart, Moves, Flip, N!H!IsFixed, IsFixed, N!loop, N!pruner

\* Gains and cut after a move are the old ones with the updates of the search.
LEMMA MoveGains ==
  ASSUME LevelExact, LevelExact', NEW v, Moves(v)
  PROVE  /\ GainOf(hg', edgeWeight', part', v) = - GainOf(hg, edgeWeight, part, v)
         /\ \A q \in hg.nodes \ {v} :
              /\ GainOf(hg', edgeWeight', part', q)
                   = GainOf(hg, edgeWeight, part, q) + Delta(hg.nets[v], q, part[v], Other(part[v]), netPart')
              /\ GainOf(hg, edgeWeight, part, q) \in Int
              /\ Delta(hg.nets[v], q, part[v], Other(part[v]), netPart') \in Int
         /\ CutOf(hg', edgeWeight', part') = CutOf(hg, edgeWeight, part) - GainOf(hg, edgeWeight, part, v)
         /\ GainOf(hg, edgeWeight, part, v) \in Int /\ CutOf(hg, edgeWeight, part) \in Int
<1>1. /\ v \in hg.nodes /\ hg' = hg /\ edgeWeight' = edgeWeight /\ part' = Flip(part, v)
      /\ phase = "refining" /\ phase' = "refining"
  BY DEF Moves
<1>2. Listed(hg) /\ Weighted(edgeWeight) /\ Parted(part, hg.nodes)
  BY <1>1 DEF LevelExact, PartitionExact
<1>3. Counted(hg, netPart', Flip(part, v))
  <2>1. Counted(hg', netPart', part')
    BY <1>1 DEF LevelExact, PartitionExact
  <2> QED BY <1>1, <2>1
<1>4. /\ GainOf(hg, edgeWeight, Flip(part, v), v) = - GainOf(hg, edgeWeight, part, v)
      /\ CutOf(hg, edgeWeight, Flip(part, v)) = CutOf(hg, edgeWeight, part) - GainOf(hg, edgeWeight, part, v)
      /\ GainOf(hg, edgeWeight, part, v) \in Int /\ CutOf(hg, edgeWeight, part) \in Int
  BY <1>1, <1>2, CutMoved
<1>5. ASSUME NEW q \in hg.nodes \ {v}
      PROVE  /\ GainOf(hg, edgeWeight, Flip(part, v), q)
                  = GainOf(hg, edgeWeight, part, q) + Delta(hg.nets[v], q, part[v], Other(part[v]), netPart')
             /\ GainOf(hg, edgeWeight, part, q) \in Int
             /\ Delta(hg.nets[v], q, part[v], Other(part[v]), netPart') \in Int
  <2>1. q \in hg.nodes /\ q # v
    OBVIOUS
  <2>2. /\ GainOf(hg, edgeWeight, Flip(part, v), q)
             = GainOf(hg, edgeWeight, part, q) + DeltaOf(hg, edgeWeight, part, netPart', hg.nets[v], v, q)
        /\ GainOf(hg, edgeWeight, part, q) \in Int /\ DeltaOf(hg, edgeWeight, part, netPart', hg.nets[v], v, q) \in Int
    BY <1>1, <1>2, <1>3, <2>1, GainsMoved
  <2>3. Delta(hg.nets[v], q, part[v], Other(part[v]), netPart')
          = DeltaOf(hg, edgeWeight, part, netPart', hg.nets[v], v, q)
    BY DeltaIs
  <2> QED BY <2>2, <2>3
<1> QED BY <1>1, <1>4, <1>5

\* What DictatedMove and Move do to the cache.
MovedCache(v) ==
  [q \in Hypernode |-> IF q = v THEN - cache[v]
                       ELSE IF cache[q] = NotCached THEN NotCached
                       ELSE cache[q] + Delta(hg.nets[v], q, part[v], Other(part[v]), netPart')]

\* It has the gains after the move.
LEMMA MoveCached ==
  ASSUME LevelExact, LevelExact', NEW v, Moves(v), Cached(cache, hg, edgeWeight, part), cache' = MovedCache(v)
  PROVE  Cached(cache', hg', edgeWeight', part')
<1>1. hg' = hg /\ v \in hg.nodes /\ hg.nodes \subseteq Hypernode
  BY DEF Moves, LevelExact, Listed
<1>2. SUFFICES ASSUME NEW q \in hg.nodes PROVE cache'[q] = GainOf(hg', edgeWeight', part', q)
  BY <1>1 DEF Cached
<1>3. CASE q = v
  <2>1. cache'[v] = - cache[v]
    BY <1>1 DEF MovedCache
  <2>2. cache[v] = GainOf(hg, edgeWeight, part, v)
    BY <1>1 DEF Cached
  <2> QED BY <1>3, <2>1, <2>2, MoveGains
<1>4. CASE q # v
  <2>1. cache[q] = GainOf(hg, edgeWeight, part, q)
    BY DEF Cached
  <2>2. /\ GainOf(hg', edgeWeight', part', q)
             = GainOf(hg, edgeWeight, part, q) + Delta(hg.nets[v], q, part[v], Other(part[v]), netPart')
        /\ GainOf(hg, edgeWeight, part, q) \in Int
    BY <1>4, MoveGains
  <2>3. cache[q] # NotCached /\ q \in Hypernode
    BY <1>1, <2>1, <2>2, NotCachedAssumption
  <2>4. cache'[q] = cache[q] + Delta(hg.nets[v], q, part[v], Other(part[v]), netPart')
    BY <1>4, <2>3 DEF MovedCache
  <2> QED BY <2>1, <2>2, <2>4
<1> QED BY <1>3, <1>4
-----------------------------------------------------------------------------
(* The steps that leave the gains alone.                                     *)

\* Gains and cut are numbers.
LEMMA GainTyped ==
  ASSUME NEW s, Listed(s), NEW ew, Weighted(ew), NEW p, Parted(p, s.nodes)
  PROVE  \A v \in s.nodes : GainOf(s, ew, p, v) \in Int /\ GainOf(s, ew, p, v) # NotCached
<1> SUFFICES ASSUME NEW v \in s.nodes
             PROVE  GainOf(s, ew, p, v) \in Int /\ GainOf(s, ew, p, v) # NotCached
  OBVIOUS
<1>1. GainOf(s, ew, p, v) \in Int
  BY CutMoved
<1> QED BY <1>1, NotCachedAssumption

\* metrics::imbalance takes the greater of two products.
LEMMA MaxOfBlocks ==
  ASSUME NEW f, \A b \in Block : f[b] \in Int
  PROVE  /\ \E b \in Block : Max({f[c] : c \in Block}) = f[b]
         /\ \A b \in Block : f[b] <= Max({f[c] : c \in Block})
<1>1. PICK a \in Block, b \in Block : Block = {a, b}
  <2>1. PICK a \in Block : TRUE
    BY TwoBlocks, FS_EmptySet
  <2> QED BY <2>1, TwoBlocks, HypergraphAssumption, TwoElements
<1>2. \E c \in Block : \A d \in Block : f[c] >= f[d]
  <2>1. CASE f[a] >= f[b]
    BY <1>1, <2>1
  <2>2. CASE ~ f[a] >= f[b]
    BY <1>1, <2>2
  <2> QED BY <2>1, <2>2
<1> DEFINE S == {f[c] : c \in Block}
<1>3. \E x \in S : \A y \in S : x >= y
  BY <1>2
<1>4. Max(S) = CHOOSE x \in S : \A y \in S : x >= y
  BY DEF Max
<1>5. Max(S) \in S /\ \A y \in S : Max(S) >= y
  BY <1>3, <1>4
<1>6. \A b1 \in Block : f[b1] \in S
  OBVIOUS
<1>7. \E b1 \in Block : Max(S) = f[b1]
  BY <1>5
<1>8. ASSUME NEW c \in Block PROVE f[c] <= Max(S)
  <2>1. f[c] \in Int /\ Max(S) \in Int
    BY <1>7
  <2> QED BY <1>5, <1>6, <2>1
<1> QED BY <1>7, <1>8

\* The imbalance and the metrics are numbers.
LEMMA ImbalanceTyped ==
  ASSUME NEW w \in [Block -> Int]
  PROVE  /\ Imbalance(w) \in Int
         /\ \E b \in Block : Imbalance(w) = w[b] * PerfectWeight[Other(b)]
         /\ \A b \in Block : w[b] * PerfectWeight[Other(b)] <= Imbalance(w)
<1> DEFINE f == [b \in Block |-> w[b] * PerfectWeight[Other(b)]]
<1>1. ASSUME NEW b \in Block PROVE f[b] \in Int
  <2>1. Other(b) \in Block
    BY OtherBlock
  <2>2. PerfectWeight[Other(b)] \in Int /\ w[b] \in Int
    BY <2>1, WeightsAssumption
  <2>3. w[b] * PerfectWeight[Other(b)] \in Int
    BY <2>2
  <2> QED BY <2>3
<1>2. Imbalance(w) = Max({f[c] : c \in Block})
  BY DEF Imbalance
<1>3. \A b \in Block : f[b] = w[b] * PerfectWeight[Other(b)]
  OBVIOUS
<1> HIDE DEF f
<1>4. /\ \E b \in Block : Imbalance(w) = f[b]
      /\ \A b \in Block : f[b] <= Imbalance(w)
  BY <1>1, <1>2, MaxOfBlocks
<1>5. Imbalance(w) \in Int
  BY <1>1, <1>4
<1> QED BY <1>3, <1>4, <1>5

\* The block weights of a partition are numbers.
LEMMA WeightsTyped ==
  ASSUME NEW s, Listed(s), s.weight \in [Hypernode -> Nat], NEW p
  PROVE  Weights(s, p) \in [Block -> Int]
<1> SUFFICES ASSUME NEW b \in Block PROVE Total(s.weight, {v \in s.nodes : p[v] = b}) \in Int
  BY DEF Weights
<1> DEFINE S == {v \in s.nodes : p[v] = b}
<1>1. S \subseteq Hypernode
  BY DEF Listed
<1>2. IsFiniteSet(S) /\ \A v \in S : s.weight[v] \in Int
  BY <1>1, HypergraphAssumption, FS_Subset
<1>3. Total(s.weight, S) \in Int
  <2> HIDE DEF S
  <2> QED BY <1>2, TotalStep
<1> QED BY <1>3

\* metrics::hyperedgeCut is the cut of the partition.
LEMMA CutTyped ==
  ASSUME Listed(hg), Weighted(edgeWeight), Parted(part, hg.nodes), Connects(hg, netPart, part)
  PROVE  Cut = CutOf(hg, edgeWeight, part) /\ Cut \in Int
<1>1. Cut = CutOf(hg, edgeWeight, part)
  BY GainDefined, CutIs
<1>2. \A e \in hg.edges : NetCut(hg.pins[e], edgeWeight[e], part) \in Int
  <2>1. \A e \in hg.edges : edgeWeight[e] \in Nat
    BY NetListed
  <2> QED BY <2>1 DEF NetCut
<1>3. IsFiniteSet(hg.edges)
  BY NetListed
<1> DEFINE f == [e \in hg.edges |-> NetCut(hg.pins[e], edgeWeight[e], part)]
<1>4. \A e \in hg.edges : f[e] \in Int
  BY <1>2
<1>5. Total(f, hg.edges) \in Int
  <2> HIDE DEF f
  <2> QED BY <1>3, <1>4, TotalStep
<1> QED BY <1>1, <1>5 DEF CutOf

\* The metrics of the present partition are numbers.
LEMMA MetricsTyped ==
  ASSUME Listed(hg), Weighted(edgeWeight), PartitionExact
  PROVE  [cut |-> Cut, imbalance |-> Imbalance(WeightsOf(block))] \in [cut : Int, imbalance : Int]
<1>1. Cut \in Int
  BY CutTyped DEF PartitionExact
<1>2. Imbalance(WeightsOf(block)) \in Int
  <2>1. Weights(hg, part) \in [Block -> Int]
    BY WeightsTyped DEF PartitionExact
  <2> QED BY <2>1, ImbalanceTyped DEF PartitionExact
<1> QED BY <1>1, <1>2

\* Initially no gain is cached.
LEMMA GainInit ==
  ASSUME Init
  PROVE  GainInv
<1>1. phase = "coarsening"
  BY DEF Init, N!Init, N!H!Init
<1>2. SearchTyped
  <2>1. moves \in Seq(Hypernode) /\ << >> \in Seq(Hypernode)
    BY DEF Init
  <2> QED BY <2>1 DEF Init, SearchTyped, NoSearch, NoChanges, Stages
<1> QED BY <1>1, <1>2 DEF GainInv, StagesKept, QueueStates, GainsKept, Init, NoSearch, Searching

\* Where no search runs and the partition of the level is not used, there is
\* nothing to keep.
LEMMA OutsideKept ==
  ASSUME GainInv, UNCHANGED <<members, changes, metrics, search>>, phase' # "refining", search.stage = "idle"
  PROVE  GainInv'
<1>1. UNCHANGED <<cache, delta, key, enabled, state, locks, fullyActive, moves, changes, metrics, search>>
  BY DEF members, gains, queue
<1>2. SearchTyped'
  BY <1>1 DEF GainInv, SearchTyped
<1> QED BY <1>1, <1>2 DEF GainInv, StagesKept, QueueStates, GainsKept, Searching

\* Coarsening, initial partitioning and the begin of a V-cycle.
LEMMA CoarseningKeeps ==
  ASSUME GainInv, Coarsening
  PROVE  GainInv'
<1>1. phase' # "refining"
  BY DEF Coarsening, N!PerformContraction, N!H!Contract, N!RemoveSingle, N!RemoveParallel, N!H!RemoveEdge,
         N!SetNodePart, N!H!SetNodePart, N!StartVCycle, N!H!StartVCycle
<1>2. phase # "refining" \/ search.stage = "idle"
  BY DEF Coarsening, N!PerformContraction, N!H!Contract, N!RemoveSingle, N!RemoveParallel, N!H!RemoveEdge,
         N!SetNodePart, N!H!SetNodePart
<1>3. search.stage = "idle"
  BY <1>2 DEF GainInv, StagesKept
<1>4. UNCHANGED <<members, changes, metrics, search>>
  BY DEF Coarsening
<1> QED BY <1>1, <1>3, <1>4, OutsideKept

\* The restoration of nets: the gains stay those of the partition.
LEMMA SameGains ==
  ASSUME GainInv, UNCHANGED <<members, changes, metrics, search>>, search.stage = "idle",
         hg'.nodes = hg.nodes, phase' = phase,
         phase = "refining" =>
           \A v \in hg.nodes : GainOf(hg', edgeWeight', part', v) = GainOf(hg, edgeWeight, part, v)
  PROVE  GainInv'
<1>1. UNCHANGED <<cache, delta, key, enabled, state, locks, fullyActive, moves, changes, metrics, search>>
  BY DEF members, gains, queue
<1>2. SearchTyped'
  BY <1>1 DEF GainInv, SearchTyped
<1>3. GainsKept'
  <2> SUFFICES ASSUME phase' = "refining" PROVE GainsKept'
    BY DEF GainsKept
  <2>1. Cached(cache, hg, edgeWeight, part)
    BY DEF GainInv, GainsKept
  <2>2. Cached(cache', hg', edgeWeight', part')
    BY <1>1, <2>1 DEF Cached
  <2>3. /\ \A v \in Hypernode \ hg'.nodes : cache'[v] = NotCached
        /\ \A v \in Hypernode : delta'[v] = 0
    BY <1>1 DEF GainInv, GainsKept, Searching
  <2> QED BY <1>1, <2>2, <2>3 DEF GainsKept, Searching
<1> QED BY <1>1, <1>2, <1>3 DEF GainInv, StagesKept, QueueStates, Searching

\* A step that leaves the level alone and only goes on to its next part.
LEMMA LevelKept ==
  ASSUME GainInv, UNCHANGED <<members, changes, metrics, search>>, search.stage = "idle",
         UNCHANGED <<hg, edgeWeight, part, phase>>
  PROVE  GainInv'
BY SameGains

\* The last element is the same to all modules.
LEMMA LastAlike == \A s : N!Last(s) = Last(s) /\ N!H!Last(s) = Last(s) /\ N!H!I!Last(s) = Last(s)
BY DEF Last, N!Last, N!H!Last, N!H!I!Last

\* And so is the size of a set.
LEMMA SizeAlike == \A S : N!H!Cardinality(S) = Cardinality(S)
BY Zenon DEF Cardinality, N!H!Cardinality

\* A restored net is one that had been removed.
LEMMA EdgeReturned ==
  ASSUME LevelExact, N!H!I!RestoreEdge
  PROVE  Returned(hg, hg', Last(log).e) /\ hg'.nodes = hg.nodes
<1> DEFINE e == Last(log).e
<1>1. log # << >> /\ Last(log).op = "remove" /\ hg' = N!H!I!Restored(hg, e)
  BY LastAlike DEF N!H!I!RestoreEdge, N!H!I!Undoes
<1>2. e \in Hyperedge \ hg.edges /\ hg.pins[e] \subseteq hg.nodes /\ hg.nodes \subseteq Hypernode
  BY <1>1 DEF LevelExact, LastLogged, Listed
<1> HIDE DEF e
<1>3. /\ hg'.nodes = hg.nodes /\ hg'.edges = hg.edges \cup {e} /\ hg'.pins = hg.pins
      /\ \A v \in hg.nodes : hg'.nets[v] = IF v \in hg.pins[e] THEN hg.nets[v] \cup {e} ELSE hg.nets[v]
  BY <1>1, <1>2 DEF N!H!I!Restored
<1>4. Returned(hg, hg', e)
  BY <1>2, <1>3 DEF Returned
<1> QED BY <1>3, <1>4 DEF e

\* A restored parallel net takes its weight back from its representative.
LEMMA ParallelKeeps ==
  ASSUME LevelExact, LevelExact', N!RestoreParallel
  PROVE  /\ \A v \in hg.nodes : GainOf(hg', edgeWeight', part', v) = GainOf(hg, edgeWeight, part, v)
         /\ CutOf(hg', edgeWeight', part') = CutOf(hg, edgeWeight, part)
         /\ part' = part /\ hg'.nodes = hg.nodes /\ phase = "refining" /\ phase' = "refining"
<1> DEFINE rep == removedParallel[cursor].representative
           e == Last(log).e
<1>1. /\ N!H!RestoreParallelEdge(rep) /\ edgeWeight' = N!Split(rep, removedParallel[cursor].removed)
      /\ pc = "parallel" /\ cursor > Last(history).parallelBegin
  BY LastAlike DEF N!RestoreParallel
<1>2. removedParallel[cursor].removed = e
  BY <1>1, LastAlike DEF LevelExact, N!RestoresInReverse
<1>3. /\ N!H!I!RestoreEdge /\ N!H!Parallel(e, rep) /\ part' = part
      /\ phase = "refining" /\ phase' = "refining"
  BY <1>1, LastAlike DEF N!H!RestoreParallelEdge
<1>4. Listed(hg) /\ Weighted(edgeWeight) /\ Weighted(edgeWeight') /\ Parted(part, hg.nodes)
  BY <1>3 DEF LevelExact, PartitionExact
<1>5. Returned(hg, hg', e) /\ hg'.nodes = hg.nodes
  BY <1>3, EdgeReturned
<1>6. rep \in hg.edges /\ rep # e /\ hg.pins[rep] = hg.pins[e]
  BY <1>3 DEF N!H!Parallel
<1>7. rep \in Hyperedge /\ e \in Hyperedge /\ edgeWeight' = [edgeWeight EXCEPT ![rep] = @ - edgeWeight[e]]
  BY <1>1, <1>2, <1>4, <1>5, <1>6 DEF N!Split, Returned, Listed
<1> HIDE DEF rep, e
<1>8. SplitWeight(edgeWeight, edgeWeight', rep, e)
  <2>1. edgeWeight[rep] \in Nat /\ edgeWeight[e] \in Nat
    BY <1>4, <1>7 DEF Weighted
  <2>2. edgeWeight'[rep] = edgeWeight[rep] - edgeWeight[e] /\ edgeWeight'[e] = edgeWeight[e]
    BY <1>4, <1>6, <1>7 DEF Weighted
  <2>3. \A x \in Hyperedge \ {rep, e} : edgeWeight'[x] = edgeWeight[x]
    BY <1>4, <1>7 DEF Weighted
  <2> QED BY <2>1, <2>2, <2>3 DEF SplitWeight
<1>9. /\ \A v \in hg.nodes : GainOf(hg', edgeWeight', part, v) = GainOf(hg, edgeWeight, part, v)
      /\ CutOf(hg', edgeWeight', part) = CutOf(hg, edgeWeight, part)
  BY <1>4, <1>5, <1>6, <1>8, ParallelReturned
<1> QED BY <1>3, <1>5, <1>9

\* A restored net of a single pin has no part in gains and cut.
LEMMA SingleKeeps ==
  ASSUME LevelExact, N!RestoreSingle
  PROVE  /\ \A v \in hg.nodes : GainOf(hg', edgeWeight', part', v) = GainOf(hg, edgeWeight, part, v)
         /\ CutOf(hg', edgeWeight', part') = CutOf(hg, edgeWeight, part)
         /\ part' = part /\ hg'.nodes = hg.nodes /\ phase = "refining" /\ phase' = "refining"
<1>1. /\ N!H!I!RestoreEdge /\ Cardinality(hg.pins[Last(log).e]) = 1 /\ part' = part /\ edgeWeight' = edgeWeight
      /\ phase = "refining" /\ phase' = "refining"
  <2>1. N!H!RestoreEdge /\ edgeWeight' = edgeWeight
    BY DEF N!RestoreSingle
  <2>2. /\ phase = "refining" /\ N!H!I!RestoreEdge /\ N!H!Cardinality(hg.pins[N!H!Last(log).e]) = 1
        /\ phase' = phase /\ part' = part
    BY <2>1 DEF N!H!RestoreEdge
  <2> QED BY <2>1, <2>2, LastAlike, SizeAlike
<1>2. Listed(hg) /\ Weighted(edgeWeight) /\ Parted(part, hg.nodes)
  BY <1>1 DEF LevelExact, PartitionExact
<1>3. Returned(hg, hg', Last(log).e) /\ hg'.nodes = hg.nodes
  BY <1>1, EdgeReturned
<1>4. /\ \A v \in hg.nodes : GainOf(hg', edgeWeight, part, v) = GainOf(hg, edgeWeight, part, v)
      /\ CutOf(hg', edgeWeight, part) = CutOf(hg, edgeWeight, part)
  BY <1>1, <1>2, <1>3, SingleReturned
<1> QED BY <1>1, <1>3, <1>4

\* The steps of a level before its uncontraction.
LEMMA RestoreKeeps ==
  ASSUME GainInv, LevelExact, LevelExact', RestoreNets
  PROVE  GainInv'
<1>1. search.stage = "idle" /\ UNCHANGED <<members, changes, metrics, search>>
  BY DEF RestoreNets
<1>2. CASE N!BeginLevel \/ N!ParallelRestored
  <2>1. UNCHANGED <<hg, edgeWeight, part, phase>>
    BY <1>2 DEF N!BeginLevel, N!ParallelRestored, N!hypergraph
  <2> QED BY <1>1, <2>1, LevelKept
<1>3. CASE N!RestoreParallel
  BY <1>1, <1>3, ParallelKeeps, SameGains
<1>4. CASE N!RestoreSingle
  BY <1>1, <1>4, SingleKeeps, SameGains
<1> QED BY <1>2, <1>3, <1>4 DEF RestoreNets
-----------------------------------------------------------------------------
(* The uncontraction, and what is done with its gain changes.                *)

\* What the uncontraction does to the level.
LEMMA UncontractUndoes ==
  ASSUME LevelExact, Uncontract
  PROVE  LET u == Last(history).u
             v == Last(history).v
         IN /\ Undone(hg, hg', u, v, N!H!I!CutOffNets(hg, u, v), N!H!I!ReusedNets(hg, u, v))
            /\ part' = Inherited(part, u, v) /\ edgeWeight' = edgeWeight
            /\ u # v /\ u \in hg.nodes /\ v \in Hypernode \ hg.nodes /\ hg'.nodes = hg.nodes \cup {v}
            /\ phase = "refining" /\ phase' = "refining" /\ pc = "single" /\ pc' = "search"
<1> DEFINE u == Last(history).u
           v == Last(history).v
           C == N!H!I!CutOffNets(hg, u, v)
           R == N!H!I!ReusedNets(hg, u, v)
<1>1. /\ pc = "single" /\ pc' = "search" /\ edgeWeight' = edgeWeight
      /\ cursor = N!Last(history).singleBegin /\ N!H!Uncontract
  BY DEF Uncontract, N!Uncontract
<1>2. /\ N!H!Last(log).op = "contract"
      /\ N!H!Last(log).u = u /\ N!H!Last(log).v = v
  BY <1>1, LastAlike DEF LevelExact, N!RestoresInReverse
<1>3. /\ N!H!I!Uncontract /\ part' = N!H!InheritedPart(u, v)
      /\ phase = "refining" /\ phase' = "refining"
  <2>1. /\ N!H!I!Uncontract /\ part' = N!H!InheritedPart(N!H!Last(log).u, N!H!Last(log).v)
        /\ phase = "refining" /\ phase' = "refining"
    BY <1>1 DEF N!H!Uncontract
  <2> QED BY <1>2, <2>1
<1>4. log # << >> /\ Last(log).op = "contract" /\ hg' = N!H!I!Uncontracted(hg, u, v)
  BY <1>2, <1>3, LastAlike DEF N!H!I!Uncontract, N!H!I!Undoes
<1>5. u \in hg.nodes /\ v \in Hypernode \ hg.nodes /\ u # v /\ Listed(hg) /\ u \in Hypernode
  BY <1>2, <1>4, LastAlike DEF LevelExact, LastLogged, Listed
<1>6. part' = Inherited(part, u, v)
  BY <1>3 DEF N!H!InheritedPart, Inherited
<1> HIDE DEF u, v
<1>7. Undone(hg, hg', u, v, C, R) /\ hg'.nodes = hg.nodes \cup {v}
  <2>1. C \cup R = hg.nets[u] \cap hg.nets[v] /\ C \cap R = {}
    BY DEF N!H!I!CutOffNets, N!H!I!ReusedNets
  <2> HIDE DEF C, R
  <2>2. /\ hg'.nodes = hg.nodes \cup {v} /\ hg'.edges = hg.edges
        /\ hg'.pins = [e \in Hyperedge |-> IF e \in C THEN hg.pins[e] \cup {v}
                                           ELSE IF e \in R THEN (hg.pins[e] \ {u}) \cup {v}
                                           ELSE hg.pins[e]]
        /\ hg'.nets = [hg.nets EXCEPT ![u] = @ \ R]
    BY <1>4 DEF N!H!I!Uncontracted, C, R
  <2>3. \A e \in hg.edges : e \in Hyperedge
    BY <1>5 DEF Listed
  <2>4. hg.nets \in [Hypernode -> SUBSET Hyperedge] /\ hg.nodes \subseteq Hypernode
    BY <1>5 DEF Listed
  <2> QED BY <1>5, <2>1, <2>2, <2>3, <2>4 DEF Undone
<1> QED BY <1>1, <1>3, <1>5, <1>6, <1>7 DEF u, v

\* Its gain changes are numbers.
LEMMA ChangesTyped ==
  ASSUME NEW ew, Weighted(ew), NEW np, NEW b, NEW E \in SUBSET Hyperedge
  PROVE  TakenOf(ew, np, b, E) \in Int /\ LostOf(ew, np, b, E) \in Int
<1> DEFINE taken == [e \in E |-> TakenIn(ew[e], np[e], b)]
           lost == [e \in E |-> LostIn(ew[e], np[e], b)]
<1>1. IsFiniteSet(E)
  BY HypergraphAssumption, FS_Subset
<1>2. \A e \in E : taken[e] \in Int
  BY DEF TakenIn, Weighted
<1>3. \A e \in E : lost[e] \in Int
  BY DEF LostIn, Weighted
<1>4. Total(taken, E) \in Int
  <2> HIDE DEF taken
  <2> QED BY <1>1, <1>2, TotalStep
<1>5. Total(lost, E) \in Int
  <2> HIDE DEF lost
  <2> QED BY <1>1, <1>3, TotalStep
<1> QED BY <1>4, <1>5 DEF TakenOf, LostOf

\* The gains of the two after the uncontraction differ from that of u before by
\* the gain changes, all others stay.
LEMMA UncontractGains ==
  ASSUME LevelExact, LevelExact', Uncontract, NoSinglePins(hg')
  PROVE  LET u == Last(history).u
             v == Last(history).v
         IN /\ \A q \in hg.nodes \ {u} : GainOf(hg', edgeWeight', part', q) = GainOf(hg, edgeWeight, part, q)
            /\ GainOf(hg', edgeWeight', part', u) = GainOf(hg, edgeWeight, part, u) + changes'.representative
            /\ GainOf(hg', edgeWeight', part', v) = GainOf(hg, edgeWeight, part, u) + changes'.partner
            /\ CutOf(hg', edgeWeight', part') = CutOf(hg, edgeWeight, part)
            /\ changes' \in [representative : Int, partner : Int]
<1> DEFINE u == Last(history).u
           v == Last(history).v
           C == N!H!I!CutOffNets(hg, u, v)
           R == N!H!I!ReusedNets(hg, u, v)
           O == hg.nets[u] \ (C \cup R)
<1>1. /\ Undone(hg, hg', u, v, C, R) /\ part' = Inherited(part, u, v) /\ edgeWeight' = edgeWeight
      /\ u \in hg.nodes /\ v \in Hypernode \ hg.nodes /\ hg'.nodes = hg.nodes \cup {v}
      /\ phase = "refining" /\ phase' = "refining"
  BY UncontractUndoes
<1>2. changes' = GainChanges(u, v, netPart')
  BY DEF Uncontract
<1>3. changes' = [representative |-> - TakenOf(edgeWeight, netPart', part[u], C) - LostOf(edgeWeight, netPart', part[u], R),
                  partner        |-> - TakenOf(edgeWeight, netPart', part[u], C) - LostOf(edgeWeight, netPart', part[u], O)]
  BY <1>2, ChangesAre
<1>4. Listed(hg) /\ Listed(hg') /\ Weighted(edgeWeight) /\ Parted(part, hg.nodes)
  BY <1>1 DEF LevelExact, PartitionExact
<1>5. Counted(hg', netPart', Inherited(part, u, v)) /\ Connects(hg', netPart', Inherited(part, u, v))
  <2>1. Counted(hg', netPart', part') /\ Connects(hg', netPart', part')
    BY <1>1 DEF LevelExact, PartitionExact
  <2> QED BY <1>1, <2>1
<1> HIDE DEF u, v, C, R
<1>6. /\ \A q \in hg.nodes \ {u} : GainOf(hg', edgeWeight, Inherited(part, u, v), q) = GainOf(hg, edgeWeight, part, q)
      /\ CutOf(hg', edgeWeight, Inherited(part, u, v)) = CutOf(hg, edgeWeight, part)
  BY <1>1, <1>4, OthersUndone
<1>7. /\ GainOf(hg', edgeWeight, Inherited(part, u, v), u) = GainOf(hg, edgeWeight, part, u) + changes'.representative
      /\ GainOf(hg', edgeWeight, Inherited(part, u, v), v) = GainOf(hg, edgeWeight, part, u) + changes'.partner
  <2>1. /\ GainOf(hg', edgeWeight, Inherited(part, u, v), u)
             = GainOf(hg, edgeWeight, part, u)
               + (- TakenOf(edgeWeight, netPart', part[u], C) - LostOf(edgeWeight, netPart', part[u], R))
        /\ GainOf(hg', edgeWeight, Inherited(part, u, v), v)
             = GainOf(hg, edgeWeight, part, u)
               + (- TakenOf(edgeWeight, netPart', part[u], C) - LostOf(edgeWeight, netPart', part[u], O))
    <3>1. /\ Undone(hg, hg', u, v, C, R) /\ Listed(hg) /\ Listed(hg') /\ Weighted(edgeWeight)
          /\ Parted(part, hg.nodes) /\ NoSinglePins(hg')
          /\ Counted(hg', netPart', Inherited(part, u, v)) /\ Connects(hg', netPart', Inherited(part, u, v))
      BY <1>1, <1>4, <1>5
    <3>2. PairGains(hg, hg', u, v, C, R, edgeWeight, part, netPart')
      BY <3>1, PairUndone
    <3> QED BY <3>2 DEF PairGains
  <2>2. /\ changes'.representative
             = - TakenOf(edgeWeight, netPart', part[u], C) - LostOf(edgeWeight, netPart', part[u], R)
        /\ changes'.partner
             = - TakenOf(edgeWeight, netPart', part[u], C) - LostOf(edgeWeight, netPart', part[u], O)
    BY <1>3
  <2> QED BY <2>1, <2>2
<1>8. changes' \in [representative : Int, partner : Int]
  <2>1. /\ TakenOf(edgeWeight, netPart', part[u], C) \in Int
        /\ LostOf(edgeWeight, netPart', part[u], R) \in Int
        /\ LostOf(edgeWeight, netPart', part[u], O) \in Int
    <3>1. C \in SUBSET Hyperedge /\ R \in SUBSET Hyperedge /\ O \in SUBSET Hyperedge
      BY <1>1, <1>4 DEF Undone, Listed
    <3> HIDE DEF O
    <3> QED BY <1>4, <3>1, ChangesTyped
  <2> HIDE DEF O
  <2> QED BY <1>3, <2>1
<1> QED BY <1>1, <1>6, <1>7, <1>8 DEF u, v

\* The uncontraction leaves the search with a cache that lacks its gain changes.
LEMMA UncontractKeeps ==
  ASSUME GainInv, LevelExact, LevelExact', Uncontract, NoSinglePins(hg')
  PROVE  GainInv'
<1> DEFINE u == Last(history).u
           v == Last(history).v
<1>1. /\ part' = Inherited(part, u, v)
      /\ u # v /\ u \in hg.nodes /\ v \in Hypernode \ hg.nodes /\ hg'.nodes = hg.nodes \cup {v}
      /\ phase = "refining" /\ phase' = "refining" /\ pc = "single" /\ pc' = "search"
  BY UncontractUndoes
<1>2. /\ \A q \in hg.nodes \ {u} : GainOf(hg', edgeWeight', part', q) = GainOf(hg, edgeWeight, part, q)
      /\ GainOf(hg', edgeWeight', part', u) = GainOf(hg, edgeWeight, part, u) + changes'.representative
      /\ GainOf(hg', edgeWeight', part', v) = GainOf(hg, edgeWeight, part, u) + changes'.partner
      /\ changes' \in [representative : Int, partner : Int]
  BY UncontractGains
<1>3. /\ search' = [NoSearch EXCEPT !.stage = "flow", !.nodes = <<u, v>>]
      /\ UNCHANGED <<cache, delta, key, enabled, state, moves, metrics>>
  BY DEF Uncontract, members, gains, queue
<1>4. search.stage = "idle" /\ hg.nodes \subseteq Hypernode
  BY <1>1 DEF GainInv, StagesKept, LevelExact, Listed
<1> HIDE DEF u, v
<1>5. search'.stage = "flow" /\ search'.nodes = <<u, v>> /\ search'.dictated = {}
  BY <1>3 DEF NoSearch
<1>6. SearchTyped'
  <2>1. <<u, v>> \in Seq(Hypernode)
    BY <1>1, <1>4
  <2>2. search' \in [stage : Stages, nodes : Seq(Hypernode), cut : Int, initialCut : Int, initialImbalance : Int,
                     best : Nat, cursor : Nat, iteration : Nat, dictated : SUBSET Hypernode]
    <3>1. search' = [stage |-> "flow", nodes |-> <<u, v>>, cut |-> 0, initialCut |-> 0,
                     initialImbalance |-> 0, best |-> 0, cursor |-> 0, iteration |-> 0, dictated |-> {}]
      BY <1>3 DEF NoSearch
    <3> QED BY <2>1, <3>1 DEF Stages
  <2> QED BY <1>2, <1>3, <2>2 DEF GainInv, SearchTyped
<1>7. StagesKept'
  BY <1>1, <1>5 DEF StagesKept, Searching
<1>8. QueueStates'
  BY <1>5 DEF QueueStates
<1>9. GainsKept'
  <2>1. /\ \A q \in Hypernode \ hg.nodes : cache[q] = NotCached
        /\ \A q \in hg.nodes : cache[q] = GainOf(hg, edgeWeight, part, q)
        /\ \A q \in Hypernode : delta[q] = 0
    BY <1>1, <1>4 DEF GainInv, GainsKept, Searching, Cached
  <2>2. \A q \in hg.nodes : GainOf(hg, edgeWeight, part, q) # NotCached
    BY <1>1, GainTyped DEF LevelExact, PartitionExact
  <2>3. cache'[v] = NotCached /\ cache'[u] # NotCached
    BY <1>1, <1>3, <2>1, <2>2
  <2>4. Applied(search.nodes[1], search.nodes[2])'
          = [cache' EXCEPT ![v] = cache'[u] + changes'.partner, ![u] = cache'[u] + changes'.representative]
    BY <1>5, <2>3 DEF Applied
  <2>5. cache' \in [Hypernode -> Int \cup {NotCached}] /\ u \in Hypernode /\ v \in Hypernode
    BY <1>1, <1>4, <1>6 DEF SearchTyped
  <2>6. \A q \in hg'.nodes : Applied(search.nodes[1], search.nodes[2])'[q] = GainOf(hg', edgeWeight', part', q)
    BY <1>1, <1>2, <1>3, <1>4, <2>1, <2>4, <2>5
  <2>7. Cached(Applied(search.nodes[1], search.nodes[2])', hg', edgeWeight', part')
    BY <2>6 DEF Cached
  <2>8. \A q \in Hypernode \ hg'.nodes : cache'[q] = NotCached
    BY <1>1, <1>3, <2>1
  <2>9. \A q \in Hypernode : delta'[q] = 0
    BY <1>3, <2>1
  <2> QED BY <1>5, <2>7, <2>8, <2>9 DEF GainsKept, Searching
<1> QED BY <1>6, <1>7, <1>8, <1>9 DEF GainInv
-----------------------------------------------------------------------------
(* Flow refinement and its moves.                                            *)

\* A cache in which both hypernodes of the level have a gain needs no gain changes.
LEMMA AppliedTwice ==
  ASSUME NEW u, NEW v, cache[v] # NotCached
  PROVE  Applied(u, v) = cache
BY DEF Applied

\* What is applied is a cache.
LEMMA AppliedTyped ==
  ASSUME SearchTyped, NEW u \in hg.nodes, NEW v \in hg.nodes, hg.nodes \subseteq Hypernode,
         \A x \in Hypernode \ hg.nodes : cache[x] = NotCached
  PROVE  /\ Applied(u, v) \in [Hypernode -> Int \cup {NotCached}]
         /\ \A x \in Hypernode \ hg.nodes : Applied(u, v)[x] = NotCached
<1>1. /\ cache \in [Hypernode -> Int \cup {NotCached}]
      /\ changes.representative \in Int /\ changes.partner \in Int
      /\ u \in Hypernode /\ v \in Hypernode
  BY DEF SearchTyped
<1>2. CASE cache[v] = NotCached /\ cache[u] # NotCached
  <2>1. cache[u] \in Int
    BY <1>1, <1>2
  <2>2. cache[u] + changes.partner \in Int /\ cache[u] + changes.representative \in Int
    BY <1>1, <2>1
  <2>3. Applied(u, v) = [cache EXCEPT ![v] = cache[u] + changes.partner, ![u] = cache[u] + changes.representative]
    BY <1>2 DEF Applied
  <2> QED BY <1>1, <2>2, <2>3
<1>3. CASE ~ (cache[v] = NotCached /\ cache[u] # NotCached)
  BY <1>1, <1>3 DEF Applied
<1> QED BY <1>2, <1>3

\* A step of the search that leaves the level alone and goes to another stage.
LEMMA SkipFlowKeeps ==
  ASSUME GainInv, SkipFlow
  PROVE  GainInv'
<1>1. /\ search.stage = "flow" /\ search' = [search EXCEPT !.stage = "refine"]
      /\ UNCHANGED <<hg, phase, pc, part, edgeWeight, cache, delta, key, state, moves, changes, metrics>>
  BY DEF SkipFlow, level, members, gains, queue
<1>2. SearchTyped'
  BY <1>1 DEF GainInv, SearchTyped, Stages
<1>3. search'.stage = "refine" /\ search'.nodes = search.nodes
  BY <1>1 DEF GainInv, SearchTyped
<1>4. StagesKept'
  BY <1>1, <1>3 DEF GainInv, StagesKept, Searching
<1>5. GainsKept'
  <2>1. Applied(search.nodes[1], search.nodes[2])' = Applied(search.nodes[1], search.nodes[2])
    BY <1>1, <1>3 DEF Applied
  <2>2. Cached(Applied(search.nodes[1], search.nodes[2])', hg', edgeWeight', part')
    BY <1>1, <2>1 DEF GainInv, GainsKept, Cached, StagesKept
  <2> QED BY <1>1, <1>3, <2>2 DEF GainInv, GainsKept, Searching
<1> QED BY <1>2, <1>3, <1>4, <1>5 DEF GainInv, QueueStates

\* The flow refiner applies the gain changes before it repeats its moves.
LEMMA BeginDictatedKeeps ==
  ASSUME GainInv, LevelExact, BeginDictated
  PROVE  GainInv'
<1>1. /\ search.stage = "flow" /\ search' = [search EXCEPT !.stage = "dictated"]
      /\ cache' = Applied(search.nodes[1], search.nodes[2]) /\ changes' = NoChanges
      /\ UNCHANGED <<hg, phase, pc, part, edgeWeight, delta, key, state, moves, metrics>>
  BY DEF BeginDictated, level, queue
<1>2. /\ search'.stage = "dictated" /\ search'.nodes = search.nodes
      /\ search' \in [stage : Stages, nodes : Seq(Hypernode), cut : Int, initialCut : Int, initialImbalance : Int,
                      best : Nat, cursor : Nat, iteration : Nat, dictated : SUBSET Hypernode]
  BY <1>1 DEF GainInv, SearchTyped, Stages
<1>3. /\ phase = "refining" /\ search.nodes[1] \in hg.nodes /\ search.nodes[2] \in hg.nodes
  BY <1>1 DEF GainInv, StagesKept
<1>4. /\ Applied(search.nodes[1], search.nodes[2]) \in [Hypernode -> Int \cup {NotCached}]
      /\ \A x \in Hypernode \ hg.nodes : Applied(search.nodes[1], search.nodes[2])[x] = NotCached
  <2>1. SearchTyped /\ hg.nodes \subseteq Hypernode /\ \A x \in Hypernode \ hg.nodes : cache[x] = NotCached
    BY <1>3 DEF GainInv, GainsKept, LevelExact, Listed
  <2> QED BY <1>3, <2>1, AppliedTyped
<1>5. SearchTyped'
  <2>1. changes' \in [representative : Int, partner : Int]
    BY <1>1 DEF NoChanges
  <2>2. cache' \in [Hypernode -> Int \cup {NotCached}] /\ delta' = delta /\ moves' = moves /\ metrics' = metrics
    BY <1>1, <1>4
  <2> QED BY <1>2, <2>1, <2>2 DEF GainInv, SearchTyped
<1>6. StagesKept'
  BY <1>1, <1>2 DEF GainInv, StagesKept, Searching
<1>7. GainsKept'
  <2>1. Cached(cache', hg', edgeWeight', part')
    BY <1>1, <1>3 DEF GainInv, GainsKept, Cached
  <2> QED BY <1>1, <1>2, <1>3, <1>4, <2>1 DEF GainInv, GainsKept, Searching
<1> QED BY <1>2, <1>5, <1>6, <1>7 DEF GainInv, QueueStates

\* The delta of a hypernode is a number.
LEMMA DeltaTyped ==
  ASSUME Listed(hg), Weighted(edgeWeight), NEW v \in Hypernode, NEW q, NEW np
  PROVE  Delta(hg.nets[v], q, part[v], Other(part[v]), np) \in Int
<1> DEFINE shared == NetsShared(hg, hg.nets[v], q)
           d == [e \in shared |-> PinDelta(hg.pins[e], edgeWeight[e], part, np[e].count, v, q)]
<1>1. shared \in SUBSET Hyperedge
  BY DEF Listed, NetsShared
<1>2. IsFiniteSet(shared)
  BY <1>1, HypergraphAssumption, FS_Subset
<1>3. ASSUME NEW e \in shared PROVE d[e] \in Int
  <2>1. edgeWeight[e] \in Nat
    BY <1>1 DEF Weighted
  <2> QED BY <2>1, PinDeltaTyped
<1>4. Total(d, shared) \in Int
  <2> HIDE DEF d, shared
  <2> QED BY <1>2, <1>3, TotalStep
<1> QED BY <1>4, DeltaIs DEF DeltaOf

\* A moved cache is a cache.
LEMMA MovedTyped ==
  ASSUME LevelExact, SearchTyped, NEW v \in hg.nodes, Cached(cache, hg, edgeWeight, part), PartitionExact,
         \A x \in Hypernode \ hg.nodes : cache[x] = NotCached
  PROVE  /\ MovedCache(v) \in [Hypernode -> Int \cup {NotCached}]
         /\ \A x \in Hypernode \ hg.nodes : MovedCache(v)[x] = NotCached
         /\ cache[v] \in Int
<1>1. Listed(hg) /\ Weighted(edgeWeight) /\ Parted(part, hg.nodes) /\ v \in Hypernode
  BY DEF LevelExact, PartitionExact, Listed
<1>2. cache[v] \in Int
  BY <1>1, GainTyped DEF Cached
<1>3. \A q \in Hypernode : Delta(hg.nets[v], q, part[v], Other(part[v]), netPart') \in Int
  BY <1>1, DeltaTyped
<1>4. cache \in [Hypernode -> Int \cup {NotCached}]
  BY DEF SearchTyped
<1>5. \A q \in Hypernode : MovedCache(v)[q] \in Int \cup {NotCached}
  BY <1>2, <1>3, <1>4 DEF MovedCache
<1> QED BY <1>2, <1>5 DEF MovedCache

\* One of the moves of the flow.
LEMMA DictatedMoveKeeps ==
  ASSUME GainInv, LevelExact, LevelExact', NEW v \in Hypernode, DictatedMove(v)
  PROVE  GainInv'
<1>1. /\ search.stage = "dictated" /\ search' = [search EXCEPT !.dictated = @ \cup {v}]
      /\ N!ChangeNodePart(v, Other(part[v]))
      /\ cache' = MovedCache(v)
      /\ UNCHANGED <<delta, key, state, moves, changes, metrics>>
  BY DEF DictatedMove, queue, MovedCache
<1>2. /\ search'.stage = "dictated" /\ search'.nodes = search.nodes
      /\ search' \in [stage : Stages, nodes : Seq(Hypernode), cut : Int, initialCut : Int, initialImbalance : Int,
                      best : Nat, cursor : Nat, iteration : Nat, dictated : SUBSET Hypernode]
  BY <1>1 DEF GainInv, SearchTyped, Stages
<1>3. Moves(v)
  BY <1>1, ChangeMoves
<1>4. v \in hg.nodes /\ phase = "refining" /\ UNCHANGED <<hg, phase, pc>>
  BY <1>3 DEF Moves
<1>5. /\ SearchTyped /\ PartitionExact /\ Cached(cache, hg, edgeWeight, part)
      /\ \A x \in Hypernode \ hg.nodes : cache[x] = NotCached
      /\ \A x \in Hypernode : delta[x] = 0
  BY <1>1, <1>4 DEF GainInv, GainsKept, LevelExact, Searching
<1>6. /\ cache' \in [Hypernode -> Int \cup {NotCached}]
      /\ \A x \in Hypernode \ hg'.nodes : cache'[x] = NotCached
  BY <1>1, <1>4, <1>5, MovedTyped
<1>7. Cached(cache', hg', edgeWeight', part')
  BY <1>1, <1>3, <1>5, MoveCached
<1>8. SearchTyped'
  BY <1>1, <1>2, <1>5, <1>6 DEF SearchTyped
<1>9. StagesKept'
  BY <1>1, <1>2, <1>4 DEF GainInv, StagesKept, Searching
<1>10. GainsKept'
  BY <1>1, <1>2, <1>5, <1>6, <1>7 DEF GainsKept, Searching
<1> QED BY <1>2, <1>8, <1>9, <1>10 DEF GainInv, QueueStates

\* The end of the flow: the cache is used as it is.
LEMMA EndDictatedKeeps ==
  ASSUME GainInv, LevelExact, EndDictated
  PROVE  GainInv'
<1>1. /\ search.stage = "dictated" /\ search' = [search EXCEPT !.stage = "refine"]
      /\ UNCHANGED <<hg, phase, pc, part, edgeWeight, cache, delta, key, state, moves, changes>>
      /\ metrics' = [cut |-> Cut, imbalance |-> Imbalance(WeightsOf(block))]
  BY DEF EndDictated, level, members, gains, queue
<1>2. SearchTyped'
  <2>1. Listed(hg) /\ Weighted(edgeWeight) /\ PartitionExact
    BY <1>1 DEF GainInv, StagesKept, LevelExact
  <2>2. metrics' \in [cut : Int, imbalance : Int]
    BY <1>1, <2>1, MetricsTyped
  <2>3. search' \in [stage : Stages, nodes : Seq(Hypernode), cut : Int, initialCut : Int, initialImbalance : Int,
                     best : Nat, cursor : Nat, iteration : Nat, dictated : SUBSET Hypernode]
    BY <1>1 DEF GainInv, SearchTyped, Stages
  <2> QED BY <1>1, <2>2, <2>3 DEF GainInv, SearchTyped
<1>3. search'.stage = "refine" /\ search'.nodes = search.nodes
  BY <1>1 DEF GainInv, SearchTyped
<1>4. StagesKept'
  BY <1>1, <1>3 DEF GainInv, StagesKept, Searching
<1>5. GainsKept'
  <2>1. /\ phase = "refining" /\ search.nodes[2] \in hg.nodes /\ Cached(cache, hg, edgeWeight, part)
    BY <1>1 DEF GainInv, GainsKept, StagesKept
  <2>2. cache[search.nodes[2]] # NotCached
    BY <2>1, GainTyped DEF Cached, LevelExact, PartitionExact
  <2>3. Applied(search.nodes[1], search.nodes[2])' = cache
    BY <1>1, <1>3, <2>2 DEF Applied
  <2>4. Cached(Applied(search.nodes[1], search.nodes[2])', hg', edgeWeight', part')
    BY <1>1, <2>1, <2>3 DEF Cached
  <2> QED BY <1>1, <1>3, <2>4 DEF GainInv, GainsKept, Searching
<1> QED BY <1>2, <1>3, <1>4, <1>5 DEF GainInv, QueueStates
-----------------------------------------------------------------------------
(* The search itself.                                                        *)

\* The partition without the moves behind the best is that of the best one,
\* when a hypernode is moved, and when the last move is undone.
LEMMA AheadMoves ==
  ASSUME NEW p, p \in [Hypernode -> Block \cup {NoBlock}], NEW v \in Hypernode, p[v] \in Block,
         NEW A, NEW B, v \notin A, B = A \cup {v}
  PROVE  /\ [x \in Hypernode |-> IF x \in B THEN Other(Flip(p, v)[x]) ELSE Flip(p, v)[x]]
              = [x \in Hypernode |-> IF x \in A THEN Other(p[x]) ELSE p[x]]
         /\ [x \in Hypernode |-> IF x \in A THEN Other(Flip(p, v)[x]) ELSE Flip(p, v)[x]]
              = [x \in Hypernode |-> IF x \in B THEN Other(p[x]) ELSE p[x]]
<1>1. Other(Other(p[v])) = p[v]
  BY OtherBlock
<1>2. Flip(p, v)[v] = Other(p[v]) /\ \A x \in Hypernode \ {v} : Flip(p, v)[x] = p[x]
  BY DEF Flip
<1> QED BY <1>1, <1>2

\* With no move behind the best one it is the partition itself.
LEMMA BestIsPart ==
  ASSUME Ahead = {}, part \in [Hypernode -> Block \cup {NoBlock}]
  PROVE  BestPart = part
BY DEF BestPart

\* And the deltas are not needed.
LEMMA RolledBackIs ==
  ASSUME SearchTyped, \A v \in Hypernode : delta[v] = 0
  PROVE  RolledBack = cache
<1>1. \A v \in Hypernode : cache[v] # NotCached => cache[v] + delta[v] = cache[v]
  BY DEF SearchTyped
<1> QED BY <1>1 DEF RolledBack, SearchTyped

\* What is activated around the hypernodes of a level is of the level.
LEMMA RefineInside ==
  ASSUME Listed(hg), NEW S \in SUBSET hg.nodes
  PROVE  Activatable(S \cup AroundFixed(S), cutNets) \subseteq hg.nodes
BY DEF Activatable, AroundFixed, Listed

\* The refinement nodes, in either order.
LEMMA ReversedPair ==
  ASSUME NEW s \in Seq(Hypernode), Len(s) = 2
  PROVE  /\ Reverse(s) \in Seq(Hypernode) /\ Len(Reverse(s)) = 2
         /\ Reverse(s)[1] = s[2] /\ Reverse(s)[2] = s[1]
         /\ ToSet(s) = {s[1], s[2]}
<1>1. Reverse(s) = [i \in 1 .. 2 |-> s[2 - i + 1]]
  BY DEF Reverse
<1>2. DOMAIN s = 1 .. 2 /\ s[1] \in Hypernode /\ s[2] \in Hypernode
  OBVIOUS
<1>3. Reverse(s) \in [1 .. 2 -> Hypernode]
  BY <1>1, <1>2
<1>4. ToSet(s) = {s[1], s[2]}
  BY <1>2 DEF ToSet
<1> QED BY <1>1, <1>2, <1>3, <1>4

\* refineImpl starts with the cache of the level.
LEMMA RefineKeeps ==
  ASSUME GainInv, LevelExact, Refine
  PROVE  GainInv'
<1> DEFINE values == Applied(search.nodes[1], search.nodes[2])
           A == Activatable(ToSet(search.nodes) \cup AroundFixed(ToSet(search.nodes)), cutNets)
<1>1. /\ search.stage = "refine"
      /\ cache' = values /\ key' = Inserted(<< >>, A, values)
      /\ state' = [v \in Hypernode |-> IF v \in A THEN "active" ELSE "inactive"]
      /\ moves' = << >>
      /\ UNCHANGED <<hg, phase, pc, part, edgeWeight, delta, changes>>
  BY DEF Refine, level
<1>2. PICK order \in {search.nodes, Reverse(search.nodes)} :
        search' = [search EXCEPT !.stage = "moving", !.nodes = order, !.cut = metrics.cut, !.best = 0,
                                 !.initialCut = metrics.cut, !.initialImbalance = metrics.imbalance]
  BY DEF Refine
<1>3. /\ phase = "refining" /\ pc = "search" /\ search.nodes \in Seq(Hypernode) /\ Len(search.nodes) = 2
      /\ search.nodes[1] # search.nodes[2] /\ search.nodes[1] \in hg.nodes /\ search.nodes[2] \in hg.nodes
  BY <1>1 DEF GainInv, StagesKept, SearchTyped
<1>4. /\ Reverse(search.nodes) \in Seq(Hypernode) /\ Len(Reverse(search.nodes)) = 2
      /\ Reverse(search.nodes)[1] = search.nodes[2] /\ Reverse(search.nodes)[2] = search.nodes[1]
      /\ ToSet(search.nodes) = {search.nodes[1], search.nodes[2]}
  BY <1>3, ReversedPair
<1>5. /\ search'.stage = "moving" /\ search'.nodes = order /\ search'.best = 0
      /\ search' \in [stage : Stages, nodes : Seq(Hypernode), cut : Int, initialCut : Int, initialImbalance : Int,
                      best : Nat, cursor : Nat, iteration : Nat, dictated : SUBSET Hypernode]
  <2>1. order \in Seq(Hypernode) /\ metrics.cut \in Int /\ metrics.imbalance \in Int
    BY <1>3, <1>4 DEF GainInv, SearchTyped
  <2> QED BY <1>2, <2>1 DEF GainInv, SearchTyped, Stages
<1>6. /\ values \in [Hypernode -> Int \cup {NotCached}]
      /\ \A x \in Hypernode \ hg.nodes : values[x] = NotCached
      /\ hg.nodes \subseteq Hypernode /\ Listed(hg) /\ part \in [Hypernode -> Block \cup {NoBlock}]
  <2>1. SearchTyped /\ Listed(hg) /\ hg.nodes \subseteq Hypernode /\ \A x \in Hypernode \ hg.nodes : cache[x] = NotCached
    BY <1>3 DEF GainInv, GainsKept, LevelExact, Listed
  <2>2. part \in [Hypernode -> Block \cup {NoBlock}]
    BY <1>3 DEF LevelExact, PartitionExact, Parted
  <2> QED BY <1>3, <2>1, <2>2, AppliedTyped
<1>7. A \subseteq hg.nodes
  <2>1. ToSet(search.nodes) \in SUBSET hg.nodes
    BY <1>3, <1>4
  <2> QED BY <1>6, <2>1, RefineInside
<1>8. Cached(values, hg, edgeWeight, part) /\ \A x \in Hypernode : delta[x] = 0
  BY <1>1, <1>3 DEF GainInv, GainsKept, Searching
<1> HIDE DEF values, A
<1>9. SearchTyped'
  <2>1. << >> \in Seq(Hypernode)
    OBVIOUS
  <2>2. /\ cache' \in [Hypernode -> Int \cup {NotCached}] /\ moves' \in Seq(Hypernode)
        /\ delta' = delta /\ changes' = changes
    BY <1>1, <1>6, <2>1
  <2>3. metrics' = metrics
    BY DEF Refine
  <2> QED BY <1>5, <2>2, <2>3 DEF GainInv, SearchTyped
<1>10. StagesKept'
  <2>1. Len(search'.nodes) = 2 /\ search'.nodes[1] # search'.nodes[2]
        /\ search'.nodes[1] \in hg'.nodes /\ search'.nodes[2] \in hg'.nodes
    BY <1>1, <1>3, <1>4, <1>5
  <2>2. phase' = "refining" /\ pc' = "search" /\ moves' = << >> /\ search'.stage = "moving" /\ search'.best = 0
    BY <1>1, <1>3, <1>5
  <2> QED BY <2>1, <2>2 DEF StagesKept, Searching
<1>11. QueueStates'
  <2>1. key' = [v \in A |-> values[v]]
    BY <1>1 DEF Inserted
  <2>2. ToSet(moves') = {} /\ DOMAIN key' = A
    BY <1>1, <2>1 DEF ToSet
  <2>3. StatesExact'
    BY <1>1, <1>6, <1>7, <2>2 DEF StatesExact
  <2>4. KeysExact'
    <3>1. \A v \in A : cutNets[v] > 0 /\ ~ IsFixed(v)
      BY DEF A, Activatable
    <3>2. cutNets' = cutNets
      BY DEF Refine, level
    <3> QED BY <1>1, <2>1, <3>1, <3>2 DEF KeysExact, IsBorder
  <2>5. LocksExact'
    <3>1. locks' = [e \in Hyperedge |-> Free] /\ fullyActive' = {}
      BY DEF Refine
    <3>2. \A S : MovedInto(part', ToSet(moves'), S) = {}
      BY <2>2 DEF MovedInto
    <3>3. \A e \in hg'.edges : e \in Hyperedge
      BY <1>1, <1>6 DEF Listed
    <3> QED BY <3>1, <3>2, <3>3 DEF LocksExact, LockOf
  <2>6. NeighboursExact'
    BY <2>2 DEF NeighboursExact
  <2>7. QueuesEnabled'
    <3>1. enabled' = EnabledBy({}, A, block)
      BY DEF Refine, A
    <3>2. block' = block /\ maxWeights' = maxWeights
      BY DEF Refine, level
    <3>3. enabled' = {b \in Block : block[b].weight < MaxAllowed(b) /\ \E v \in A : Other(part[v]) = b}
      BY <3>1 DEF EnabledBy
    <3>4. \A b \in Block : Queued(key, b)' <=> \E v \in A : Other(part[v]) = b
      BY <1>1, <2>2 DEF Queued
    <3>5. \A b \in Block : MaxAllowed(b)' = MaxAllowed(b)
      BY <3>2 DEF MaxAllowed
    <3> QED BY <2>2, <3>2, <3>3, <3>4, <3>5 DEF QueuesEnabled
  <2> QED BY <2>3, <2>4, <2>5, <2>6, <2>7 DEF QueueStates
<1>12. Ahead' = {}
  BY <1>1, <1>5 DEF Ahead
<1>13. BestPart' = part'
  <2>1. BestPart' = [v \in Hypernode |-> part'[v]]
    BY <1>12 DEF BestPart
  <2> QED BY <1>1, <1>6, <2>1
<1>14. RolledBack' = cache'
  <2>1. \A v \in Hypernode : cache'[v] # NotCached => cache'[v] + delta'[v] = cache'[v]
    BY <1>1, <1>6, <1>8
  <2>2. RolledBack' = [v \in Hypernode |-> cache'[v]]
    BY <2>1 DEF RolledBack
  <2> QED BY <1>1, <1>6, <2>2
<1>15. Cached(cache', hg', edgeWeight', part')
  BY <1>1, <1>8 DEF Cached
<1>16. GainsKept'
  <2>1. Cached(RolledBack', hg', edgeWeight', BestPart')
    BY <1>13, <1>14, <1>15
  <2>2. \A v \in Hypernode \ hg'.nodes : cache'[v] = NotCached
    BY <1>1, <1>6
  <2> QED BY <1>5, <1>15, <2>1, <2>2 DEF GainsKept, Searching
<1> QED BY <1>9, <1>10, <1>11, <1>16 DEF GainInv

\* The moves end: what is ahead of the best partition is now to be undone.
LEMMA StopMovingKeeps ==
  ASSUME GainInv, StopMoving
  PROVE  GainInv'
<1>1. /\ search.stage = "moving" /\ search' = [search EXCEPT !.stage = "rollback", !.cursor = Len(moves)]
      /\ UNCHANGED <<hg, phase, pc, part, edgeWeight, cache, delta, key, state, moves, changes, metrics>>
  BY DEF StopMoving, level, members, gains, queue
<1>2. SearchTyped'
  <2>1. Len(moves) \in Nat
    BY DEF GainInv, SearchTyped
  <2> QED BY <1>1, <2>1 DEF GainInv, SearchTyped, Stages
<1>3. /\ search'.stage = "rollback" /\ search'.nodes = search.nodes
      /\ search'.best = search.best /\ search'.cursor = Len(moves)
  BY <1>1 DEF GainInv, SearchTyped
<1>4. StagesKept'
  BY <1>1, <1>3 DEF GainInv, StagesKept, Searching
<1>5. Ahead' = Ahead
  BY <1>1, <1>3 DEF Ahead
<1>6. BestPart' = BestPart /\ RolledBack' = RolledBack
  BY <1>1, <1>5 DEF BestPart, RolledBack
<1>7. GainsKept'
  <2>1. Cached(RolledBack', hg', edgeWeight', BestPart')
    BY <1>1, <1>6 DEF GainInv, GainsKept, Cached, StagesKept, Searching
  <2> QED BY <1>1, <1>3, <2>1 DEF GainInv, GainsKept, Searching
<1> QED BY <1>2, <1>3, <1>4, <1>7 DEF GainInv, QueueStates

\* A move is undone: the best partition comes one move closer.
LEMMA RollbackKeeps ==
  ASSUME GainInv, LevelExact, Rollback
  PROVE  GainInv' /\ BestPart' = BestPart
<1> DEFINE v == moves[search.cursor]
<1>1. /\ search.stage = "rollback" /\ search.cursor > search.best
      /\ N!ChangeNodePart(v, Other(part[v]))
      /\ search' = [search EXCEPT !.cursor = @ - 1]
      /\ UNCHANGED <<cache, delta, key, state, moves, changes, metrics>>
  BY DEF Rollback, members, gains, queue
<1>2. Moves(v)
  BY <1>1, ChangeMoves
<1>3. /\ v \in hg.nodes /\ phase = "refining" /\ part' = Flip(part, v)
      /\ UNCHANGED <<hg, phase, pc, edgeWeight>>
  BY <1>2 DEF Moves
<1>4. /\ search.cursor \in Nat /\ search.best \in Nat /\ search.cursor <= Len(moves)
      /\ moves \in Seq(Hypernode) /\ Len(moves) \in Nat
      /\ \A i, j \in 1 .. Len(moves) : moves[i] = moves[j] => i = j
  BY <1>1 DEF GainInv, SearchTyped, StagesKept, Searching
<1>5. SearchTyped'
  <2>1. search.cursor - 1 \in Nat
    BY <1>1, <1>4
  <2>2. search' \in [stage : Stages, nodes : Seq(Hypernode), cut : Int, initialCut : Int, initialImbalance : Int,
                     best : Nat, cursor : Nat, iteration : Nat, dictated : SUBSET Hypernode]
    BY <1>1, <2>1 DEF GainInv, SearchTyped
  <2> QED BY <1>1, <2>2 DEF GainInv, SearchTyped
<1>6. /\ search'.stage = "rollback" /\ search'.nodes = search.nodes
      /\ search'.best = search.best /\ search'.cursor = search.cursor - 1
  BY <1>1 DEF GainInv, SearchTyped
<1>7. StagesKept'
  BY <1>1, <1>3, <1>4, <1>6 DEF GainInv, StagesKept, Searching
<1>8. Ahead = Ahead' \cup {v} /\ v \notin Ahead'
  <2>1. /\ Ahead = {moves[i] : i \in search.best + 1 .. search.cursor}
        /\ Ahead' = {moves[i] : i \in search.best + 1 .. search.cursor - 1}
    BY <1>1, <1>6 DEF Ahead
  <2>2. search.best + 1 .. search.cursor = (search.best + 1 .. search.cursor - 1) \cup {search.cursor}
    BY <1>1, <1>4
  <2>3. \A i \in search.best + 1 .. search.cursor - 1 :
          i \in 1 .. Len(moves) /\ search.cursor \in 1 .. Len(moves) /\ i # search.cursor
    BY <1>1, <1>4
  <2> QED BY <1>4, <2>1, <2>2, <2>3
<1>9. v \in Hypernode /\ part[v] \in Block /\ part \in [Hypernode -> Block \cup {NoBlock}]
  BY <1>3 DEF LevelExact, Listed, PartitionExact, Parted
<1> HIDE DEF v
<1>10. BestPart' = BestPart
  <2>1. BestPart' = [x \in Hypernode |-> IF x \in Ahead' THEN Other(Flip(part, v)[x]) ELSE Flip(part, v)[x]]
    BY <1>3 DEF BestPart
  <2>2. BestPart = [x \in Hypernode |-> IF x \in Ahead THEN Other(part[x]) ELSE part[x]]
    BY DEF BestPart
  <2> QED BY <1>8, <1>9, <2>1, <2>2, AheadMoves
<1>11. RolledBack' = RolledBack
  BY <1>1 DEF RolledBack
<1>12. GainsKept'
  <2>1. Cached(RolledBack', hg', edgeWeight', BestPart')
    BY <1>1, <1>3, <1>10, <1>11 DEF GainInv, GainsKept, Cached, Searching
  <2> QED BY <1>1, <1>3, <1>6, <2>1 DEF GainInv, GainsKept, Searching
<1> QED BY <1>5, <1>6, <1>7, <1>10, <1>12 DEF GainInv, QueueStates

\* rollbackDelta takes the cache to the best partition, which is the present one.
LEMMA EndSearchKeeps ==
  ASSUME GainInv, LevelExact, EndSearch
  PROVE  GainInv' /\ BestPart = part
<1>1. /\ search.stage = "rollback" /\ search.cursor = search.best
      /\ cache' = RolledBack /\ delta' = [v \in Hypernode |-> 0] /\ changes' = NoChanges
      /\ UNCHANGED <<hg, phase, pc, part, edgeWeight, key, state, moves, metrics>>
  BY DEF EndSearch, level, queue
<1>2. \/ search' = [NoSearch EXCEPT !.stage = "flow", !.nodes = search.nodes, !.iteration = search.iteration + 1]
      \/ search' = NoSearch
  BY DEF EndSearch
<1>3. /\ phase = "refining" /\ search.nodes \in Seq(Hypernode) /\ search.iteration \in Nat
      /\ search.nodes[1] \in hg.nodes /\ search.nodes[2] \in hg.nodes
      /\ search.best \in Nat
  BY <1>1 DEF GainInv, StagesKept, SearchTyped
<1>4. /\ search'.stage = "idle" \/ (search'.stage = "flow" /\ search'.nodes = search.nodes)
      /\ search' \in [stage : Stages, nodes : Seq(Hypernode), cut : Int, initialCut : Int, initialImbalance : Int,
                      best : Nat, cursor : Nat, iteration : Nat, dictated : SUBSET Hypernode]
  <2>1. << >> \in Seq(Hypernode)
    OBVIOUS
  <2>2. CASE search' = NoSearch
    <3>1. search' = [stage |-> "idle", nodes |-> << >>, cut |-> 0, initialCut |-> 0,
                     initialImbalance |-> 0, best |-> 0, cursor |-> 0, iteration |-> 0, dictated |-> {}]
      BY <2>2 DEF NoSearch
    <3> DEFINE n == << >>
    <3>2. search' = [stage |-> "idle", nodes |-> n, cut |-> 0, initialCut |-> 0,
                     initialImbalance |-> 0, best |-> 0, cursor |-> 0, iteration |-> 0, dictated |-> {}]
      BY <3>1
    <3>3. n \in Seq(Hypernode)
      BY <2>1
    <3> HIDE DEF n
    <3> QED BY <3>2, <3>3 DEF Stages
  <2>3. CASE search' = [NoSearch EXCEPT !.stage = "flow", !.nodes = search.nodes, !.iteration = search.iteration + 1]
    <3>1. search' = [stage |-> "flow", nodes |-> search.nodes, cut |-> 0, initialCut |-> 0,
                     initialImbalance |-> 0, best |-> 0, cursor |-> 0, iteration |-> search.iteration + 1,
                     dictated |-> {}]
      BY <2>3 DEF NoSearch
    <3> QED BY <1>3, <3>1 DEF Stages
  <2> QED BY <1>2, <2>2, <2>3
<1>5. /\ cache \in [Hypernode -> Int \cup {NotCached}] /\ delta \in [Hypernode -> Int]
      /\ part \in [Hypernode -> Block \cup {NoBlock}]
  BY <1>3 DEF GainInv, SearchTyped, LevelExact, PartitionExact, Parted
<1>6. RolledBack \in [Hypernode -> Int \cup {NotCached}]
  <2>1. \A v \in Hypernode : cache[v] # NotCached => cache[v] + delta[v] \in Int
    BY <1>5
  <2> QED BY <2>1 DEF RolledBack
<1>7. SearchTyped'
  <2>1. changes' \in [representative : Int, partner : Int] /\ delta' \in [Hypernode -> Int]
    BY <1>1 DEF NoChanges
  <2>2. cache' \in [Hypernode -> Int \cup {NotCached}] /\ moves' = moves /\ metrics' = metrics
    BY <1>1, <1>6
  <2> QED BY <1>4, <2>1, <2>2 DEF GainInv, SearchTyped
<1>8. StagesKept'
  BY <1>1, <1>4 DEF GainInv, StagesKept, Searching
<1>9. BestPart = part
  <2>1. Ahead = {}
    BY <1>1, <1>3 DEF Ahead
  <2> QED BY <1>5, <2>1, BestIsPart
<1>10. Cached(cache', hg', edgeWeight', part')
  BY <1>1, <1>3, <1>9 DEF GainInv, GainsKept, Cached, Searching
<1>11. search'.stage = "flow" => Applied(search.nodes[1], search.nodes[2])' = cache'
  <2> SUFFICES ASSUME search'.stage = "flow" PROVE Applied(search.nodes[1], search.nodes[2])' = cache'
    OBVIOUS
  <2>1. search'.nodes = search.nodes
    BY <1>4
  <2>2. cache'[search.nodes[2]] = GainOf(hg, edgeWeight, part, search.nodes[2])
    BY <1>1, <1>3, <1>10 DEF Cached
  <2>3. cache'[search.nodes[2]] # NotCached
    BY <1>3, <2>2, GainTyped DEF LevelExact, PartitionExact
  <2> QED BY <2>1, <2>3 DEF Applied
<1>12. GainsKept'
  <2>1. /\ \A v \in Hypernode \ hg'.nodes : cache'[v] = NotCached
        /\ \A v \in Hypernode : delta'[v] = 0
    BY <1>1, <1>3 DEF GainInv, GainsKept, RolledBack
  <2> QED BY <1>4, <1>10, <1>11, <2>1 DEF GainsKept, Searching
<1> QED BY <1>4, <1>7, <1>8, <1>9, <1>12 DEF GainInv, QueueStates

\* Uncoarsening begins with all gains computed from scratch.
LEMMA BeginUncoarseningKeeps ==
  ASSUME GainInv, LevelExact', BeginUncoarsening
  PROVE  GainInv'
<1>1. /\ phase \in {"coarsening", "initial"} /\ phase' = "refining"
      /\ UNCHANGED <<hg, part, netPart, block, edgeWeight, moves, search>>
      /\ cache' = Initialized /\ delta' = [v \in Hypernode |-> 0] /\ changes' = NoChanges
      /\ metrics' = [cut |-> Cut, imbalance |-> Imbalance(WeightsOf(block))]
  BY DEF BeginUncoarsening, N!InitializeNumCutHyperedges, N!H!InitializeNumCutHyperedges
<1>2. search.stage = "idle"
  BY <1>1 DEF GainInv, StagesKept
<1>3. /\ Listed(hg) /\ Weighted(edgeWeight) /\ Parted(part, hg.nodes) /\ Counted(hg, netPart, part)
      /\ Connects(hg, netPart, part) /\ WeightsOf(block) = Weights(hg, part) /\ hg.weight \in [Hypernode -> Nat]
  <2>1. /\ Listed(hg') /\ Weighted(edgeWeight') /\ Parted(part', hg'.nodes) /\ Counted(hg', netPart', part')
        /\ Connects(hg', netPart', part') /\ WeightsOf(block)' = Weights(hg', part')
        /\ hg'.weight \in [Hypernode -> Nat]
    BY <1>1 DEF LevelExact, PartitionExact
  <2>2. WeightsOf(block)' = WeightsOf(block)
    BY <1>1 DEF WeightsOf
  <2> QED BY <1>1, <2>1, <2>2
<1>4. \A v \in hg.nodes : Gain(v) = GainOf(hg, edgeWeight, part, v) /\ Gain(v) \in Int
  <2> SUFFICES ASSUME NEW v \in hg.nodes PROVE Gain(v) = GainOf(hg, edgeWeight, part, v) /\ Gain(v) \in Int
    OBVIOUS
  <2>1. Gain(v) = GainBy(hg, edgeWeight, netPart, part, v)
    BY GainDefined
  <2>2. GainBy(hg, edgeWeight, netPart, part, v) = GainOf(hg, edgeWeight, part, v)
    BY <1>3, GainIs
  <2> QED BY <1>3, <2>1, <2>2, GainTyped
<1>5. hg.nodes \subseteq Hypernode
  BY <1>3 DEF Listed
<1>6. SearchTyped'
  <2>1. metrics' \in [cut : Int, imbalance : Int]
    BY <1>1, <1>3, CutTyped, WeightsTyped, ImbalanceTyped
  <2>2. changes' \in [representative : Int, partner : Int] /\ delta' \in [Hypernode -> Int]
    BY <1>1 DEF NoChanges
  <2>3. cache' \in [Hypernode -> Int \cup {NotCached}] /\ moves' = moves /\ search' = search
    BY <1>1, <1>4 DEF Initialized
  <2> QED BY <2>1, <2>2, <2>3 DEF GainInv, SearchTyped
<1>7. GainsKept'
  <2>1. Cached(cache', hg', edgeWeight', part')
    BY <1>1, <1>4, <1>5 DEF Cached, Initialized
  <2>2. \A v \in Hypernode \ hg'.nodes : cache'[v] = NotCached
    BY <1>1 DEF Initialized
  <2> QED BY <1>1, <1>2, <2>1, <2>2 DEF GainsKept, Searching
<1> QED BY <1>1, <1>2, <1>6, <1>7 DEF GainInv, StagesKept, QueueStates, Searching
-----------------------------------------------------------------------------
(* What a move does to the queue.                                            *)

FullOf(v) == FullNets(v, part[v], Other(part[v]), netPart')
FoundOf(v) == Activatable(UNION {Inactive(e, v) : e \in FullOf(v)}, cutNets')
InternalOf(v) == {q \in DOMAIN key : cutNets[q] > 0 /\ cutNets'[q] = 0}

\* What stays enabled without v, of the block it goes to and the one it leaves.
StayOf(v) == NonEmpty(enabled, [q \in DOMAIN key \ {v} |-> key[q]])
LessOf(v) == IF block'[Other(part[v])].weight >= MaxAllowed(Other(part[v]))
             THEN StayOf(v) \ {Other(part[v])} ELSE StayOf(v)
MoreOf(v) == IF block'[part[v]].weight < MaxAllowed(part[v])
             THEN Enable(LessOf(v), [q \in DOMAIN key \ {v} |-> key[q]], part[v]) ELSE LessOf(v)

\* The parts of Move that the queue depends on.
MoveOfQueue(v) ==
  /\ search.stage = "moving" /\ v \in DOMAIN key /\ Other(part[v]) \in enabled
  /\ N!ChangeNodePart(v, Other(part[v]))
  /\ cache' = MovedCache(v)
  /\ key' = [q \in ((DOMAIN key \ {v}) \cup FoundOf(v)) \ InternalOf(v) |->
               IF q \in FoundOf(v) THEN cache'[q]
               ELSE key[q] + Delta(UnlockedNets(v), q, part[v], Other(part[v]), netPart')]
  /\ enabled' = NonEmpty(EnabledBy(MoreOf(v), FoundOf(v), block'), key')
  /\ state' = [q \in Hypernode |-> IF q = v THEN "marked"
                                   ELSE IF q \in InternalOf(v) THEN "inactive"
                                   ELSE IF q \in FoundOf(v) THEN "active" ELSE state[q]]
  /\ locks' = LocksAfter(v, Other(part[v]))
  /\ \E order : fullyActive' = (fullyActive \ FullOf(v)) \cup FoundFullyActive(FullOf(v), v, order)
  /\ moves' = Append(moves, v)

\* Only the abbreviations of Move are to be unfolded.
LEMMA MoveIs ==
  ASSUME NEW v, Move(v)
  PROVE  MoveOfQueue(v)
<1> DEFINE taken == [q \in DOMAIN key \ {v} |-> key[q]]
<1>1. DOMAIN taken = DOMAIN key \ {v}
  OBVIOUS
<1>2. /\ search.stage = "moving" /\ v \in DOMAIN key /\ Other(part[v]) \in enabled
      /\ N!ChangeNodePart(v, Other(part[v]))
      /\ moves' = Append(moves, v)
      /\ locks' = LocksAfter(v, Other(part[v]))
  BY DEF Move, Best
<1>3. cache' = MovedCache(v)
  BY DEF Move, MovedCache
<1>4. key' = [q \in (DOMAIN taken \cup FoundOf(v)) \ InternalOf(v) |->
               IF q \in FoundOf(v) THEN cache'[q]
               ELSE key[q] + Delta(UnlockedNets(v), q, part[v], Other(part[v]), netPart')]
  BY DEF Move, FoundOf, InternalOf, FullOf
<1>5. enabled' = NonEmpty(EnabledBy(MoreOf(v), FoundOf(v), block'), key')
  BY DEF Move, FoundOf, FullOf, MoreOf, LessOf, StayOf
<1>6. state' = [q \in Hypernode |-> IF q = v THEN "marked"
                                    ELSE IF q \in InternalOf(v) THEN "inactive"
                                    ELSE IF q \in FoundOf(v) THEN "active" ELSE state[q]]
  BY DEF Move, FoundOf, InternalOf, FullOf
<1>7. \E order : fullyActive' = (fullyActive \ FullOf(v)) \cup FoundFullyActive(FullOf(v), v, order)
  BY DEF Move, FullOf
<1> QED BY <1>1, <1>2, <1>3, <1>4, <1>5, <1>6, <1>7 DEF MoveOfQueue

\* What is known before and after a move.
MoveContext(v) ==
  /\ MoveOfQueue(v) /\ Moves(v)
  /\ SearchTyped /\ StatesExact /\ KeysExact /\ LocksExact /\ NeighboursExact /\ QueuesEnabled
  /\ Listed(hg) /\ Weighted(edgeWeight) /\ PartitionExact /\ PartitionExact' /\ Cached(cache, hg, edgeWeight, part)
  /\ hg' = hg /\ edgeWeight' = edgeWeight /\ part' = Flip(part, v) /\ maxWeights' = maxWeights
  /\ v \in hg.nodes /\ v \in Hypernode /\ part[v] \in Block /\ hg.nodes \subseteq Hypernode
  /\ v \notin ToSet(moves) /\ ToSet(moves') = ToSet(moves) \cup {v} /\ ToSet(moves) \subseteq Hypernode
  /\ Cached(cache', hg, edgeWeight, part')
  /\ ToSet(moves) \subseteq hg.nodes

\* The set of an appended sequence.
LEMMA AppendedSet ==
  ASSUME NEW S, NEW s \in Seq(S), NEW x \in S
  PROVE  ToSet(Append(s, x)) = ToSet(s) \cup {x}
<1>1. /\ Len(s) \in Nat /\ DOMAIN s = 1 .. Len(s) /\ DOMAIN Append(s, x) = 1 .. Len(s) + 1
      /\ Append(s, x)[Len(s) + 1] = x /\ \A i \in 1 .. Len(s) : Append(s, x)[i] = s[i]
  OBVIOUS
<1>2. \A i \in 1 .. Len(s) + 1 : i \in 1 .. Len(s) \/ i = Len(s) + 1
  BY <1>1
<1>3. ToSet(Append(s, x)) \subseteq ToSet(s) \cup {x}
  BY <1>1, <1>2 DEF ToSet
<1>4. ToSet(s) \subseteq ToSet(Append(s, x)) /\ x \in ToSet(Append(s, x))
  <2>1. Len(s) + 1 \in 1 .. Len(s) + 1 /\ \A i \in 1 .. Len(s) : i \in 1 .. Len(s) + 1
    BY <1>1
  <2> QED BY <1>1, <2>1 DEF ToSet
<1> QED BY <1>3, <1>4

\* What the lemmas about the queue need to know of a move.
LEMMA MoveKnown ==
  ASSUME GainInv, LevelExact, LevelExact', NEW v, Move(v)
  PROVE  MoveContext(v)
<1>1. MoveOfQueue(v)
  BY MoveIs
<1>2. /\ search.stage = "moving" /\ v \in DOMAIN key /\ N!ChangeNodePart(v, Other(part[v]))
      /\ cache' = MovedCache(v) /\ moves' = Append(moves, v)
  BY <1>1 DEF MoveOfQueue
<1>3. Moves(v)
  BY <1>2, ChangeMoves
<1>4. /\ hg' = hg /\ edgeWeight' = edgeWeight /\ part' = Flip(part, v) /\ maxWeights' = maxWeights
      /\ v \in hg.nodes /\ phase = "refining" /\ phase' = "refining"
  BY <1>3 DEF Moves
<1>5. /\ SearchTyped /\ StatesExact /\ KeysExact /\ LocksExact /\ NeighboursExact /\ QueuesEnabled
      /\ Cached(cache, hg, edgeWeight, part)
  BY <1>2, <1>4 DEF GainInv, QueueStates, GainsKept
<1>6. Listed(hg) /\ Weighted(edgeWeight) /\ PartitionExact /\ PartitionExact'
  BY <1>4 DEF LevelExact
<1>7. hg.nodes \subseteq Hypernode /\ v \in Hypernode /\ part[v] \in Block
  BY <1>4, <1>6 DEF Listed, PartitionExact, Parted
<1>8. v \notin ToSet(moves) /\ ToSet(moves) \subseteq Hypernode
  BY <1>2, <1>5 DEF StatesExact
<1>9. ToSet(moves') = ToSet(moves) \cup {v}
  BY <1>2, <1>5, <1>7, AppendedSet DEF SearchTyped
<1>10. Cached(cache', hg, edgeWeight, part')
  <2>1. Cached(cache', hg', edgeWeight', part')
    BY <1>2, <1>3, <1>5, MoveCached
  <2> QED BY <1>4, <2>1
<1>11. ToSet(moves) \subseteq hg.nodes
  <2>1. \A i \in 1 .. Len(moves) : moves[i] \in hg.nodes
    BY <1>2 DEF GainInv, StagesKept, Searching
  <2>2. DOMAIN moves = 1 .. Len(moves)
    BY <1>5 DEF SearchTyped
  <2> QED BY <2>1, <2>2 DEF ToSet
<1> QED BY <1>1, <1>3, <1>4, <1>5, <1>6, <1>7, <1>8, <1>9, <1>10, <1>11 DEF MoveContext

\* What is found had been inactive, and is a pin of a net of v.
LEMMA FoundInside ==
  ASSUME NEW v, MoveContext(v)
  PROVE  /\ FoundOf(v) \subseteq hg.nodes /\ v \notin FoundOf(v)
         /\ \A q \in FoundOf(v) : state[q] = "inactive" /\ cutNets'[q] > 0 /\ ~ IsFixed(q)
<1>1. \A e \in FullOf(v) : e \in hg.nets[v]
  BY DEF FullOf, FullNets, UnlockedNets
<1>2. \A e \in FullOf(v) : hg.pins[e] \subseteq hg.nodes
  BY <1>1 DEF MoveContext, Listed
<1>3. \A q \in FoundOf(v) : /\ \E e \in FullOf(v) : q \in hg.pins[e] \ {v} /\ state[q] = "inactive"
                            /\ cutNets'[q] > 0 /\ ~ IsFixed(q)
  BY DEF FoundOf, Activatable, Inactive
<1> QED BY <1>2, <1>3

\* The moved hypernode is marked, and the queue has what is active.
LEMMA MoveStates ==
  ASSUME NEW v, MoveContext(v)
  PROVE  /\ StatesExact'
         /\ DOMAIN key' = ((DOMAIN key \ {v}) \cup FoundOf(v)) \ InternalOf(v)
<1>1. /\ FoundOf(v) \subseteq hg.nodes /\ v \notin FoundOf(v)
      /\ \A q \in FoundOf(v) : state[q] = "inactive"
  BY FoundInside
<1>2. /\ state' = [q \in Hypernode |-> IF q = v THEN "marked"
                                       ELSE IF q \in InternalOf(v) THEN "inactive"
                                       ELSE IF q \in FoundOf(v) THEN "active" ELSE state[q]]
      /\ DOMAIN key' = ((DOMAIN key \ {v}) \cup FoundOf(v)) \ InternalOf(v)
  BY DEF MoveContext, MoveOfQueue
<1>3. /\ state \in [Hypernode -> {"inactive", "active", "marked"}]
      /\ DOMAIN key = {q \in Hypernode : state[q] = "active"}
      /\ ToSet(moves) = {q \in Hypernode : state[q] = "marked"}
      /\ DOMAIN key \subseteq hg.nodes
  BY DEF MoveContext, StatesExact
<1>4. /\ v \in Hypernode /\ hg.nodes \subseteq Hypernode /\ hg' = hg
      /\ ToSet(moves') = ToSet(moves) \cup {v} /\ InternalOf(v) \subseteq DOMAIN key
  BY DEF MoveContext, InternalOf
<1>5. state' \in [Hypernode -> {"inactive", "active", "marked"}]
  BY <1>2, <1>3
<1>6. DOMAIN key' = {q \in Hypernode : state'[q] = "active"}
  <2>1. \A q \in Hypernode : state'[q] = "active"
                               <=> q # v /\ q \notin InternalOf(v) /\ (q \in FoundOf(v) \/ state[q] = "active")
    BY <1>2
  <2> QED BY <1>1, <1>2, <1>3, <1>4, <2>1
<1>7. ToSet(moves') = {q \in Hypernode : state'[q] = "marked"}
  <2>1. \A q \in Hypernode : state'[q] = "marked"
                               <=> q = v \/ (q \notin InternalOf(v) /\ q \notin FoundOf(v) /\ state[q] = "marked")
    BY <1>2
  <2>2. \A q \in Hypernode : state[q] = "marked" => q \notin InternalOf(v) /\ q \notin FoundOf(v)
    BY <1>1, <1>3, <1>4
  <2> QED BY <1>3, <1>4, <2>1, <2>2
<1>8. DOMAIN key' \subseteq hg'.nodes
  BY <1>1, <1>2, <1>3, <1>4
<1> QED BY <1>2, <1>5, <1>6, <1>7, <1>8 DEF StatesExact


\* The four values of a lock.
LEMMA LockOfIs ==
  ASSUME NEW B \in SUBSET Block
  PROVE  /\ LockOf(B) = Free <=> B = {}
         /\ LockOf(B) = Locked <=> B = Block
         /\ \A b \in Block : LockOf(B) = b <=> B = {b}
         /\ LockOf(B) \in Block \cup {Free, Locked}
<1>1. Block # {} /\ \A b \in Block : Block # {b}
  <2>1. PICK a \in Block : TRUE
    BY TwoBlocks, FS_EmptySet
  <2> QED BY <2>1, OtherBlock
<1>2. Free # Locked /\ \A b \in Block : b # Free /\ b # Locked
  BY StatesAssumption
<1>3. CASE B = {}
  BY <1>1, <1>2, <1>3 DEF LockOf
<1>4. CASE B = Block
  BY <1>1, <1>2, <1>4 DEF LockOf
<1>5. CASE B # {} /\ B # Block
  <2>1. PICK b \in B : TRUE
    BY <1>5
  <2>2. B = {b}
    <3>1. \A c \in Block : c = b \/ c = Other(b)
      BY <2>1, OtherBlock
    <3>2. Other(b) \notin B
      BY <1>5, <3>1
    <3> QED BY <2>1, <3>1, <3>2
  <2>3. LockOf(B) = b
    BY <1>5, <2>2 DEF LockOf
  <2> QED BY <1>1, <1>2, <1>5, <2>2, <2>3
<1> QED BY <1>3, <1>4, <1>5

\* Moved pins are in blocks.
LEMMA MovedBlocks ==
  ASSUME NEW v, MoveContext(v), NEW e \in hg.edges
  PROVE  /\ MovedInto(part, ToSet(moves), hg.pins[e]) \in SUBSET Block
         /\ MovedInto(part', ToSet(moves'), hg.pins[e])
              = MovedInto(part, ToSet(moves), hg.pins[e]) \cup (IF v \in hg.pins[e] THEN {Other(part[v])} ELSE {})
<1>1. hg.pins[e] \subseteq hg.nodes /\ \A x \in hg.nodes : part[x] \in Block
  BY DEF MoveContext, Listed, PartitionExact, Parted
<1>2. MovedInto(part, ToSet(moves), hg.pins[e]) \in SUBSET Block
  BY <1>1 DEF MovedInto
<1>3. /\ ToSet(moves') = ToSet(moves) \cup {v} /\ v \notin ToSet(moves)
      /\ part'[v] = Other(part[v]) /\ \A x \in ToSet(moves) : part'[x] = part[x]
  BY DEF MoveContext, Flip, PartitionExact, Parted
<1>4. CASE v \in hg.pins[e]
  BY <1>2, <1>3, <1>4 DEF MovedInto
<1>5. CASE v \notin hg.pins[e]
  BY <1>2, <1>3, <1>5 DEF MovedInto
<1> QED BY <1>4, <1>5

\* The locks after a move are those of its moved pins.
LEMMA MoveLocks ==
  ASSUME NEW v, MoveContext(v)
  PROVE  LocksExact'
<1> DEFINE to == Other(part[v])
           B(e) == MovedInto(part, ToSet(moves), hg.pins[e])
           BB(e) == MovedInto(part', ToSet(moves'), hg.pins[e])
<1>1. /\ locks' = [e \in Hyperedge |-> IF e \notin hg.nets[v] \/ locks[e] = to THEN locks[e]
                                       ELSE IF locks[e] = Free THEN to ELSE Locked]
      /\ \E order : fullyActive' = (fullyActive \ FullOf(v)) \cup FoundFullyActive(FullOf(v), v, order)
  BY DEF MoveContext, MoveOfQueue, LocksAfter
<1>2. /\ locks \in [Hyperedge -> Block \cup {Free, Locked}] /\ fullyActive \in SUBSET Hyperedge
      /\ \A e \in hg.edges : locks[e] = LockOf(B(e))
      /\ \A e \in fullyActive : locks[e] # Free
      /\ hg' = hg /\ to \in Block
      /\ \A e \in hg.edges : e \in Hyperedge /\ (e \in hg.nets[v] <=> v \in hg.pins[e])
      /\ hg.nets[v] \in SUBSET Hyperedge
  BY OtherBlock DEF MoveContext, LocksExact, Listed
<1>3. Free # Locked /\ \A b \in Block : b # Free /\ b # Locked
  BY StatesAssumption
<1>4. locks' \in [Hyperedge -> Block \cup {Free, Locked}]
  BY <1>1, <1>2
<1>5. ASSUME NEW e \in hg.edges PROVE locks'[e] = LockOf(BB(e))
  <2>1. /\ B(e) \in SUBSET Block
        /\ BB(e) = B(e) \cup (IF v \in hg.pins[e] THEN {to} ELSE {})
    BY MovedBlocks
  <2>2. /\ locks[e] = Free <=> B(e) = {}
        /\ locks[e] = Locked <=> B(e) = Block
        /\ \A b \in Block : locks[e] = b <=> B(e) = {b}
    BY <1>2, <2>1, LockOfIs
  <2>3. /\ BB(e) \in SUBSET Block
        /\ LockOf(BB(e)) = Free <=> BB(e) = {}
        /\ LockOf(BB(e)) = Locked <=> BB(e) = Block
        /\ \A b \in Block : LockOf(BB(e)) = b <=> BB(e) = {b}
    <3>1. BB(e) \in SUBSET Block
      BY <1>2, <2>1
    <3> QED BY <3>1, LockOfIs
  <2>4. Other(to) \in Block /\ Other(to) # to /\ \A c \in Block : c = to \/ c = Other(to)
    BY <1>2, OtherBlock
  <2>5. CASE e \notin hg.nets[v]
    BY <1>1, <1>2, <2>1, <2>5
  <2>6. CASE e \in hg.nets[v] /\ locks[e] = to
    BY <1>1, <1>2, <2>1, <2>2, <2>3, <2>6
  <2>7. CASE e \in hg.nets[v] /\ locks[e] = Free
    BY <1>1, <1>2, <1>3, <2>1, <2>2, <2>3, <2>7
  <2>8. CASE e \in hg.nets[v] /\ locks[e] # to /\ locks[e] # Free
    <3>1. Other(to) \in B(e)
      BY <1>2, <2>1, <2>2, <2>4, <2>8
    <3>2. BB(e) = Block
      BY <1>2, <2>1, <2>4, <2>8, <3>1
    <3> QED BY <1>1, <1>2, <2>3, <2>8, <3>2
  <2> QED BY <2>5, <2>6, <2>7, <2>8
<1>6. fullyActive' \in SUBSET Hyperedge /\ \A e \in fullyActive' : locks'[e] # Free
  <2>1. PICK order : fullyActive' = (fullyActive \ FullOf(v)) \cup FoundFullyActive(FullOf(v), v, order)
    BY <1>1
  <2>2. FoundFullyActive(FullOf(v), v, order) \subseteq FullOf(v)
    BY DEF FoundFullyActive
  <2>3. FullOf(v) \subseteq hg.nets[v]
    BY DEF FullOf, FullNets, UnlockedNets
  <2>4. \A e \in hg.nets[v] : locks'[e] # Free
    BY <1>1, <1>2, <1>3
  <2>5. \A e \in Hyperedge : locks[e] # Free => locks'[e] # Free
    BY <1>1, <1>2, <1>3
  <2> QED BY <1>2, <2>1, <2>2, <2>3, <2>4, <2>5
<1> QED BY <1>2, <1>4, <1>5, <1>6 DEF LocksExact

\* A locked net changes no gain of a hypernode that has not been moved.
LEMMA LockedNothing ==
  ASSUME NEW v, MoveContext(v), NEW e \in hg.nets[v], locks[e] = Locked,
         NEW q \in hg.pins[e], q # v, q \notin ToSet(moves)
  PROVE  GainDelta(e, q, part[v], Other(part[v]), netPart'[e].count) = 0
<1> DEFINE from == part[v]
           to == Other(part[v])
           S == hg.pins[e]
           F == In(S, Flip(part, v), from)
           T == In(S, Flip(part, v), to)
<1>1. /\ e \in hg.edges /\ v \in S /\ S \subseteq hg.nodes /\ S \subseteq Hypernode
      /\ from \in Block /\ to \in Block /\ from # to
      /\ part \in [Hypernode -> Block \cup {NoBlock}] /\ \A x \in S : part[x] \in Block
      /\ v \notin ToSet(moves) /\ v \in Hypernode
  BY OtherBlock DEF MoveContext, Listed, PartitionExact, Parted
<1>2. MovedInto(part, ToSet(moves), S) = Block
  <2>1. MovedInto(part, ToSet(moves), S) \in SUBSET Block
    BY <1>1, MovedBlocks
  <2>2. locks[e] = LockOf(MovedInto(part, ToSet(moves), S))
    BY <1>1 DEF MoveContext, LocksExact
  <2> QED BY <2>1, <2>2, LockOfIs
<1>3. PICK x \in S : x \in ToSet(moves) /\ part[x] = from
  BY <1>1, <1>2 DEF MovedInto
<1>4. PICK y \in S : y \in ToSet(moves) /\ part[y] = to
  BY <1>1, <1>2 DEF MovedInto
<1>5. x # v /\ y # v /\ x # q /\ y # q /\ x # y
  BY <1>1, <1>3, <1>4
<1>6. Flip(part, v)[v] = to /\ \A z \in Hypernode \ {v} : Flip(part, v)[z] = part[z]
  BY <1>1 DEF Flip
<1>7. x \in F /\ y \in T /\ v \in T /\ (part[q] = from => q \in F) /\ (part[q] # from => q \in T)
  <2>1. part[q] = from \/ part[q] = to
    BY <1>1, OtherBlock
  <2> QED BY <1>1, <1>3, <1>4, <1>5, <1>6, <2>1 DEF In
<1>8. IsFiniteSet(S) /\ IsFiniteSet(F) /\ IsFiniteSet(T)
  <2>1. F \in SUBSET S /\ T \in SUBSET S
    BY DEF In
  <2> QED BY <1>1, <2>1, HypergraphAssumption, FS_Subset
<1>9. netPart'[e].count[from] = Cardinality(F) /\ netPart'[e].count[to] = Cardinality(T)
  <2>1. Counted(hg, netPart', Flip(part, v))
    BY DEF MoveContext, PartitionExact
  <2> QED BY <1>1, <2>1 DEF Counted
<1> HIDE DEF F, T, S, from, to
<1>10. Cardinality(S) # 2
  BY <1>1, <1>3, <1>5, <1>8, TwoElements
<1>11. Cardinality(T) # 1 /\ Cardinality(F) # 0
  <2>1. Cardinality(T) # 1
    BY <1>5, <1>7, <1>8, CountOne
  <2>2. Cardinality(F) # 0
    BY <1>7, <1>8, CountNone
  <2> QED BY <2>1, <2>2
<1>12. part[q] # from => Cardinality(T) # 2
  BY <1>4, <1>5, <1>7, <1>8, TwoElements
<1>13. part[q] = from => Cardinality(F) # 1
  BY <1>5, <1>7, <1>8, CountOne
<1>14. GainDelta(e, q, from, to, netPart'[e].count) = 0
  BY <1>9, <1>10, <1>11, <1>12, <1>13 DEF GainDelta, S
<1> QED BY <1>14 DEF from, to


\* So the locked nets may be skipped.
LEMMA UnlockedSuffice ==
  ASSUME NEW v, MoveContext(v), NEW q, q # v, q \notin ToSet(moves)
  PROVE  Delta(UnlockedNets(v), q, part[v], Other(part[v]), netPart')
           = Delta(hg.nets[v], q, part[v], Other(part[v]), netPart')
<1> DEFINE U == {e \in UnlockedNets(v) : q \in hg.pins[e]}
           A == {e \in hg.nets[v] : q \in hg.pins[e]}
           d(e) == GainDelta(e, q, part[v], Other(part[v]), netPart'[e].count)
           f == [e \in A |-> d(e)]
           g == [e \in U |-> d(e)]
<1>1. /\ Delta(UnlockedNets(v), q, part[v], Other(part[v]), netPart') = Total(g, U)
      /\ Delta(hg.nets[v], q, part[v], Other(part[v]), netPart') = Total(f, A)
  BY DEF Delta, SumOver, Total
<1>2. U \in SUBSET A /\ A \in SUBSET Hyperedge
  BY DEF UnlockedNets, MoveContext, Listed
<1>3. IsFiniteSet(A) /\ IsFiniteSet(U)
  BY <1>2, HypergraphAssumption, FS_Subset
<1>4. \A e \in A : d(e) \in Int
  <2> SUFFICES ASSUME NEW e \in A PROVE d(e) \in Int
    OBVIOUS
  <2>1. edgeWeight[e] \in Nat
    BY <1>2 DEF MoveContext, Weighted
  <2>2. d(e) = PinDelta(hg.pins[e], edgeWeight[e], part, netPart'[e].count, v, q)
    BY DEF GainDelta, PinDelta
  <2>3. PinDelta(hg.pins[e], edgeWeight[e], part, netPart'[e].count, v, q) \in Int
    BY <2>1, PinDeltaTyped
  <2> QED BY <2>2, <2>3
<1>5. ASSUME NEW e \in A \ U PROVE d(e) = 0
  <2>1. e \in hg.nets[v] /\ q \in hg.pins[e] /\ locks[e] = Locked
    BY DEF UnlockedNets
  <2> QED BY <2>1, LockedNothing
<1> HIDE DEF d
<1>6. /\ \A e \in A : f[e] \in Int
      /\ \A e \in A \ U : f[e] = 0
      /\ \A e \in U : g[e] = f[e] /\ g[e] \in Int
  BY <1>2, <1>4, <1>5
<1> HIDE DEF f, g, U, A
<1>7. Total(f, A) = Total(f, U)
  BY <1>2, <1>3, <1>6, TotalOfOthers
<1>8. Total(f, U) = Total(g, U)
  BY <1>2, <1>3, <1>6, TotalEqual
<1> QED BY <1>1, <1>7, <1>8

\* The keys stay the cached gains.
LEMMA MoveKeysKept ==
  ASSUME NEW v, MoveContext(v)
  PROVE  KeysExact'
<1>1. /\ key' = [q \in ((DOMAIN key \ {v}) \cup FoundOf(v)) \ InternalOf(v) |->
                   IF q \in FoundOf(v) THEN cache'[q]
                   ELSE key[q] + Delta(UnlockedNets(v), q, part[v], Other(part[v]), netPart')]
      /\ cache' = MovedCache(v)
  BY DEF MoveContext, MoveOfQueue
<1>2. \A q \in FoundOf(v) : cutNets'[q] > 0 /\ ~ IsFixed(q)
  BY FoundInside
<1> SUFFICES ASSUME NEW q \in DOMAIN key' PROVE key'[q] = cache'[q] /\ cutNets'[q] > 0 /\ ~ IsFixed(q)
  BY DEF KeysExact, IsBorder
<1>3. CASE q \in FoundOf(v)
  BY <1>1, <1>2, <1>3
<1>4. CASE q \notin FoundOf(v)
  <2>1. /\ q \in DOMAIN key /\ q # v /\ q \notin InternalOf(v)
        /\ key'[q] = key[q] + Delta(UnlockedNets(v), q, part[v], Other(part[v]), netPart')
    BY <1>1, <1>4
  <2>2. /\ q \in hg.nodes /\ q \in Hypernode /\ q \notin ToSet(moves)
        /\ key[q] = cache[q] /\ cutNets[q] > 0 /\ ~ IsFixed(q)
    BY <2>1 DEF MoveContext, StatesExact, KeysExact, IsBorder
  <2>3. cache[q] # NotCached
    BY <2>2, GainTyped DEF MoveContext, Cached, PartitionExact
  <2>4. cache'[q] = cache[q] + Delta(hg.nets[v], q, part[v], Other(part[v]), netPart')
    BY <1>1, <2>1, <2>2, <2>3 DEF MovedCache
  <2>5. key'[q] = cache'[q]
    BY <2>1, <2>2, <2>4, UnlockedSuffice
  <2>6. cutNets'[q] # 0 /\ cutNets'[q] \in Nat
    <3>1. cutNets'[q] # 0
      BY <2>1, <2>2 DEF InternalOf
    <3>2. cutNets'[q] = Cardinality({e \in hg'.nets[q] : netPart'[e].connectivity > 1})
      BY <2>2 DEF MoveContext, PartitionExact
    <3>3. IsFiniteSet({e \in hg'.nets[q] : netPart'[e].connectivity > 1})
      <4>1. {e \in hg'.nets[q] : netPart'[e].connectivity > 1} \in SUBSET Hyperedge
        BY <2>2 DEF MoveContext, Listed
      <4> QED BY <4>1, HypergraphAssumption, FS_Subset
    <3> QED BY <3>1, <3>2, <3>3, FS_CardinalityType
  <2> QED BY <2>2, <2>5, <2>6
<1> QED BY <1>3, <1>4

\* A hypernode that becomes a border node is a pin of a net of v that is cut by
\* this move, and no pin of it had been moved into the block of v.
LEMMA NewBorder ==
  ASSUME NEW v, MoveContext(v), NEW q \in hg.nodes, ~ cutNets[q] > 0, cutNets'[q] > 0
  PROVE  \E e \in hg.nets[v] : /\ q \in hg.pins[e] /\ locks[e] # Locked /\ locks[e] # Other(part[v])
                               /\ netPart'[e].count[Other(part[v])] = 1
<1> DEFINE C == {e \in hg.nets[q] : netPart[e].connectivity > 1}
           D == {e \in hg.nets[q] : netPart'[e].connectivity > 1}
           to == Other(part[v])
<1>1. /\ cutNets[q] = Cardinality(C) /\ cutNets'[q] = Cardinality(D)
      /\ hg.nets[q] \in SUBSET Hyperedge /\ \A e \in hg.nets[q] : e \in hg.edges /\ q \in hg.pins[e]
  BY DEF MoveContext, PartitionExact, Listed
<1>2. IsFiniteSet(C) /\ IsFiniteSet(D)
  <2>1. C \in SUBSET Hyperedge /\ D \in SUBSET Hyperedge
    BY <1>1
  <2> QED BY <2>1, HypergraphAssumption, FS_Subset
<1>3. C = {} /\ D # {}
  <2> HIDE DEF C, D
  <2>1. Cardinality(C) \in Nat /\ Cardinality(D) # 0
    BY <1>1, <1>2, FS_CardinalityType
  <2> QED BY <1>1, <1>2, <2>1, CountNone
<1>4. PICK e \in hg.nets[q] : netPart'[e].connectivity > 1 /\ ~ netPart[e].connectivity > 1
  BY <1>3
<1>5. /\ e \in hg.edges /\ q \in hg.pins[e] /\ hg.pins[e] \subseteq hg.nodes
      /\ IsCut(hg.pins[e], Flip(part, v)) /\ ~ IsCut(hg.pins[e], part)
  BY <1>1, <1>4 DEF MoveContext, PartitionExact, Connects, Listed
<1>6. /\ to \in Block /\ to # part[v] /\ part[v] \in Block /\ v \in Hypernode /\ v \in hg.nodes
      /\ part \in [Hypernode -> Block \cup {NoBlock}]
      /\ Flip(part, v)[v] = to /\ \A z \in Hypernode \ {v} : Flip(part, v)[z] = part[z]
  BY OtherBlock DEF MoveContext, PartitionExact, Parted, Flip
<1>7. v \in hg.pins[e] /\ \A x \in hg.pins[e] : part[x] = part[v]
  <2>1. v \in hg.pins[e]
    <3> SUFFICES ASSUME v \notin hg.pins[e] PROVE FALSE
      OBVIOUS
    <3>1. \A x \in hg.pins[e] : Flip(part, v)[x] = part[x]
      BY <1>5, <1>6 DEF MoveContext
    <3> QED BY <1>5, <3>1 DEF IsCut
  <2> QED BY <1>5, <2>1 DEF IsCut
<1>8. e \in hg.nets[v] /\ e \in Hyperedge
  BY <1>1, <1>5, <1>6, <1>7 DEF MoveContext, Listed
<1>9. In(hg.pins[e], Flip(part, v), to) = {v}
  BY <1>5, <1>6, <1>7 DEF In, MoveContext
<1>10. netPart'[e].count[to] = 1
  <2>1. netPart'[e].count[to] = Cardinality(In(hg.pins[e], Flip(part, v), to))
    BY <1>5, <1>6 DEF MoveContext, PartitionExact, Counted
  <2> QED BY <1>9, <2>1, FS_Singleton
<1>11. locks[e] # Locked /\ locks[e] # to
  <2> DEFINE B == MovedInto(part, ToSet(moves), hg.pins[e])
  <2>1. B \in SUBSET Block
    BY <1>5, MovedBlocks
  <2>2. to \notin B
    BY <1>6, <1>7 DEF MovedInto
  <2>3. locks[e] = LockOf(B)
    BY <1>5 DEF MoveContext, LocksExact
  <2> HIDE DEF B
  <2> QED BY <1>6, <2>1, <2>2, <2>3, LockOfIs
<1> QED BY <1>5, <1>8, <1>10, <1>11

\* Around what has been moved every free border node is queued.
LEMMA MoveNeighbours ==
  ASSUME NEW v, MoveContext(v)
  PROVE  NeighboursExact'
<1> DEFINE to == Other(part[v])
<1>1. DOMAIN key' = ((DOMAIN key \ {v}) \cup FoundOf(v)) \ InternalOf(v)
  BY MoveStates
<1>2. /\ hg' = hg /\ ToSet(moves') = ToSet(moves) \cup {v} /\ v \in hg.nodes
      /\ \A x \in ToSet(moves) \cup {v} : x \in Hypernode
  BY DEF MoveContext
<1> SUFFICES ASSUME NEW x \in ToSet(moves) \cup {v}, NEW e \in hg.nets[x], NEW q \in hg.pins[e],
                    cutNets'[q] > 0, ~ IsFixed(q), q \notin DOMAIN key', q \notin ToSet(moves) \cup {v}
             PROVE  FALSE
  BY <1>2 DEF NeighboursExact, IsBorder
<1>3. q \notin DOMAIN key
  <2> SUFFICES ASSUME q \in DOMAIN key PROVE FALSE
    OBVIOUS
  <2>1. q \in InternalOf(v)
    BY <1>1
  <2> QED BY <2>1 DEF InternalOf
<1>4. x \in hg.nodes /\ e \in hg.edges /\ x \in hg.pins[e] /\ q \in hg.nodes /\ q \in Hypernode
  BY <1>2 DEF MoveContext, Listed
<1>5. state[q] = "inactive"
  BY <1>3, <1>4 DEF MoveContext, StatesExact
<1>6. ASSUME NEW f \in hg.nets[v], q \in hg.pins[f], locks[f] # Locked, locks[f] # to,
             Critical(part[v], to, netPart'[f].count) \/ f \notin fullyActive
      PROVE  FALSE
  <2>1. f \in FullOf(v)
    BY <1>6 DEF FullOf, FullNets, UnlockedNets
  <2>2. q \in FoundOf(v)
    BY <1>5, <1>6, <2>1 DEF FoundOf, Activatable, Inactive
  <2>3. q \in InternalOf(v)
    BY <1>1, <2>2
  <2> QED BY <2>3 DEF InternalOf
<1>7. CASE ~ cutNets[q] > 0
  <2>1. PICK f \in hg.nets[v] : /\ q \in hg.pins[f] /\ locks[f] # Locked /\ locks[f] # to
                                /\ netPart'[f].count[to] = 1
    BY <1>4, <1>7, NewBorder
  <2>2. Critical(part[v], to, netPart'[f].count)
    BY <2>1 DEF Critical
  <2> QED BY <1>6, <2>1, <2>2
<1>8. CASE cutNets[q] > 0
  <2>1. ASSUME NEW y \in ToSet(moves), y \in hg.pins[e] PROVE FALSE
    <3>1. y \in hg.nodes /\ e \in hg.nets[y]
      BY <1>4, <2>1 DEF MoveContext, Listed
    <3> QED BY <1>3, <1>8, <2>1, <3>1 DEF MoveContext, NeighboursExact, IsBorder
  <2>2. x = v
    BY <1>4, <2>1
  <2>3. locks[e] = Free
    <3>1. MovedInto(part, ToSet(moves), hg.pins[e]) = {}
      BY <2>1 DEF MovedInto
    <3>2. LockOf({}) = Free
      BY DEF LockOf
    <3> QED BY <1>4, <3>1, <3>2 DEF MoveContext, LocksExact
  <2>4. e \notin fullyActive
    BY <2>3 DEF MoveContext, LocksExact
  <2>5. locks[e] # Locked /\ locks[e] # to
    <3>1. to \in Block
      BY OtherBlock DEF MoveContext
    <3> QED BY <2>3, <3>1, StatesAssumption
  <2> QED BY <1>6, <2>2, <2>4, <2>5
<1> QED BY <1>7, <1>8


\* The block a hypernode leaves becomes lighter.
LEMMA Lighter ==
  ASSUME NEW v, MoveContext(v)
  PROVE  /\ block'[part[v]].weight \in Int /\ block[part[v]].weight \in Int
         /\ block'[part[v]].weight <= block[part[v]].weight
         /\ block'[Other(part[v])].weight \in Int
<1> DEFINE b == part[v]
           W == {x \in hg.nodes : part[x] = b}
           X == {x \in hg.nodes : part'[x] = b}
<1>1. /\ b \in Block /\ Other(b) \in Block /\ Other(b) # b /\ v \in hg.nodes /\ v \in Hypernode
      /\ part \in [Hypernode -> Block \cup {NoBlock}] /\ part' = Flip(part, v) /\ hg.nodes \subseteq Hypernode
      /\ hg' = hg
  BY OtherBlock DEF MoveContext, PartitionExact, Parted
<1>2. Weights(hg, part) \in [Block -> Int] /\ Weights(hg, part') \in [Block -> Int]
  BY WeightsTyped DEF MoveContext, PartitionExact
<1>3. WeightsOf(block) = Weights(hg, part) /\ WeightsOf(block)' = Weights(hg, part')
  BY <1>1 DEF MoveContext, PartitionExact
<1>4. \A c \in Block : /\ block[c].weight = Weights(hg, part)[c] /\ block[c].weight \in Int
                       /\ block'[c].weight = Weights(hg, part')[c] /\ block'[c].weight \in Int
  BY <1>2, <1>3 DEF WeightsOf
<1>5. block[b].weight = Total(hg.weight, W) /\ block'[b].weight = Total(hg.weight, X)
  BY <1>1, <1>4 DEF Weights
<1>6. X = W \ {v} /\ v \in W
  <2>1. part'[v] = Other(b) /\ \A x \in hg.nodes \ {v} : part'[x] = part[x]
    BY <1>1 DEF Flip
  <2> QED BY <1>1, <2>1
<1>7. IsFiniteSet(W) /\ (\A x \in W : hg.weight[x] \in Int) /\ hg.weight[v] \in Nat
  <2>1. hg.weight \in [Hypernode -> Nat]
    BY DEF MoveContext, PartitionExact
  <2>2. W \in SUBSET Hypernode
    BY <1>1
  <2> QED BY <1>1, <2>1, <2>2, HypergraphAssumption, FS_Subset
<1>8. Total(hg.weight, W) = hg.weight[v] + Total(hg.weight, X)
  <2> HIDE DEF W, X
  <2> QED BY <1>6, <1>7, TotalRemove
<1> HIDE DEF b, W, X
<1>9. block'[b].weight <= block[b].weight
  BY <1>1, <1>4, <1>5, <1>7, <1>8
<1> QED BY <1>1, <1>4, <1>9 DEF b

\* A queue is enabled iff it is not empty and its block is not overloaded.
LEMMA MoveEnabled ==
  ASSUME NEW v, MoveContext(v)
  PROVE  QueuesEnabled'
<1> DEFINE from == part[v]
           to == Other(part[v])
           taken == [q \in DOMAIN key \ {v} |-> key[q]]
           In2(b) == \E q \in DOMAIN key \ {v} : Other(part[q]) = b
           New(b) == \E q \in FoundOf(v) : Other(part[q]) = b
           Later(b) == \E q \in DOMAIN key' : Other(part[q]) = b
           Fits(b) == block'[b].weight < MaxAllowed(b)
<1>1. /\ from \in Block /\ to \in Block /\ from # to /\ \A c \in Block : c = from \/ c = to
      /\ hg' = hg /\ part' = Flip(part, v) /\ maxWeights' = maxWeights
      /\ enabled' = NonEmpty(EnabledBy(MoreOf(v), FoundOf(v), block'), key') /\ to \in enabled
  BY OtherBlock DEF MoveContext, MoveOfQueue
<1>2. /\ DOMAIN key' = ((DOMAIN key \ {v}) \cup FoundOf(v)) \ InternalOf(v)
      /\ v \notin FoundOf(v)
  BY MoveStates, FoundInside
<1>3. /\ block'[from].weight \in Int /\ block[from].weight \in Int
      /\ block'[from].weight <= block[from].weight /\ block'[to].weight \in Int
  BY Lighter
<1>4. MaxAllowed(from) \in Int /\ MaxAllowed(to) \in Int
  BY <1>1, WeightsAssumption DEF MoveContext, PartitionExact, MaxAllowed
<1>5. /\ enabled \in SUBSET Block
      /\ \A b \in Block : b \in enabled <=> (\E q \in DOMAIN key : Other(part[q]) = b)
                                            /\ block[b].weight < MaxAllowed(b)
  BY DEF MoveContext, QueuesEnabled, Queued
<1>6. \A b \in Block : Queued(taken, b) <=> In2(b)
  BY DEF Queued
<1>7. \A b \in Block : Queued(key', b) <=> Later(b)
  BY DEF Queued
<1>8. \A b \in Block : Later(b) => In2(b) \/ New(b)
  BY <1>2
<1>9. StayOf(v) = {b \in enabled : In2(b)}
  BY <1>5, <1>6 DEF StayOf, NonEmpty
<1> HIDE DEF In2, New, Later
<1>10. to \in MoreOf(v) <=> In2(to) /\ Fits(to)
  <2>1. to \in StayOf(v) <=> In2(to)
    BY <1>1, <1>9
  <2>2. to \in LessOf(v) <=> In2(to) /\ Fits(to)
    BY <1>3, <1>4, <2>1 DEF LessOf
  <2> QED BY <1>1, <2>2 DEF MoreOf, Enable
<1>11. from \in MoreOf(v) <=> In2(from) /\ Fits(from)
  <2>1. from \in StayOf(v) => In2(from) /\ Fits(from)
    BY <1>1, <1>3, <1>4, <1>5, <1>9
  <2>2. from \in LessOf(v) <=> from \in StayOf(v)
    BY <1>1 DEF LessOf
  <2>3. CASE Fits(from)
    BY <1>1, <1>6, <2>1, <2>2, <2>3 DEF MoreOf, Enable
  <2>4. CASE ~ Fits(from)
    BY <2>1, <2>2, <2>4 DEF MoreOf
  <2> QED BY <2>3, <2>4
<1>12. \A b \in Block : b \in MoreOf(v) <=> In2(b) /\ Fits(b)
  BY <1>1, <1>10, <1>11
<1>13. MoreOf(v) \subseteq Block
  BY <1>1, <1>5, <1>9 DEF MoreOf, LessOf, Enable
<1>14. EnabledBy(MoreOf(v), FoundOf(v), block') = {b \in Block : b \in MoreOf(v) \/ (Fits(b) /\ New(b))}
  BY <1>13 DEF EnabledBy, New
<1>15. enabled' = {b \in Block : (In2(b) \/ New(b)) /\ Fits(b) /\ Later(b)}
  BY <1>1, <1>7, <1>12, <1>14 DEF NonEmpty
<1>16. \A b \in Block : b \in enabled' <=> Later(b) /\ Fits(b)
  BY <1>8, <1>15
<1>17. \A b \in Block : Queued(key, b)' <=> Later(b)
  <2>1. \A q \in DOMAIN key' : part'[q] = part[q]
    <3>1. \A q \in DOMAIN key' : q # v
      BY <1>2
    <3>2. DOMAIN key' \subseteq Hypernode
      BY MoveStates DEF StatesExact
    <3> QED BY <1>1, <3>1, <3>2 DEF Flip, MoveContext, PartitionExact, Parted
  <2> QED BY <2>1 DEF Queued, Later
<1>18. \A b \in Block : MaxAllowed(b)' = MaxAllowed(b)
  BY <1>1 DEF MaxAllowed
<1> QED BY <1>15, <1>16, <1>17, <1>18 DEF QueuesEnabled

\* The queue, the states and the locks belong together after a move, too.
LEMMA MoveQueues ==
  ASSUME NEW v, MoveContext(v)
  PROVE  QueueStates'
BY MoveStates, MoveKeysKept, MoveLocks, MoveNeighbours, MoveEnabled DEF QueueStates

\* A move: the cache follows the partition, the deltas lead back to the best one.
LEMMA MoveKeeps ==
  ASSUME GainInv, LevelExact, LevelExact', NEW v \in Hypernode, Move(v)
  PROVE  /\ GainInv'
         /\ search'.best = search.best => BestPart' = BestPart
         /\ search'.best # search.best => BestPart' = part'
<1> DEFINE better == Improved(search.cut - key[v], block', part[v])
           change(q) == Delta(hg.nets[v], q, part[v], Other(part[v]), netPart')
<1>1. /\ search.stage = "moving"
      /\ N!ChangeNodePart(v, Other(part[v]))
      /\ cache' = MovedCache(v)
      /\ delta' = [q \in Hypernode |-> IF better THEN 0
                                       ELSE IF q = v THEN delta[v] + 2 * cache[v] ELSE delta[q] - change(q)]
      /\ moves' = Append(moves, v)
      /\ metrics' = IF better THEN [cut |-> search.cut - key[v], imbalance |-> Imbalance(WeightsOf(block'))]
                    ELSE metrics
      /\ search' = [search EXCEPT !.cut = search.cut - key[v], !.best = IF better THEN Len(moves') ELSE @]
      /\ changes' = changes
  BY DEF Move, MovedCache
<1>2. QueueStates' /\ v \in DOMAIN key /\ v \in hg.nodes /\ v \notin ToSet(moves) /\ key[v] = cache[v]
  <2>1. MoveContext(v)
    BY MoveKnown
  <2>2. QueueStates'
    BY <2>1, MoveQueues
  <2>3. v \in DOMAIN key /\ v \in hg.nodes /\ v \notin ToSet(moves) /\ KeysExact
    BY <2>1 DEF MoveContext, MoveOfQueue
  <2> QED BY <2>2, <2>3 DEF KeysExact
<1>3. Moves(v)
  BY <1>1, ChangeMoves
<1>4. part' = Flip(part, v) /\ phase = "refining" /\ UNCHANGED <<hg, edgeWeight, phase, pc>>
  BY <1>3 DEF Moves
<1>5. /\ SearchTyped /\ PartitionExact /\ Cached(cache, hg, edgeWeight, part)
      /\ Cached(RolledBack, hg, edgeWeight, BestPart)
      /\ \A x \in Hypernode \ hg.nodes : cache[x] = NotCached
      /\ part \in [Hypernode -> Block \cup {NoBlock}] /\ part[v] \in Block
      /\ Listed(hg) /\ Weighted(edgeWeight) /\ hg.nodes \subseteq Hypernode
  BY <1>1, <1>2, <1>4 DEF GainInv, GainsKept, LevelExact, Searching, PartitionExact, Parted, Listed
<1>6. /\ cache' \in [Hypernode -> Int \cup {NotCached}]
      /\ \A x \in Hypernode \ hg'.nodes : cache'[x] = NotCached
      /\ cache[v] \in Int
  BY <1>1, <1>2, <1>4, <1>5, MovedTyped
<1>7. Cached(cache', hg', edgeWeight', part')
  BY <1>1, <1>3, <1>5, MoveCached
<1>8. \A q \in Hypernode : change(q) \in Int
  BY <1>5, DeltaTyped
<1>9. delta' \in [Hypernode -> Int] /\ delta \in [Hypernode -> Int]
  <2>1. delta \in [Hypernode -> Int]
    BY <1>5 DEF SearchTyped
  <2>2. delta[v] + 2 * cache[v] \in Int /\ \A q \in Hypernode : delta[q] - change(q) \in Int
    BY <1>6, <1>8, <2>1
  <2> HIDE DEF change
  <2> QED BY <1>1, <2>1, <2>2
<1> HIDE DEF better, change
<1>10. /\ search.cut \in Int /\ search.best \in Nat /\ moves \in Seq(Hypernode) /\ Len(moves) \in Nat
       /\ moves' \in Seq(Hypernode) /\ Len(moves') = Len(moves) + 1 /\ moves'[Len(moves) + 1] = v
       /\ \A i \in 1 .. Len(moves) : moves'[i] = moves[i]
       /\ search.best <= Len(moves)
       /\ \A i, j \in 1 .. Len(moves) : moves[i] = moves[j] => i = j
       /\ \A i \in 1 .. Len(moves) : moves[i] \in hg.nodes /\ moves[i] # v
  <2>1. /\ search.cut \in Int /\ search.best \in Nat /\ moves \in Seq(Hypernode) /\ Len(moves) \in Nat
        /\ search.best <= Len(moves)
        /\ \A i, j \in 1 .. Len(moves) : moves[i] = moves[j] => i = j
        /\ \A i \in 1 .. Len(moves) : moves[i] \in hg.nodes
    BY <1>1 DEF GainInv, SearchTyped, StagesKept, Searching
  <2>2. \A i \in 1 .. Len(moves) : moves[i] # v
    BY <1>2, <2>1 DEF ToSet
  <2> QED BY <1>1, <2>1, <2>2
<1>11. key[v] \in Int
  BY <1>2, <1>6
<1>12. /\ search'.stage = "moving" /\ search'.nodes = search.nodes
       /\ search'.best = IF better THEN Len(moves) + 1 ELSE search.best
       /\ search' \in [stage : Stages, nodes : Seq(Hypernode), cut : Int, initialCut : Int, initialImbalance : Int,
                       best : Nat, cursor : Nat, iteration : Nat, dictated : SUBSET Hypernode]
  <2>1. search.cut - key[v] \in Int /\ (IF better THEN Len(moves') ELSE search.best) \in Nat
    BY <1>10, <1>11
  <2> QED BY <1>1, <1>5, <1>10, <2>1 DEF SearchTyped, Stages
<1>13. SearchTyped'
  <2>1. metrics' \in [cut : Int, imbalance : Int]
    <3>1. Imbalance(WeightsOf(block')) \in Int
      <4>1. WeightsOf(block)' = Weights(hg', part') /\ hg'.weight \in [Hypernode -> Nat] /\ Listed(hg')
        BY <1>4 DEF LevelExact, PartitionExact
      <4>2. Weights(hg', part') \in [Block -> Int]
        BY <4>1, WeightsTyped
      <4>3. WeightsOf(block') = WeightsOf(block)'
        OBVIOUS
      <4> QED BY <4>1, <4>2, <4>3, ImbalanceTyped
    <3>2. search.cut - key[v] \in Int
      BY <1>10, <1>11
    <3> QED BY <1>1, <1>5, <3>1, <3>2 DEF SearchTyped
  <2> QED BY <1>1, <1>5, <1>6, <1>9, <1>10, <1>12, <2>1 DEF SearchTyped
<1>14. StagesKept'
  <2>1. /\ search'.best <= Len(moves')
        /\ \A i, j \in 1 .. Len(moves') : moves'[i] = moves'[j] => i = j
        /\ \A i \in 1 .. Len(moves') : moves'[i] \in hg'.nodes
    <3>1. \A i \in 1 .. Len(moves') : i \in 1 .. Len(moves) \/ i = Len(moves) + 1
      BY <1>10
    <3>2. search'.best <= Len(moves')
      BY <1>10, <1>12
    <3>3. \A i \in 1 .. Len(moves') : moves'[i] \in hg'.nodes
      <4> SUFFICES ASSUME NEW i \in 1 .. Len(moves') PROVE moves'[i] \in hg'.nodes
        OBVIOUS
      <4> QED BY <1>2, <1>4, <1>10, <3>1
    <3>4. ASSUME NEW i \in 1 .. Len(moves'), NEW j \in 1 .. Len(moves'), moves'[i] = moves'[j]
          PROVE  i = j
      <4>1. CASE i \in 1 .. Len(moves) /\ j \in 1 .. Len(moves)
        BY <1>10, <3>4, <4>1
      <4>2. CASE i = Len(moves) + 1 /\ j \in 1 .. Len(moves)
        BY <1>10, <3>4, <4>2
      <4>3. CASE i \in 1 .. Len(moves) /\ j = Len(moves) + 1
        BY <1>10, <3>4, <4>3
      <4>4. CASE i = Len(moves) + 1 /\ j = Len(moves) + 1
        BY <4>4
      <4> QED BY <3>1, <4>1, <4>2, <4>3, <4>4
    <3> QED BY <3>2, <3>3, <3>4
  <2>2. /\ phase' = "refining" /\ pc' = "search" /\ Len(search'.nodes) = 2 /\ search'.nodes[1] # search'.nodes[2]
        /\ search'.nodes[1] \in hg'.nodes /\ search'.nodes[2] \in hg'.nodes
    BY <1>1, <1>4, <1>12 DEF GainInv, StagesKept
  <2> QED BY <1>12, <2>1, <2>2 DEF StagesKept, Searching
<1>15. CASE better
  <2>1. Ahead' = {}
    BY <1>10, <1>12, <1>15 DEF Ahead
  <2>2. BestPart' = part'
    <3>1. BestPart' = [x \in Hypernode |-> part'[x]]
      BY <2>1 DEF BestPart
    <3>2. part' \in [Hypernode -> Block \cup {NoBlock}]
      BY <1>4 DEF LevelExact, PartitionExact, Parted
    <3> QED BY <3>1, <3>2
  <2>3. RolledBack' = cache'
    <3>1. \A q \in Hypernode : delta'[q] = 0
      BY <1>1, <1>15
    <3>2. \A q \in Hypernode : cache'[q] # NotCached => cache'[q] + delta'[q] = cache'[q]
      BY <1>6, <3>1
    <3>3. RolledBack' = [q \in Hypernode |-> cache'[q]]
      BY <3>2 DEF RolledBack
    <3> QED BY <1>6, <3>3
  <2>4. Cached(RolledBack', hg', edgeWeight', BestPart')
    BY <1>7, <2>2, <2>3
  <2>5. GainsKept'
    BY <1>6, <1>7, <1>12, <2>4 DEF GainsKept, Searching
  <2>6. search'.best # search.best
    BY <1>10, <1>12, <1>15
  <2> QED BY <1>2, <1>13, <1>14, <2>2, <2>5, <2>6 DEF GainInv
<1>16. CASE ~ better
  <2>1. Ahead' = Ahead \cup {v} /\ v \notin Ahead
    <3>1. /\ Ahead = {moves[i] : i \in search.best + 1 .. Len(moves)}
          /\ Ahead' = {moves'[i] : i \in search.best + 1 .. Len(moves) + 1}
      BY <1>1, <1>10, <1>12, <1>16 DEF Ahead
    <3>2. search.best + 1 .. Len(moves) + 1 = (search.best + 1 .. Len(moves)) \cup {Len(moves) + 1}
      BY <1>10
    <3>3. \A i \in search.best + 1 .. Len(moves) : i \in 1 .. Len(moves) /\ moves'[i] = moves[i]
      BY <1>10
    <3> QED BY <1>10, <3>1, <3>2, <3>3
  <2>2. BestPart' = BestPart
    <3>1. BestPart' = [x \in Hypernode |-> IF x \in Ahead' THEN Other(Flip(part, v)[x]) ELSE Flip(part, v)[x]]
      BY <1>4 DEF BestPart
    <3>2. BestPart = [x \in Hypernode |-> IF x \in Ahead THEN Other(part[x]) ELSE part[x]]
      BY DEF BestPart
    <3> QED BY <1>5, <2>1, <3>1, <3>2, AheadMoves
  <2>3. \A q \in hg.nodes : RolledBack'[q] = RolledBack[q]
    <3> SUFFICES ASSUME NEW q \in hg.nodes PROVE RolledBack'[q] = RolledBack[q]
      OBVIOUS
    <3>1. cache[q] \in Int /\ cache[q] # NotCached /\ q \in Hypernode
      BY <1>5, GainTyped DEF Cached, PartitionExact
    <3>2. cache'[q] = IF q = v THEN - cache[v] ELSE cache[q] + change(q)
      BY <1>1, <3>1 DEF MovedCache, change
    <3>3. delta'[q] = IF q = v THEN delta[v] + 2 * cache[v] ELSE delta[q] - change(q)
      BY <1>1, <1>16, <3>1
    <3>4. cache'[q] \in Int /\ change(q) \in Int /\ delta[q] \in Int
      BY <1>6, <1>8, <1>9, <3>1, <3>2
    <3>5. cache'[q] # NotCached
      BY <3>4, NotCachedAssumption
    <3>6. RolledBack'[q] = cache'[q] + delta'[q] /\ RolledBack[q] = cache[q] + delta[q]
      BY <3>1, <3>5 DEF RolledBack
    <3>7. CASE q = v
      BY <3>1, <3>2, <3>3, <3>4, <3>6, <3>7
    <3>8. CASE q # v
      BY <3>1, <3>2, <3>3, <3>4, <3>6, <3>8
    <3> QED BY <3>7, <3>8
  <2>4. Cached(RolledBack', hg', edgeWeight', BestPart')
    BY <1>4, <1>5, <2>2, <2>3 DEF Cached
  <2>5. GainsKept'
    BY <1>6, <1>7, <1>12, <2>4 DEF GainsKept, Searching
  <2>6. search'.best = search.best
    BY <1>12, <1>16
  <2> QED BY <1>2, <1>13, <1>14, <2>2, <2>5, <2>6 DEF GainInv
<1> QED BY <1>15, <1>16

\* Every step keeps the gains, if the level is exact before and after it, and
\* uncontractions leave no net with a single pin.
LEMMA GainStep ==
  ASSUME GainInv, LevelExact, LevelExact', [Next]_vars, Uncontract => NoSinglePins(hg')
  PROVE  GainInv'
<1>1. CASE Coarsening
  BY <1>1, CoarseningKeeps
<1>2. CASE BeginUncoarsening
  BY <1>2, BeginUncoarseningKeeps
<1>3. CASE RestoreNets
  BY <1>3, RestoreKeeps
<1>4. CASE Uncontract
  BY <1>4, UncontractKeeps
<1>5. CASE SkipFlow
  BY <1>5, SkipFlowKeeps
<1>6. CASE BeginDictated
  BY <1>6, BeginDictatedKeeps
<1>7. CASE EndDictated
  BY <1>7, EndDictatedKeeps
<1>8. CASE Refine
  BY <1>8, RefineKeeps
<1>9. CASE \E v \in Hypernode : DictatedMove(v)
  BY <1>9, DictatedMoveKeeps
<1>10. CASE \E v \in Hypernode : Move(v)
  BY <1>10, MoveKeeps
<1>11. CASE StopMoving
  BY <1>11, StopMovingKeeps
<1>12. CASE Rollback
  BY <1>12, RollbackKeeps
<1>13. CASE EndSearch
  BY <1>13, EndSearchKeeps
<1>14. CASE UNCHANGED vars
  <2>1. /\ UNCHANGED <<hg, phase, pc, part, edgeWeight, cache, delta, key, state, moves, changes, metrics, search>>
        /\ UNCHANGED <<enabled, locks, fullyActive, cutNets, block, maxWeights>>
    BY <1>14 DEF vars, level, members, gains, queue
  <2>2. Ahead' = Ahead
    BY <2>1 DEF Ahead
  <2>3. BestPart' = BestPart /\ RolledBack' = RolledBack
    BY <2>1, <2>2 DEF BestPart, RolledBack
  <2>4. Applied(search.nodes[1], search.nodes[2])' = Applied(search.nodes[1], search.nodes[2])
    BY <2>1 DEF Applied
  <2>5. SearchTyped' /\ StagesKept' /\ QueueStates'
    <3>1. SearchTyped' /\ StagesKept'
      BY <2>1 DEF GainInv, SearchTyped, StagesKept, Searching
    <3>2. StatesExact => StatesExact'
      BY <2>1 DEF StatesExact
    <3>3. KeysExact => KeysExact'
      BY <2>1 DEF KeysExact, IsBorder
    <3>4. LocksExact => LocksExact'
      BY <2>1 DEF LocksExact
    <3>5. NeighboursExact => NeighboursExact'
      BY <2>1 DEF NeighboursExact, IsBorder
    <3>6. QueuesEnabled => QueuesEnabled'
      BY <2>1 DEF QueuesEnabled, Queued, MaxAllowed
    <3> QED BY <2>1, <3>1, <3>2, <3>3, <3>4, <3>5, <3>6 DEF GainInv, QueueStates
  <2>6. GainsKept'
    BY <2>1, <2>3, <2>4 DEF GainInv, GainsKept, Cached, Searching
  <2> QED BY <2>5, <2>6 DEF GainInv
<1> QED BY <1>1, <1>2, <1>3, <1>4, <1>5, <1>6, <1>7, <1>8, <1>9, <1>10, <1>11, <1>12, <1>13, <1>14
        DEF Next, Uncoarsening

\* What ASSERT_THAT_GAIN_CACHE_IS_VALID asks for follows.
LEMMA GainExact ==
  ASSUME GainInv, LevelExact
  PROVE  GainCacheExact
<1> SUFFICES ASSUME phase = "refining" PROVE GainCacheExact
  BY DEF GainCacheExact
<1>1. /\ Listed(hg) /\ Weighted(edgeWeight) /\ Parted(part, hg.nodes) /\ Counted(hg, netPart, part)
  BY DEF LevelExact, PartitionExact
<1>2. \A v \in hg.nodes : Gain(v) = GainOf(hg, edgeWeight, part, v)
  BY <1>1, GainDefined, GainIs
<1>3. CASE search.stage \in {"idle", "dictated", "moving"}
  <2>1. \A v \in hg.nodes : cache[v] = Gain(v)
    BY <1>2, <1>3 DEF GainInv, GainsKept, Cached
  <2> QED BY <1>3, <2>1 DEF GainCacheExact
<1>4. CASE search.stage \in {"flow", "refine"}
  <2>1. \A v \in hg.nodes : Applied(search.nodes[1], search.nodes[2])[v] = Gain(v)
    BY <1>2, <1>4 DEF GainInv, GainsKept, Cached
  <2> QED BY <1>4, <2>1 DEF GainCacheExact
<1>5. CASE search.stage \notin {"idle", "dictated", "moving", "flow", "refine"}
  BY <1>5 DEF GainCacheExact
<1> QED BY <1>3, <1>4, <1>5
-----------------------------------------------------------------------------
(* The metrics of the search, and the order of the partitions it visits.     *)

\* The members keep their types from search to search.
MembersTyped ==
  /\ DOMAIN key \subseteq Hypernode
  /\ enabled \in SUBSET Block
  /\ state \in [Hypernode -> {"inactive", "active", "marked"}]
  /\ locks \in [Hyperedge -> Block \cup {Free, Locked}]
  /\ fullyActive \in SUBSET Hyperedge

MetricsOf(s, ew, p) == [cut |-> CutOf(s, ew, p), imbalance |-> Imbalance(Weights(s, p))]

\* The metrics are those of the present partition where no search runs, of the
\* best one where one does.  (During the moves of a flow they wait for its end.)
MetricsKept ==
  /\ metrics \in [cut : Nat, imbalance : Nat]
  /\ phase = "refining" =>
       /\ search.stage \in {"idle", "flow", "refine"} => metrics = MetricsOf(hg, edgeWeight, part)
       /\ Searching => metrics = MetricsOf(hg, edgeWeight, BestPart)
       /\ search.stage = "moving" => search.cut = CutOf(hg, edgeWeight, part)

\* Both blocks may exceed their perfect weights by the same factor, but for
\* rounding.
Proportional ==
  \A a, b \in Block : a # b =>
    MaxPartWeight[a] * PerfectWeight[b] <= (MaxPartWeight[b] + 1) * PerfectWeight[a]

Fits(s, p) == \A b \in Block : Weights(s, p)[b] <= MaxPartWeight[b]

\* The best partition is no worse than the one that the search began with.
NeverWorse ==
  Searching =>
    /\ metrics.cut <= search.initialCut
    /\ metrics.cut = search.initialCut \/ (Proportional /\ ~ Fits(hg, BestPart)) =>
         metrics.imbalance <= search.initialImbalance

SearchInv == GainInv /\ MembersTyped /\ MetricsKept /\ NeverWorse

\* A sum of natural numbers is one.
LEMMA TotalNatural ==
  ASSUME NEW S, IsFiniteSet(S), NEW f, \A x \in S : f[x] \in Nat
  PROVE  Total(f, S) \in Nat
<1> DEFINE Good == {T \in SUBSET S : Total(f, T) \in Nat}
<1>1. \A T \in SUBSET S : (\A U \in SUBSET T : U # T => U \in Good) => T \in Good
  <2> SUFFICES ASSUME NEW T \in SUBSET S, \A U \in SUBSET T : U # T => U \in Good
               PROVE  Total(f, T) \in Nat
    OBVIOUS
  <2>1. IsFiniteSet(T) /\ \A x \in T : f[x] \in Int
    BY FS_Subset
  <2>2. CASE T = {}
    <3>1. Total(f, T) = 0
      BY <2>1, <2>2, TotalStep
    <3> QED BY <3>1
  <2>3. CASE T # {}
    <3>1. PICK x : x \in T
      BY <2>3
    <3>2. Total(f, T) = f[x] + Total(f, T \ {x})
      BY <2>1, <3>1, TotalRemove
    <3>3. Total(f, T \ {x}) \in Nat /\ f[x] \in Nat
      BY <3>1
    <3> QED BY <3>2, <3>3
  <2> QED BY <2>2, <2>3
<1>2. \A T \in SUBSET S : T \in Good
  <2> HIDE DEF Good
  <2> QED BY <1>1, SubsetInduction
<1> QED BY <1>2

\* Cut, block weights and imbalance are natural numbers.
LEMMA MetricsNatural ==
  ASSUME NEW s, Listed(s), s.weight \in [Hypernode -> Nat], NEW ew, Weighted(ew), NEW p
  PROVE  /\ MetricsOf(s, ew, p) \in [cut : Nat, imbalance : Nat]
         /\ Weights(s, p) \in [Block -> Nat]
<1>1. CutOf(s, ew, p) \in Nat
  <2> DEFINE f == [e \in s.edges |-> NetCut(s.pins[e], ew[e], p)]
  <2>1. IsFiniteSet(s.edges)
    BY HypergraphAssumption, FS_Subset DEF Listed
  <2>2. \A e \in s.edges : f[e] \in Nat
    BY DEF Listed, Weighted, NetCut
  <2>3. Total(f, s.edges) \in Nat
    <3> HIDE DEF f
    <3> QED BY <2>1, <2>2, TotalNatural
  <2> QED BY <2>3 DEF CutOf
<1>2. ASSUME NEW b \in Block PROVE Total(s.weight, {v \in s.nodes : p[v] = b}) \in Nat
  <2> DEFINE S == {v \in s.nodes : p[v] = b}
  <2>1. IsFiniteSet(S) /\ \A v \in S : s.weight[v] \in Nat
    <3>1. S \subseteq Hypernode
      BY DEF Listed
    <3> QED BY <3>1, HypergraphAssumption, FS_Subset
  <2>2. Total(s.weight, S) \in Nat
    <3> HIDE DEF S
    <3> QED BY <2>1, TotalNatural
  <2> QED BY <2>2
<1>3. Weights(s, p) \in [Block -> Nat]
  BY <1>2 DEF Weights
<1>4. Imbalance(Weights(s, p)) \in Nat
  <2> DEFINE w == Weights(s, p)
  <2>1. w \in [Block -> Int]
    BY <1>3
  <2>2. \E b \in Block : Imbalance(w) = w[b] * PerfectWeight[Other(b)]
    <3> HIDE DEF w
    <3> QED BY <2>1, ImbalanceTyped
  <2>3. PICK b \in Block : Imbalance(w) = w[b] * PerfectWeight[Other(b)]
    BY <2>2
  <2>4. Other(b) \in Block
    BY OtherBlock
  <2>5. w[b] \in Nat /\ PerfectWeight[Other(b)] \in Nat
    BY <1>3, <2>4, WeightsAssumption
  <2>6. w[b] * PerfectWeight[Other(b)] \in Nat
    <3> HIDE DEF w
    <3> QED BY <2>5
  <2> QED BY <2>3, <2>6
<1> QED BY <1>1, <1>3, <1>4 DEF MetricsOf

\* A partition of less imbalance than one that fits fits as well, if the blocks
\* may grow in proportion.
LEMMA LighterFits ==
  ASSUME Proportional, NEW w \in [Block -> Nat], NEW x \in [Block -> Nat],
         \A b \in Block : w[b] <= MaxPartWeight[b], Imbalance(x) < Imbalance(w)
  PROVE  \A b \in Block : x[b] <= MaxPartWeight[b]
<1> SUFFICES ASSUME NEW a \in Block, ~ (x[a] <= MaxPartWeight[a]) PROVE FALSE
  OBVIOUS
<1>1. w \in [Block -> Int] /\ x \in [Block -> Int]
  OBVIOUS
<1>2. PICK c \in Block : Imbalance(w) = w[c] * PerfectWeight[Other(c)]
  BY <1>1, ImbalanceTyped
<1>3. x[a] * PerfectWeight[Other(a)] <= Imbalance(x) /\ Imbalance(x) \in Int /\ Imbalance(w) \in Int
  BY <1>1, ImbalanceTyped
<1>4. /\ Other(a) \in Block /\ Other(a) # a /\ Other(Other(a)) = a
      /\ c = a \/ c = Other(a)
  BY OtherBlock
<1> DEFINE Pa == PerfectWeight[a]
           Pb == PerfectWeight[Other(a)]
           Ma == MaxPartWeight[a]
           Mb == MaxPartWeight[Other(a)]
           xa == x[a]
           wa == w[a]
           wb == w[Other(a)]
<1>5. /\ Pa \in Nat /\ Pb \in Nat /\ Pb > 0 /\ Ma \in Nat /\ Mb \in Nat /\ xa \in Nat /\ wa \in Nat /\ wb \in Nat
      /\ xa >= Ma + 1 /\ wa <= Ma /\ wb <= Mb
  BY <1>4, WeightsAssumption
<1>6. Mb * Pa <= (Ma + 1) * Pb
  BY <1>4 DEF Proportional
<1>7. CASE c = a
  <2>1. xa * Pb < wa * Pb
    <3>1. xa * Pb \in Int /\ wa * Pb \in Int
      <4> HIDE DEF Pa, Pb, Ma, Mb, xa, wa, wb
      <4> QED BY <1>5
    <3> QED BY <1>2, <1>3, <1>7, <3>1
  <2> HIDE DEF Pa, Pb, Ma, Mb, xa, wa, wb
  <2>2. wa < xa
    BY <1>5
  <2>3. wa * Pb <= xa * Pb
    BY <1>5, <2>2
  <2>4. xa * Pb \in Int /\ wa * Pb \in Int
    BY <1>5
  <2> QED BY <2>1, <2>3, <2>4
<1>8. CASE c = Other(a)
  <2>1. xa * Pb < wb * Pa
    <3>1. xa * Pb \in Int /\ wb * Pa \in Int
      <4> HIDE DEF Pa, Pb, Ma, Mb, xa, wa, wb
      <4> QED BY <1>5
    <3> QED BY <1>2, <1>3, <1>4, <1>8, <3>1
  <2> HIDE DEF Pa, Pb, Ma, Mb, xa, wa, wb
  <2>2. wb * Pa <= Mb * Pa
    BY <1>5
  <2>3. (Ma + 1) * Pb <= xa * Pb
    BY <1>5
  <2>4. xa * Pb \in Int /\ wb * Pa \in Int /\ Mb * Pa \in Int /\ (Ma + 1) * Pb \in Int
    BY <1>5
  <2> QED BY <1>6, <2>1, <2>2, <2>3, <2>4
<1> QED BY <1>4, <1>7, <1>8


\* What is left alone keeps its type.
LEMMA MembersLeft ==
  ASSUME MembersTyped, UNCHANGED <<key, enabled, state, locks, fullyActive>>
  PROVE  MembersTyped'
BY DEF MembersTyped

\* The metrics from scratch are those of the partition.
LEMMA MetricsAre ==
  ASSUME Listed(hg), Weighted(edgeWeight), PartitionExact
  PROVE  /\ [cut |-> Cut, imbalance |-> Imbalance(WeightsOf(block))] = MetricsOf(hg, edgeWeight, part)
         /\ MetricsOf(hg, edgeWeight, part) \in [cut : Nat, imbalance : Nat]
<1>1. Cut = CutOf(hg, edgeWeight, part)
  BY CutTyped DEF PartitionExact
<1>2. WeightsOf(block) = Weights(hg, part) /\ hg.weight \in [Hypernode -> Nat]
  BY DEF PartitionExact
<1> QED BY <1>1, <1>2, MetricsNatural DEF MetricsOf

\* They stay where cut and block weights do.
LEMMA MetricsStay ==
  ASSUME PartitionExact, PartitionExact', WeightsOf(block)' = WeightsOf(block),
         CutOf(hg', edgeWeight', part') = CutOf(hg, edgeWeight, part)
  PROVE  MetricsOf(hg', edgeWeight', part') = MetricsOf(hg, edgeWeight, part)
<1>1. WeightsOf(block) = Weights(hg, part) /\ WeightsOf(block)' = Weights(hg', part')
  BY DEF PartitionExact
<1>2. Weights(hg', part') = Weights(hg, part)
  BY <1>1
<1> QED BY <1>2 DEF MetricsOf

\* Between levels no search runs, and restored nets change no metric.
LEMMA RestoreMeasured ==
  ASSUME SearchInv, LevelExact, LevelExact', RestoreNets
  PROVE  MembersTyped' /\ MetricsKept' /\ NeverWorse'
<1>1. /\ search.stage = "idle"
      /\ UNCHANGED <<key, enabled, state, locks, fullyActive, metrics, search>>
  BY DEF RestoreNets, members, gains, queue
<1>2. MembersTyped'
  BY <1>1, MembersLeft DEF SearchInv
<1>3. block' = block /\ phase' = phase
  BY DEF RestoreNets, N!BeginLevel, N!RestoreParallel, N!ParallelRestored, N!RestoreSingle, N!hypergraph,
         N!H!RestoreParallelEdge, N!H!RestoreEdge
<1>4. phase = "refining" => CutOf(hg', edgeWeight', part') = CutOf(hg, edgeWeight, part)
  <2>1. CASE N!BeginLevel \/ N!ParallelRestored
    BY <2>1 DEF N!BeginLevel, N!ParallelRestored, N!hypergraph
  <2>2. CASE N!RestoreParallel
    BY <2>2, ParallelKeeps
  <2>3. CASE N!RestoreSingle
    BY <2>3, SingleKeeps
  <2> QED BY <2>1, <2>2, <2>3 DEF RestoreNets
<1>5. phase = "refining" => MetricsOf(hg', edgeWeight', part') = MetricsOf(hg, edgeWeight, part)
  <2> SUFFICES ASSUME phase = "refining"
               PROVE  MetricsOf(hg', edgeWeight', part') = MetricsOf(hg, edgeWeight, part)
    OBVIOUS
  <2>1. PartitionExact /\ PartitionExact'
    BY <1>3 DEF LevelExact
  <2>2. WeightsOf(block)' = WeightsOf(block)
    BY <1>3 DEF WeightsOf
  <2> QED BY <1>4, <2>1, <2>2, MetricsStay
<1>6. MetricsKept'
  BY <1>1, <1>3, <1>5 DEF SearchInv, MetricsKept, Searching
<1> QED BY <1>1, <1>2, <1>6 DEF NeverWorse, Searching

\* Nor does an uncontraction.
LEMMA UncontractMeasured ==
  ASSUME SearchInv, LevelExact, LevelExact', Uncontract, NoSinglePins(hg')
  PROVE  MembersTyped' /\ MetricsKept' /\ NeverWorse'
<1>1. /\ UNCHANGED <<key, enabled, state, locks, fullyActive, metrics>>
      /\ search' = [NoSearch EXCEPT !.stage = "flow", !.nodes = <<Last(history).u, Last(history).v>>]
  BY DEF Uncontract, members, gains, queue
<1>2. MembersTyped'
  BY <1>1, MembersLeft DEF SearchInv
<1>3. /\ phase = "refining" /\ phase' = "refining" /\ pc = "single"
      /\ CutOf(hg', edgeWeight', part') = CutOf(hg, edgeWeight, part)
  BY UncontractUndoes, UncontractGains
<1>4. search.stage = "idle" /\ search'.stage = "flow"
  BY <1>1, <1>3 DEF SearchInv, GainInv, StagesKept, NoSearch
<1>5. PartitionExact /\ PartitionExact'
  BY <1>3 DEF LevelExact
<1>6. WeightsOf(block)' = WeightsOf(block)
  <2>1. block' = N!H!RestoredPartInfo(N!H!Last(log).u, N!H!Last(log).v)
    BY DEF Uncontract, N!Uncontract, N!H!Uncontract
  <2>2. \A b \in Block : block'[b].weight = block[b].weight
    BY <1>5, <2>1 DEF PartitionExact, N!H!RestoredPartInfo
  <2> QED BY <2>2 DEF WeightsOf
<1>7. MetricsOf(hg', edgeWeight', part') = MetricsOf(hg, edgeWeight, part)
  BY <1>3, <1>5, <1>6, MetricsStay
<1>8. MetricsKept'
  BY <1>1, <1>3, <1>4, <1>7 DEF SearchInv, MetricsKept, Searching
<1> QED BY <1>2, <1>4, <1>8 DEF NeverWorse, Searching

\* Outside of the uncoarsening, and at its begin.
LEMMA CoarseningMeasured ==
  ASSUME SearchInv, Coarsening
  PROVE  MembersTyped' /\ MetricsKept' /\ NeverWorse'
<1>1. phase' # "refining"
  BY DEF Coarsening, N!PerformContraction, N!H!Contract, N!RemoveSingle, N!RemoveParallel, N!H!RemoveEdge,
         N!SetNodePart, N!H!SetNodePart, N!StartVCycle, N!H!StartVCycle
<1>2. phase # "refining" \/ search.stage = "idle"
  BY DEF Coarsening, N!PerformContraction, N!H!Contract, N!RemoveSingle, N!RemoveParallel, N!H!RemoveEdge,
         N!SetNodePart, N!H!SetNodePart
<1>3. search.stage = "idle"
  BY <1>2 DEF SearchInv, GainInv, StagesKept
<1>4. UNCHANGED <<key, enabled, state, locks, fullyActive, metrics, search>>
  BY DEF Coarsening, members, gains, queue
<1>5. MembersTyped'
  BY <1>4, MembersLeft DEF SearchInv
<1> QED BY <1>1, <1>3, <1>4, <1>5 DEF SearchInv, MetricsKept, NeverWorse, Searching

\* The uncoarsening begins with metrics from scratch.
LEMMA BeginMeasured ==
  ASSUME SearchInv, LevelExact', BeginUncoarsening
  PROVE  MembersTyped' /\ MetricsKept' /\ NeverWorse'
<1>1. /\ phase \in {"coarsening", "initial"} /\ phase' = "refining"
      /\ UNCHANGED <<hg, part, netPart, block, edgeWeight, search, maxWeights>>
      /\ UNCHANGED <<key, enabled, state, locks, fullyActive>>
      /\ metrics' = [cut |-> Cut, imbalance |-> Imbalance(WeightsOf(block))]
  BY DEF BeginUncoarsening, N!InitializeNumCutHyperedges, N!H!InitializeNumCutHyperedges, queue
<1>2. search.stage = "idle"
  BY <1>1 DEF SearchInv, GainInv, StagesKept
<1>3. MembersTyped'
  BY <1>1, MembersLeft DEF SearchInv
<1>4. /\ Listed(hg) /\ Weighted(edgeWeight) /\ Parted(part, hg.nodes) /\ Connects(hg, netPart, part)
      /\ WeightsOf(block) = Weights(hg, part) /\ hg.weight \in [Hypernode -> Nat]
  <2>1. /\ Listed(hg') /\ Weighted(edgeWeight') /\ Parted(part', hg'.nodes) /\ Connects(hg', netPart', part')
        /\ WeightsOf(block)' = Weights(hg', part') /\ hg'.weight \in [Hypernode -> Nat]
    BY <1>1 DEF LevelExact, PartitionExact
  <2>2. WeightsOf(block)' = WeightsOf(block)
    BY <1>1 DEF WeightsOf
  <2> QED BY <1>1, <2>1, <2>2
<1>5. Cut = CutOf(hg, edgeWeight, part)
  BY <1>4, CutTyped
<1>6. metrics' = MetricsOf(hg, edgeWeight, part) /\ metrics' \in [cut : Nat, imbalance : Nat]
  <2>1. metrics' = MetricsOf(hg, edgeWeight, part)
    BY <1>1, <1>4, <1>5 DEF MetricsOf
  <2> QED BY <1>4, <2>1, MetricsNatural
<1>7. MetricsKept'
  BY <1>1, <1>2, <1>6 DEF MetricsKept, Searching
<1> QED BY <1>1, <1>2, <1>3, <1>7 DEF NeverWorse, Searching

\* Flows: their moves wait for the end, which measures anew.
LEMMA FlowMeasured ==
  ASSUME SearchInv, LevelExact, SkipFlow \/ BeginDictated \/ EndDictated \/ \E v \in Hypernode : DictatedMove(v)
  PROVE  MembersTyped' /\ MetricsKept' /\ NeverWorse'
<1>1. UNCHANGED <<key, enabled, state, locks, fullyActive>>
  BY DEF SkipFlow, BeginDictated, EndDictated, DictatedMove, members, gains, queue
<1>2. MembersTyped'
  BY <1>1, MembersLeft DEF SearchInv
<1>3. DOMAIN search = DOMAIN NoSearch
  BY DEF SearchInv, GainInv, SearchTyped, NoSearch
<1>4. CASE SkipFlow
  <2>1. /\ search.stage = "flow" /\ search'.stage = "refine"
        /\ UNCHANGED <<hg, edgeWeight, part, phase, metrics>>
    BY <1>3, <1>4 DEF SkipFlow, level, NoSearch
  <2> QED BY <1>2, <2>1 DEF SearchInv, MetricsKept, NeverWorse, Searching
<1>5. CASE BeginDictated \/ \E v \in Hypernode : DictatedMove(v)
  <2>1. search'.stage = "dictated" /\ metrics' = metrics
    BY <1>3, <1>5 DEF BeginDictated, DictatedMove, NoSearch
  <2> QED BY <1>2, <2>1 DEF SearchInv, MetricsKept, NeverWorse, Searching
<1>6. CASE EndDictated
  <2>1. /\ search.stage = "dictated" /\ search'.stage = "refine"
        /\ UNCHANGED <<hg, edgeWeight, part, phase>>
        /\ metrics' = [cut |-> Cut, imbalance |-> Imbalance(WeightsOf(block))]
    BY <1>3, <1>6 DEF EndDictated, level, NoSearch
  <2>2. Listed(hg) /\ Weighted(edgeWeight) /\ PartitionExact
    BY <2>1 DEF SearchInv, GainInv, StagesKept, LevelExact
  <2>3. metrics' = MetricsOf(hg, edgeWeight, part) /\ metrics' \in [cut : Nat, imbalance : Nat]
    BY <2>1, <2>2, MetricsAre
  <2> QED BY <1>2, <2>1, <2>3 DEF MetricsKept, NeverWorse, Searching
<1> QED BY <1>4, <1>5, <1>6

\* A search begins at the partition it is to improve.
LEMMA RefineMeasured ==
  ASSUME SearchInv, GainInv', LevelExact, LevelExact', Refine
  PROVE  MembersTyped' /\ MetricsKept' /\ NeverWorse'
<1>1. /\ search.stage = "refine" /\ moves' = << >>
      /\ UNCHANGED <<hg, phase, part, edgeWeight, metrics>>
  BY DEF Refine, level
<1>2. PICK order \in {search.nodes, Reverse(search.nodes)} :
        search' = [search EXCEPT !.stage = "moving", !.nodes = order, !.cut = metrics.cut, !.best = 0,
                                 !.initialCut = metrics.cut, !.initialImbalance = metrics.imbalance]
  BY DEF Refine
<1>3. /\ search'.stage = "moving" /\ search'.best = 0 /\ search'.cut = metrics.cut
      /\ search'.initialCut = metrics.cut /\ search'.initialImbalance = metrics.imbalance
  BY <1>2 DEF SearchInv, GainInv, SearchTyped
<1>4. phase = "refining" /\ part \in [Hypernode -> Block \cup {NoBlock}]
  BY <1>1 DEF SearchInv, GainInv, StagesKept, LevelExact, PartitionExact, Parted
<1>5. BestPart' = part'
  <2>1. Ahead' = {}
    BY <1>1, <1>3 DEF Ahead
  <2>2. BestPart' = [v \in Hypernode |-> part'[v]]
    BY <2>1 DEF BestPart
  <2> QED BY <1>1, <1>4, <2>2
<1>6. metrics = MetricsOf(hg, edgeWeight, part) /\ metrics \in [cut : Nat, imbalance : Nat]
  BY <1>1, <1>4 DEF SearchInv, MetricsKept
<1>7. MembersTyped'
  BY <1>3 DEF GainInv, QueueStates, StatesExact, LocksExact, QueuesEnabled, MembersTyped, LevelExact, Listed
<1>8. MetricsKept'
  <2>1. search'.cut = CutOf(hg', edgeWeight', part')
    BY <1>1, <1>3, <1>6 DEF MetricsOf
  <2> QED BY <1>1, <1>3, <1>5, <1>6, <2>1 DEF MetricsKept, Searching
<1>9. NeverWorse'
  <2>1. metrics'.cut = search'.initialCut /\ metrics'.imbalance = search'.initialImbalance
    BY <1>1, <1>3
  <2>2. metrics.cut \in Nat /\ metrics.imbalance \in Nat
    BY <1>6
  <2> QED BY <1>1, <2>1, <2>2 DEF NeverWorse
<1> QED BY <1>7, <1>8, <1>9

\* What is undone lies behind the best partition.
LEMMA RollbackMeasured ==
  ASSUME SearchInv, LevelExact, StopMoving \/ Rollback
  PROVE  MembersTyped' /\ MetricsKept' /\ NeverWorse'
<1>1. UNCHANGED <<key, enabled, state, locks, fullyActive, metrics>>
  BY DEF StopMoving, Rollback, members, gains, queue
<1>2. MembersTyped'
  BY <1>1, MembersLeft DEF SearchInv
<1>3. /\ Searching /\ search'.stage = "rollback"
      /\ search'.initialCut = search.initialCut /\ search'.initialImbalance = search.initialImbalance
      /\ search'.best = search.best
      /\ StopMoving => search'.cursor = Len(moves)
  BY DEF StopMoving, Rollback, Searching, SearchInv, GainInv, SearchTyped
<1>4. UNCHANGED <<hg, edgeWeight, phase>> /\ BestPart' = BestPart
  <2>1. CASE StopMoving
    <3>1. UNCHANGED <<hg, edgeWeight, phase, part, moves>> /\ search.stage = "moving"
      BY <2>1 DEF StopMoving, level, members
    <3>2. Ahead' = Ahead
      BY <1>3, <2>1, <3>1 DEF Ahead
    <3> QED BY <3>1, <3>2 DEF BestPart
  <2>2. CASE Rollback
    <3>1. Moves(moves[search.cursor])
      BY <2>2, ChangeMoves DEF Rollback
    <3>2. BestPart' = BestPart
      BY <2>2, RollbackKeeps DEF SearchInv
    <3> QED BY <3>1, <3>2 DEF Moves
  <2> QED BY <2>1, <2>2
<1>5. MetricsKept'
  BY <1>1, <1>3, <1>4 DEF SearchInv, MetricsKept, Searching
<1>6. NeverWorse'
  BY <1>1, <1>3, <1>4 DEF SearchInv, NeverWorse, Searching, Fits
<1> QED BY <1>2, <1>5, <1>6

\* At its end the best partition is the present one.
LEMMA EndMeasured ==
  ASSUME SearchInv, LevelExact, EndSearch
  PROVE  MembersTyped' /\ MetricsKept' /\ NeverWorse'
<1>1. /\ search.stage = "rollback"
      /\ UNCHANGED <<key, enabled, state, locks, fullyActive, metrics, hg, edgeWeight, part, phase>>
  BY DEF EndSearch, level, queue
<1>2. MembersTyped'
  BY <1>1, MembersLeft DEF SearchInv
<1>3. search'.stage \in {"idle", "flow"}
  BY DEF EndSearch, NoSearch
<1>4. BestPart = part
  BY EndSearchKeeps DEF SearchInv
<1>5. MetricsKept'
  BY <1>1, <1>3, <1>4 DEF SearchInv, MetricsKept, Searching
<1> QED BY <1>2, <1>3, <1>5 DEF NeverWorse, Searching


\* What a move does to metrics and best partition.
Measures(v, better) ==
  /\ metrics' = IF better THEN [cut |-> search.cut - key[v], imbalance |-> Imbalance(WeightsOf(block'))]
                ELSE metrics
  /\ search' = [search EXCEPT !.cut = search.cut - key[v], !.best = IF better THEN Len(moves') ELSE @]

\* A move: the cut follows the key, the metrics the best partition, and that is
\* no worse than the one before it in the order of the search.
LEMMA MoveMeasured ==
  ASSUME SearchInv, LevelExact, LevelExact', NEW v \in Hypernode, Move(v)
  PROVE  MembersTyped' /\ MetricsKept' /\ NeverWorse'
<1> DEFINE better == Improved(search.cut - key[v], block', part[v])
<1>1. MoveContext(v)
  BY MoveKnown DEF SearchInv
<1>2. /\ GainInv'
      /\ search'.best = search.best => BestPart' = BestPart
      /\ search'.best # search.best => BestPart' = part'
  BY MoveKeeps DEF SearchInv
<1>3. Measures(v, better) /\ search.stage = "moving"
  BY DEF Move, Measures
<1>4. /\ hg' = hg /\ edgeWeight' = edgeWeight /\ v \in DOMAIN key /\ Moves(v) /\ moves' = Append(moves, v)
      /\ KeysExact /\ Cached(cache, hg, edgeWeight, part) /\ v \in hg.nodes
      /\ Listed(hg) /\ Weighted(edgeWeight) /\ PartitionExact /\ PartitionExact'
  BY <1>1 DEF MoveContext, MoveOfQueue
<1>5. phase = "refining" /\ phase' = "refining"
  BY <1>4 DEF Moves
<1>6. /\ key[v] = GainOf(hg, edgeWeight, part, v)
      /\ search.cut = CutOf(hg, edgeWeight, part)
      /\ metrics = MetricsOf(hg, edgeWeight, BestPart)
      /\ metrics \in [cut : Nat, imbalance : Nat]
  BY <1>3, <1>4, <1>5 DEF KeysExact, Cached, SearchInv, MetricsKept, Searching
<1>7. CutOf(hg', edgeWeight', part') = search.cut - key[v]
  BY <1>4, <1>6, MoveGains
<1>8. Imbalance(WeightsOf(block')) = Imbalance(Weights(hg', part'))
  <2>1. WeightsOf(block)' = Weights(hg', part')
    BY <1>4 DEF PartitionExact
  <2>2. WeightsOf(block)' = WeightsOf(block')
    OBVIOUS
  <2> QED BY <2>1, <2>2
<1>9. MetricsOf(hg', edgeWeight', part') \in [cut : Nat, imbalance : Nat]
  <2>1. Listed(hg') /\ Weighted(edgeWeight') /\ hg'.weight \in [Hypernode -> Nat]
    BY <1>4 DEF PartitionExact
  <2> QED BY <2>1, MetricsNatural
<1> HIDE DEF better
<1>10. /\ search'.stage = "moving" /\ search'.cut = search.cut - key[v]
       /\ search'.best = IF better THEN Len(moves) + 1 ELSE search.best
       /\ search'.initialCut = search.initialCut /\ search'.initialImbalance = search.initialImbalance
       /\ search.initialCut \in Int /\ search.initialImbalance \in Int
  <2>1. Len(moves') = Len(moves) + 1
    BY <1>4 DEF SearchInv, GainInv, SearchTyped
  <2> QED BY <1>3, <2>1 DEF Measures, SearchInv, GainInv, SearchTyped
<1>11. MembersTyped'
  BY <1>2, <1>10 DEF GainInv, QueueStates, StatesExact, LocksExact, QueuesEnabled, MembersTyped, LevelExact, Listed
<1>12. search.best \in Nat /\ Len(moves) \in Nat /\ search.best <= Len(moves)
  BY <1>3 DEF SearchInv, GainInv, SearchTyped, StagesKept, Searching
<1>13. CASE better
  <2>1. metrics' = MetricsOf(hg', edgeWeight', part')
    BY <1>3, <1>7, <1>8, <1>13 DEF Measures, MetricsOf
  <2>2. BestPart' = part'
    BY <1>2, <1>10, <1>12, <1>13
  <2>3. MetricsKept'
    BY <1>7, <1>9, <1>10, <2>1, <2>2 DEF MetricsKept, Searching
  <2> DEFINE c == CutOf(hg', edgeWeight', part')
             i == Imbalance(Weights(hg', part'))
  <2>4. /\ metrics'.cut = c /\ metrics'.imbalance = i /\ c \in Nat /\ i \in Nat
    BY <1>9, <2>1 DEF MetricsOf
  <2>5. \/ c < metrics.cut /\ Fits(hg', part')
        \/ i < metrics.imbalance /\ c <= metrics.cut
    <3>1. \A b \in Block : block'[b].weight = Weights(hg', part')[b]
      <4>1. WeightsOf(block)' = Weights(hg', part')
        BY <1>4 DEF PartitionExact
      <4> QED BY <4>1 DEF WeightsOf
    <3> QED BY <1>7, <1>8, <1>13, <3>1 DEF better, Improved, Fits
  <2>6. /\ metrics.cut <= search.initialCut
        /\ metrics.cut = search.initialCut \/ (Proportional /\ ~ Fits(hg, BestPart)) =>
             metrics.imbalance <= search.initialImbalance
        /\ metrics.cut \in Nat /\ metrics.imbalance \in Nat
    BY <1>3, <1>6 DEF SearchInv, NeverWorse, Searching
  <2>7. Proportional /\ Fits(hg, BestPart) /\ i < metrics.imbalance => Fits(hg', part')
    <3> SUFFICES ASSUME Proportional, Fits(hg, BestPart), i < metrics.imbalance
                 PROVE  Fits(hg', part')
      OBVIOUS
    <3>1. Weights(hg, BestPart) \in [Block -> Nat] /\ Weights(hg', part') \in [Block -> Nat]
      <4>1. hg.weight \in [Hypernode -> Nat]
        BY <1>4 DEF PartitionExact
      <4>2. Weights(hg, BestPart) \in [Block -> Nat]
        BY <1>4, <4>1, MetricsNatural
      <4>3. Weights(hg, part') \in [Block -> Nat]
        BY <1>4, <4>1, MetricsNatural
      <4> QED BY <1>4, <4>2, <4>3
    <3>2. Imbalance(Weights(hg', part')) < Imbalance(Weights(hg, BestPart))
      BY <1>6 DEF MetricsOf
    <3>3. \A b \in Block : Weights(hg, BestPart)[b] <= MaxPartWeight[b]
      BY DEF Fits
    <3>4. \A b \in Block : Weights(hg', part')[b] <= MaxPartWeight[b]
      BY <3>1, <3>2, <3>3, LighterFits
    <3> QED BY <3>4 DEF Fits
  <2> HIDE DEF c, i
  <2>8. c <= search.initialCut
    BY <1>10, <2>4, <2>5, <2>6
  <2>9. c = search.initialCut => i <= search.initialImbalance
    BY <1>10, <2>4, <2>5, <2>6
  <2>10. Proportional /\ ~ Fits(hg', part') => i <= search.initialImbalance
    <3> SUFFICES ASSUME Proportional, ~ Fits(hg', part') PROVE i <= search.initialImbalance
      OBVIOUS
    <3>1. i < metrics.imbalance /\ ~ Fits(hg, BestPart)
      BY <2>5, <2>7
    <3> QED BY <1>10, <2>4, <2>6, <3>1
  <2>11. NeverWorse'
    BY <1>10, <2>2, <2>4, <2>8, <2>9, <2>10 DEF NeverWorse
  <2> QED BY <1>11, <2>3, <2>11
<1>14. CASE ~ better
  <2>1. metrics' = metrics /\ BestPart' = BestPart
    BY <1>2, <1>3, <1>10, <1>14 DEF Measures
  <2>2. MetricsKept'
    BY <1>4, <1>6, <1>7, <1>10, <2>1 DEF MetricsKept, Searching
  <2>3. NeverWorse'
    BY <1>3, <1>4, <1>10, <2>1 DEF SearchInv, NeverWorse, Searching
  <2> QED BY <1>11, <2>2, <2>3
<1> QED BY <1>13, <1>14

\* Initially there is nothing to measure.
LEMMA SearchInit ==
  ASSUME Init
  PROVE  SearchInv
<1>1. phase = "coarsening"
  BY DEF Init, N!Init, N!H!Init
<1>2. MembersTyped
  <2>1. DOMAIN key = {}
    BY DEF Init
  <2> QED BY <2>1 DEF Init, MembersTyped
<1> QED BY <1>1, <1>2, GainInit DEF Init, SearchInv, MetricsKept, NeverWorse, NoSearch, Searching

\* Every step keeps the state of the search, if the level is exact before and
\* after it, and uncontractions leave no net with a single pin.
LEMMA SearchStep ==
  ASSUME SearchInv, LevelExact, LevelExact', [Next]_vars, Uncontract => NoSinglePins(hg')
  PROVE  SearchInv'
<1>1. GainInv'
  BY GainStep DEF SearchInv
<1>2. CASE Coarsening
  BY <1>1, <1>2, CoarseningMeasured DEF SearchInv
<1>3. CASE BeginUncoarsening
  BY <1>1, <1>3, BeginMeasured DEF SearchInv
<1>4. CASE RestoreNets
  BY <1>1, <1>4, RestoreMeasured DEF SearchInv
<1>5. CASE Uncontract
  BY <1>1, <1>5, UncontractMeasured DEF SearchInv
<1>6. CASE SkipFlow \/ BeginDictated \/ EndDictated \/ \E v \in Hypernode : DictatedMove(v)
  BY <1>1, <1>6, FlowMeasured DEF SearchInv
<1>7. CASE Refine
  BY <1>1, <1>7, RefineMeasured DEF SearchInv
<1>8. CASE \E v \in Hypernode : Move(v)
  BY <1>1, <1>8, MoveMeasured DEF SearchInv
<1>9. CASE StopMoving \/ Rollback
  BY <1>1, <1>9, RollbackMeasured DEF SearchInv
<1>10. CASE EndSearch
  BY <1>1, <1>10, EndMeasured DEF SearchInv
<1>11. CASE UNCHANGED vars
  <2>1. /\ UNCHANGED <<hg, phase, part, edgeWeight, moves, metrics, search>>
        /\ UNCHANGED <<key, enabled, state, locks, fullyActive>>
    BY <1>11 DEF vars, level, members, gains, queue
  <2>2. BestPart' = BestPart
    BY <2>1 DEF BestPart, Ahead
  <2>3. MembersTyped' /\ MetricsKept' /\ NeverWorse'
    BY <2>1, <2>2 DEF SearchInv, MembersTyped, MetricsKept, NeverWorse, Searching
  <2> QED BY <1>1, <2>3 DEF SearchInv
<1> QED BY <1>2, <1>3, <1>4, <1>5, <1>6, <1>7, <1>8, <1>9, <1>10, <1>11 DEF Next, Uncoarsening

\* The properties of the search follow.
LEMMA SearchSound ==
  ASSUME SearchInv, LevelExact
  PROVE  GainCacheExact /\ SearchStateExact /\ MetricsExact
<1>1. GainInv /\ MembersTyped /\ MetricsKept
  BY DEF SearchInv
<1>2. GainCacheExact
  BY <1>1, GainExact
<1>3. TypeOK
  BY <1>1 DEF TypeOK, GainInv, SearchTyped, MembersTyped, MetricsKept, Stages
<1>4. QueueExact /\ NeighboursQueued /\ EnabledExact
  BY <1>1 DEF GainInv, QueueStates, StatesExact, KeysExact, NeighboursExact, QueuesEnabled,
              QueueExact, NeighboursQueued, EnabledExact
<1>5. LocksFollowMoves
  BY <1>1 DEF GainInv, QueueStates, LocksExact, LocksFollowMoves, LockOf, MovedInto
<1>6. MetricsExact
  <2> SUFFICES ASSUME phase = "refining"
               PROVE  /\ search.stage = "idle" =>
                           metrics = [cut |-> Cut, imbalance |-> Imbalance(WeightsOf(block))]
                      /\ search.stage = "moving" => search.cut = Cut
    BY DEF MetricsExact
  <2>1. Listed(hg) /\ Weighted(edgeWeight) /\ PartitionExact
    BY DEF LevelExact
  <2>2. [cut |-> Cut, imbalance |-> Imbalance(WeightsOf(block))] = MetricsOf(hg, edgeWeight, part)
    BY <2>1, MetricsAre
  <2>3. Cut = CutOf(hg, edgeWeight, part)
    BY <2>1, CutTyped DEF PartitionExact
  <2> QED BY <1>1, <2>2, <2>3 DEF MetricsKept
<1> QED BY <1>2, <1>3, <1>4, <1>5, <1>6 DEF SearchStateExact

\* And no search ends with a worse partition.
LEMMA SearchEndsNoWorse ==
  ASSUME Proportional, SearchInv, LevelExact, [Next]_vars
  PROVE  [search.stage = "rollback" /\ search'.stage # "rollback" =>
            /\ Cut' <= search.initialCut
            /\ Cut' = search.initialCut \/ ~ Balanced' =>
                 Imbalance(WeightsOf(block))' <= search.initialImbalance]_vars
<1> SUFFICES ASSUME Next, search.stage = "rollback", search'.stage # "rollback"
             PROVE  /\ Cut' <= search.initialCut
                    /\ Cut' = search.initialCut \/ ~ Balanced' =>
                         Imbalance(WeightsOf(block))' <= search.initialImbalance
  OBVIOUS
<1>1. phase = "refining" /\ pc = "search"
  BY DEF SearchInv, GainInv, StagesKept
<1>2. EndSearch
  <2>1. ~ Coarsening
    BY <1>1 DEF Coarsening, N!PerformContraction, N!H!Contract, N!RemoveSingle, N!RemoveParallel, N!H!RemoveEdge,
                N!SetNodePart, N!H!SetNodePart
  <2>2. ~ BeginUncoarsening
    BY <1>1 DEF BeginUncoarsening, N!InitializeNumCutHyperedges, N!H!InitializeNumCutHyperedges
  <2>3. ~ Uncontract
    BY <1>1 DEF Uncontract, N!Uncontract
  <2>4. ~ RestoreNets /\ ~ SkipFlow /\ ~ BeginDictated /\ ~ EndDictated /\ ~ Refine /\ ~ StopMoving
    BY DEF RestoreNets, SkipFlow, BeginDictated, EndDictated, Refine, StopMoving
  <2>5. ~ (\E v \in Hypernode : DictatedMove(v) \/ Move(v))
    BY DEF DictatedMove, Move
  <2>6. ~ Rollback
    BY DEF Rollback, SearchInv, GainInv, SearchTyped
  <2> QED BY <2>1, <2>2, <2>3, <2>4, <2>5, <2>6 DEF Next, Uncoarsening
<1>3. BestPart = part
  BY <1>2, EndSearchKeeps DEF SearchInv
<1>4. Listed(hg) /\ Weighted(edgeWeight) /\ PartitionExact
  BY <1>1 DEF LevelExact
<1>5. /\ metrics = MetricsOf(hg, edgeWeight, part)
      /\ [cut |-> Cut, imbalance |-> Imbalance(WeightsOf(block))] = MetricsOf(hg, edgeWeight, part)
  BY <1>1, <1>3, <1>4, MetricsAre DEF SearchInv, MetricsKept, Searching
<1>6. metrics.cut = Cut /\ metrics.imbalance = Imbalance(WeightsOf(block))
  <2>1. metrics = [cut |-> Cut, imbalance |-> Imbalance(WeightsOf(block))]
    BY <1>5
  <2> QED BY <2>1
<1>7. Balanced <=> Fits(hg, part)
  <2>1. WeightsOf(block) = Weights(hg, part)
    BY <1>4 DEF PartitionExact
  <2>2. \A b \in Block : block[b].weight = Weights(hg, part)[b]
    BY <2>1 DEF WeightsOf
  <2> QED BY <2>2 DEF Balanced, Fits
<1>8. /\ Cut <= search.initialCut
      /\ Cut = search.initialCut \/ ~ Balanced => Imbalance(WeightsOf(block)) <= search.initialImbalance
  BY <1>3, <1>6, <1>7 DEF SearchInv, NeverWorse, Searching
<1>9. UNCHANGED level
  BY <1>2 DEF EndSearch
<1>10. Cut' = Cut /\ Balanced' = Balanced /\ WeightsOf(block)' = WeightsOf(block)
  BY <1>9 DEF level, Cut, Balanced, WeightsOf
<1> QED BY <1>8, <1>10 DEF Imbalance
-----------------------------------------------------------------------------
(* The search and the level below it.                                        *)

\* A net whose pins are in several blocks is cut.
LEMMA SeveralBlocks ==
  ASSUME NEW S, NEW p, \A x \in S : p[x] \in Block
  PROVE  Cardinality({p[x] : x \in S}) > 1 <=> IsCut(S, p)
<1> DEFINE B == {p[x] : x \in S}
<1>1. IsFiniteSet(B) /\ Cardinality(B) \in Nat
  <2>1. B \in SUBSET Block
    OBVIOUS
  <2> QED BY <2>1, HypergraphAssumption, FS_Subset, FS_CardinalityType
<1>2. \A x \in S : p[x] \in B
  OBVIOUS
<1>3. \A b \in B : \E x \in S : b = p[x]
  OBVIOUS
<1> HIDE DEF B
<1>4. ASSUME NEW a \in B, NEW b \in B, a # b PROVE Cardinality(B) > 1
  <2>1. IsFiniteSet(B \ {a}) /\ Cardinality(B \ {a}) = Cardinality(B) - 1
    BY <1>1, FS_RemoveElement
  <2>2. B \ {a} # {}
    BY <1>4
  <2>3. Cardinality(B \ {a}) # 0 /\ Cardinality(B \ {a}) \in Nat
    BY <2>1, <2>2, FS_EmptySet, FS_CardinalityType
  <2> QED BY <1>1, <2>1, <2>3
<1>5. ASSUME \A a, b \in B : a = b PROVE ~ (Cardinality(B) > 1)
  <2>1. CASE B = {}
    BY <2>1, FS_EmptySet
  <2>2. ASSUME NEW a \in B PROVE Cardinality(B) = 1
    <3>1. B = {a}
      BY <1>5, <2>2
    <3> QED BY <3>1, FS_Singleton
  <2> QED BY <2>1, <2>2
<1>6. Cardinality(B) > 1 <=> \E a, b \in B : a # b
  BY <1>4, <1>5
<1>7. (\E a, b \in B : a # b) <=> IsCut(S, p)
  BY <1>2, <1>3, Zenon DEF IsCut
<1>8. Cardinality(B) > 1 <=> IsCut(S, p)
  BY <1>6, <1>7
<1> QED BY <1>8 DEF B

\* The steps that a level takes, all but those that the time limit or another
\* attempt at initial partitioning would add.
StepOfLevel ==
  \/ \E u, v \in Hypernode : N!PerformContraction(u, v)
  \/ \E e \in Hyperedge : N!RemoveSingle(e)
  \/ \E rep, e \in Hyperedge : N!RemoveParallel(rep, e)
  \/ \E v \in Hypernode, b \in Block : N!SetNodePart(v, b)
  \/ N!StartVCycle \/ N!InitializeNumCutHyperedges
  \/ N!BeginLevel \/ N!RestoreParallel \/ N!ParallelRestored \/ N!RestoreSingle \/ N!Uncontract
  \/ \E v \in Hypernode, b \in Block : N!ChangeNodePart(v, b)
  \/ UNCHANGED level

\* A move to the other block is one between blocks.
LEMMA MoveOfLevel ==
  ASSUME LevelExact, NEW v, N!ChangeNodePart(v, Other(part[v]))
  PROVE  StepOfLevel
<1>1. v \in hg.nodes /\ phase = "refining"
  BY DEF N!ChangeNodePart, N!H!ChangeNodePart
<1>2. v \in Hypernode /\ part[v] \in Block
  BY <1>1 DEF LevelExact, Listed, PartitionExact, Parted
<1> QED BY <1>2, OtherBlock DEF StepOfLevel

\* Every step of the search takes one of them.
LEMMA LevelSteps ==
  ASSUME LevelExact, [Next]_vars
  PROVE  StepOfLevel
<1>1. ASSUME Coarsening \/ BeginUncoarsening PROVE StepOfLevel
  BY <1>1 DEF Coarsening, BeginUncoarsening, StepOfLevel
<1>2. ASSUME RestoreNets \/ Uncontract PROVE StepOfLevel
  BY <1>2 DEF RestoreNets, Uncontract, StepOfLevel
<1>3. ASSUME NEW v \in Hypernode, DictatedMove(v) \/ Move(v) PROVE StepOfLevel
  BY <1>3, MoveOfLevel DEF DictatedMove, Move
<1>4. ASSUME Rollback PROVE StepOfLevel
  BY <1>4, MoveOfLevel DEF Rollback
<1>5. ASSUME SkipFlow \/ BeginDictated \/ EndDictated \/ Refine \/ StopMoving \/ EndSearch \/ UNCHANGED vars
      PROVE  StepOfLevel
  BY <1>5 DEF SkipFlow, BeginDictated, EndDictated, Refine, StopMoving, EndSearch, vars, StepOfLevel
<1> QED BY <1>1, <1>2, <1>3, <1>4, <1>5 DEF Next, Uncoarsening

\* None of them exceeds the time limit.
LEMMA TimeKept ==
  ASSUME StepOfLevel
  PROVE  timeUp' = timeUp
BY DEF StepOfLevel, N!PerformContraction, N!RemoveSingle, N!RemoveParallel, N!SetNodePart, N!StartVCycle,
       N!InitializeNumCutHyperedges, N!BeginLevel, N!RestoreParallel, N!ParallelRestored, N!RestoreSingle,
       N!Uncontract, N!ChangeNodePart, level
=============================================================================
