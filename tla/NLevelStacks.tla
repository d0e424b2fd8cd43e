---------------------------- MODULE NLevelStacks ----------------------------
(***************************************************************************)
(* The inductive invariant of NLevel and what its parts say of sequences:  *)
(* how the log of the hypergraph is made up of the history and of the      *)
(* pruner's two vectors, as contractions and removals are pushed to them   *)
(* and popped from them.  Module NLevelProofs shows that the steps keep it.*)
(***************************************************************************)
EXTENDS NLevel, SetSums, SequenceTheorems

-----------------------------------------------------------------------------
(* The inductive invariant, until the soft time limit is exceeded.           *)

ClientTyped ==
  /\ edgeWeight \in [Hyperedge -> Nat]
  /\ hash \in [Hyperedge -> [Hypernode -> Int]]
  /\ history \in Seq(Memento)
  /\ removedSingle \in Seq(Hyperedge)
  /\ removedParallel \in Seq(ParallelHE)
  /\ maxWeights \in Seq(MaxWeight)
  /\ pc \in {"idle", "parallel", "single", "search"}
  /\ cursor \in Nat
  /\ timeUp \in BOOLEAN

\* Where the removals that belong to level i end in the pruner's vectors: where
\* those of the next level begin, and not where the memento says, for the last
\* level may have been restored in part.
SinglesEnd(h, s, i) == IF i = Len(h) THEN Len(s) ELSE h[i + 1].singleBegin
ParallelsEnd(h, p, i) == IF i = Len(h) THEN Len(p) ELSE h[i + 1].parallelBegin

RemovedAs(l, e) == l.op = "remove" /\ l.e = e
ContractedAs(l, m) == l.op = "contract" /\ l.u = m.u /\ l.v = m.v

\* The i-th level, of which memento m was kept and whose removals end at se and
\* pe: its contraction, its single-pin nets and its parallel nets follow each
\* other in log l.
LevelLogged(l, s, p, i, m, se, pe) ==
  /\ ContractedAs(l[i + m.singleBegin + m.parallelBegin], m)
  /\ \A k \in m.singleBegin + 1 .. se : RemovedAs(l[i + m.parallelBegin + k], s[k])
  /\ \A k \in m.parallelBegin + 1 .. pe : RemovedAs(l[i + se + k], p[k].removed)

BeginsOrdered(h, s, p) ==
  /\ h # << >> => h[1].singleBegin = 0 /\ h[1].parallelBegin = 0
  /\ \A i \in 1 .. Len(h) :
       /\ h[i].singleBegin <= Len(s) /\ h[i].parallelBegin <= Len(p)
       /\ \A k \in i .. Len(h) : h[i].singleBegin <= h[k].singleBegin /\ h[i].parallelBegin <= h[k].parallelBegin

\* The log is the history and the pruner's vectors, merged.
Stacked(l, h, s, p) ==
  /\ Len(l) = Len(h) + Len(s) + Len(p)
  /\ h = << >> => s = << >> /\ p = << >>
  /\ BeginsOrdered(h, s, p)
  /\ \A i \in 1 .. Len(h) : LevelLogged(l, s, p, i, h[i], SinglesEnd(h, s, i), ParallelsEnd(h, p, i))

StackKept == Stacked(log, history, removedSingle, removedParallel)

\* What a memento says of its level is where the loops of its uncoarsening begin.
LoopsBelow(h, s, p) ==
  \A i \in 1 .. Len(h) - 1 : LastSingle(h[i]) = SinglesEnd(h, s, i) /\ LastParallel(h[i]) = ParallelsEnd(h, p, i)

LoopKept ==
  /\ LoopsBelow(history, removedSingle, removedParallel)
  /\ pc \in {"idle", "search"} /\ history # << >> =>
       /\ LastSingle(Last(history)) = Len(removedSingle)
       /\ LastParallel(Last(history)) = Len(removedParallel)
  /\ pc = "parallel" =>
       /\ history # << >>
       /\ LastSingle(Last(history)) = Len(removedSingle)
       /\ cursor = Len(removedParallel)
  /\ pc = "single" =>
       /\ history # << >>
       /\ cursor = Len(removedSingle)
       /\ Len(removedParallel) = Last(history).parallelBegin
  /\ phase # "refining" => pc = "idle"

\* Once a level has lost a parallel net, it has no single-pin net left.
SinglesFirst ==
  history # << >> /\ phase # "refining" /\ Len(removedParallel) > Last(history).parallelBegin
    => SingleNets = {}

\* What the pruner works on is enabled: the representative of the last
\* contraction.
RepresentativeEnabled == history # << >> /\ phase # "refining" => Last(history).u \in hg.nodes

\* Each net is enabled or in one of the pruner's vectors, once; what absorbs a
\* net was enabled then.
Accounted(E, s, p) ==
  /\ E = Hyperedge \ ({s[k] : k \in 1 .. Len(s)} \cup {p[q].removed : q \in 1 .. Len(p)})
  /\ \A j, k \in 1 .. Len(s) : s[j] = s[k] => j = k
  /\ \A q, r \in 1 .. Len(p) : p[q].removed = p[r].removed => q = r
  /\ \A k \in 1 .. Len(s), q \in 1 .. Len(p) : s[k] # p[q].removed
  /\ \A q, r \in 1 .. Len(p) : r <= q => p[q].representative # p[r].removed

NetsAccounted == Accounted(hg.edges, removedSingle, removedParallel)

\* A net in one of the vectors had one pin, or the pins of what absorbed it,
\* when it was removed.
SingleLogged(l, e) == RemovedAs(l, e) /\ Cardinality(l.before.pins[e]) = 1
ParallelLogged(l, pair) ==
  /\ RemovedAs(l, pair.removed)
  /\ pair.representative \in l.before.edges
  /\ l.before.pins[pair.representative] = l.before.pins[pair.removed]

Logged(l, s, p) ==
  /\ \A k \in 1 .. Len(s) : \E j \in 1 .. Len(l) : SingleLogged(l[j], s[k])
  /\ \A q \in 1 .. Len(p) : \E j \in 1 .. Len(l) : ParallelLogged(l[j], p[q])

RemovalsLogged == Logged(log, removedSingle, removedParallel)

\* The weights of the nets are those of the input, after the mergers in the
\* order they were made.
MergedBy(w, pair) == [w EXCEPT ![pair.representative] = @ + w[pair.removed]]
Merges(g, pairs, w) ==
  /\ g \in [0 .. Len(pairs) -> [Hyperedge -> Nat]]
  /\ g[0] = InitEdgeWeight
  /\ \A q \in 1 .. Len(pairs) : g[q] = MergedBy(g[q - 1], pairs[q])
  /\ g[Len(pairs)] = w
WeightsKept == \E g : Merges(g, removedParallel, edgeWeight)

\* The hypernodes of a level are among those of every finer one; no weight is
\* negative.
Shrinking(l, s) ==
  /\ s.weight \in [Hypernode -> Nat]
  /\ \A j \in 1 .. Len(l) : l[j].before.weight \in [Hypernode -> Nat]
  /\ \A j \in 1 .. Len(l) : s.nodes \subseteq l[j].before.nodes
  /\ \A i, j \in 1 .. Len(l) : i <= j => l[j].before.nodes \subseteq l[i].before.nodes

LevelsShrink == Shrinking(log, hg)

\* Every hypernode of every level has a bound in _max_hn_weights that will not be
\* popped before the level is reached.  Entries of earlier V-cycles that are
\* still there, of a single contraction, are popped too late, never too early.
Bounded(bounds, s) ==
  \A v \in s.nodes : \E k \in 1 .. Len(bounds) :
    s.weight[v] <= bounds[k].weight /\ Cardinality(s.nodes) <= bounds[k].numNodes

Few == Cardinality(Hypernode) - 1

\* The bounds rise towards the end, for fewer and fewer hypernodes.
Ordered(bounds) ==
  \A j, k \in 1 .. Len(bounds) : j < k =>
    /\ bounds[j].weight <= bounds[k].weight
    /\ bounds[k].numNodes <= bounds[j].numNodes
    /\ bounds[k].numNodes < Few => bounds[k].numNodes < bounds[j].numNodes

\* None of them is overdue at a level of n hypernodes.
Timely(bounds, n, coarsening) ==
  \A k \in 1 .. Len(bounds) :
    /\ bounds[k].numNodes >= n - 1
    /\ coarsening /\ n <= Few => bounds[k].numNodes >= n

MaxWeightsKept ==
  /\ maxWeights # << >>
  /\ Ordered(maxWeights)
  /\ Timely(maxWeights, Cardinality(hg.nodes), phase # "refining")
  /\ Bounded(maxWeights, hg)
  /\ \A j \in 1 .. Len(log) : Bounded(maxWeights, log[j].before)
-----------------------------------------------------------------------------
\* What is pushed to a sequence and popped from it.
LEMMA Push ==
  ASSUME NEW S, NEW q \in Seq(S), NEW x \in S
  PROVE  /\ Append(q, x) \in Seq(S)
         /\ Len(Append(q, x)) = Len(q) + 1
         /\ \A i \in 1 .. Len(q) : Append(q, x)[i] = q[i]
         /\ Append(q, x)[Len(q) + 1] = x
         /\ Append(q, x) # << >>
         /\ Last(Append(q, x)) = x
<1>1. /\ Append(q, x) \in Seq(S)
      /\ Len(Append(q, x)) = Len(q) + 1
      /\ \A i \in 1 .. Len(q) : Append(q, x)[i] = q[i]
      /\ Append(q, x)[Len(q) + 1] = x
      /\ Len(q) \in Nat
  BY AppendProperties
<1> QED BY <1>1, EmptySeq DEF Last

\* What is left when a sequence has lost its last element.
LEMMA Pop ==
  ASSUME NEW S, NEW q \in Seq(S), q # << >>
  PROVE  /\ Front(q) \in Seq(S)
         /\ Len(Front(q)) = Len(q) - 1
         /\ \A i \in 1 .. Len(q) - 1 : Front(q)[i] = q[i]
         /\ Len(q) \in Nat \ {0}
         /\ Last(q) = q[Len(q)] /\ Last(q) \in S
         /\ Len(q) # 1 => Front(q) # << >>
<1>1. Len(q) \in Nat \ {0}
  BY EmptySeq, LenProperties
<1>2. /\ Front(q) \in Seq(S)
      /\ Len(Front(q)) = Len(q) - 1
      /\ \A i \in 1 .. Len(q) - 1 : Front(q)[i] = q[i]
  <2> DEFINE n == Len(q) - 1
  <2>1. Front(q) = SubSeq(q, 1, n)
    BY DEF Front
  <2>2. n \in Nat /\ \A i \in 1 .. n : q[i] \in S
    BY <1>1, ElementOfSeq
  <2> HIDE DEF n
  <2>3. /\ SubSeq(q, 1, n) \in Seq(S)
        /\ Len(SubSeq(q, 1, n)) = IF 1 <= n THEN n - 1 + 1 ELSE 0
        /\ \A i \in 1 .. n - 1 + 1 : SubSeq(q, 1, n)[i] = q[1 + i - 1]
    BY <2>2, SubSeqProperties
  <2>4. /\ SubSeq(q, 1, n) \in Seq(S)
        /\ Len(SubSeq(q, 1, n)) = n
        /\ \A i \in 1 .. n : SubSeq(q, 1, n)[i] = q[i]
    BY <2>2, <2>3
  <2> QED BY <2>1, <2>4 DEF n
<1>3. Last(q) = q[Len(q)] /\ Last(q) \in S
  BY <1>1, ElementOfSeq DEF Last
<1> QED BY <1>1, <1>2, <1>3, EmptySeq

\* A sequence of which the last element is changed.
LEMMA ChangeLast ==
  ASSUME NEW S, NEW q \in Seq(S), q # << >>, NEW x \in S
  PROVE  /\ [q EXCEPT ![Len(q)] = x] \in Seq(S)
         /\ Len([q EXCEPT ![Len(q)] = x]) = Len(q)
         /\ \A i \in 1 .. Len(q) - 1 : [q EXCEPT ![Len(q)] = x][i] = q[i]
         /\ [q EXCEPT ![Len(q)] = x][Len(q)] = x
         /\ [q EXCEPT ![Len(q)] = x] # << >>
         /\ Last([q EXCEPT ![Len(q)] = x]) = x
<1>1. Len(q) \in Nat \ {0}
  BY EmptySeq, LenProperties
<1>2. [q EXCEPT ![Len(q)] = x] \in Seq(S) /\ Len([q EXCEPT ![Len(q)] = x]) = Len(q)
  BY <1>1, ExceptSeq
<1>3. /\ \A i \in 1 .. Len(q) - 1 : [q EXCEPT ![Len(q)] = x][i] = q[i]
      /\ [q EXCEPT ![Len(q)] = x][Len(q)] = x
  BY <1>1, ExceptSeq
<1> QED BY <1>1, <1>2, <1>3, EmptySeq DEF Last
-----------------------------------------------------------------------------

\* Log, history and the pruner's vectors, as levels are pushed and popped.

\* What the lemmas on stacks suppose of their parts.
StackParts(L, l, h, s, p) ==
  l \in Seq(L) /\ h \in Seq(Memento) /\ s \in Seq(Hyperedge) /\ p \in Seq(ParallelHE)

\* Memento m2 says the same as m about the begin of the level.
SameLevel(m, m2) ==
  m2.u = m.u /\ m2.v = m.v /\ m2.singleBegin = m.singleBegin /\ m2.parallelBegin = m.parallelBegin

SameLevels(h, h2) == \A i \in 1 .. Len(h) : SameLevel(h[i], h2[i])

\* The sequences agree up to n.
Agree(a, b, n) == \A k \in 1 .. n : a[k] = b[k]

\* Where the levels begin and end.
LEMMA StackRanges ==
  ASSUME NEW L, NEW l, NEW h, NEW s, NEW p, StackParts(L, l, h, s, p), BeginsOrdered(h, s, p),
         NEW i \in 1 .. Len(h)
  PROVE  /\ Len(l) \in Nat /\ Len(h) \in Nat /\ Len(s) \in Nat /\ Len(p) \in Nat
         /\ h[i] \in Memento
         /\ h[i].singleBegin \in Nat /\ h[i].parallelBegin \in Nat
         /\ SinglesEnd(h, s, i) \in Nat /\ ParallelsEnd(h, p, i) \in Nat
         /\ h[i].singleBegin <= SinglesEnd(h, s, i) /\ SinglesEnd(h, s, i) <= Len(s)
         /\ h[i].parallelBegin <= ParallelsEnd(h, p, i) /\ ParallelsEnd(h, p, i) <= Len(p)
         /\ i # Len(h) => /\ SinglesEnd(h, s, i) <= h[Len(h)].singleBegin
                          /\ ParallelsEnd(h, p, i) <= h[Len(h)].parallelBegin
<1>1. /\ Len(l) \in Nat /\ Len(h) \in Nat /\ Len(s) \in Nat /\ Len(p) \in Nat
      /\ h \in Seq(Memento)
  BY LenProperties DEF StackParts
<1>2. \A k \in 1 .. Len(h) : h[k] \in Memento
  BY <1>1, ElementOfSeq
<1>3. \A k \in 1 .. Len(h) : h[k].singleBegin \in Nat /\ h[k].parallelBegin \in Nat
  BY <1>2 DEF Memento
<1>5. CASE i = Len(h)
  BY <1>1, <1>2, <1>3, <1>5 DEF BeginsOrdered, SinglesEnd, ParallelsEnd
<1>6. CASE i # Len(h)
  <2>1. i + 1 \in i .. Len(h) /\ i + 1 \in 1 .. Len(h) /\ Len(h) \in i + 1 .. Len(h)
    BY <1>1, <1>6
  <2> QED BY <1>1, <1>2, <1>3, <1>6, <2>1 DEF BeginsOrdered, SinglesEnd, ParallelsEnd
<1> QED BY <1>5, <1>6

\* A level that is not changed stays logged.
LEMMA LevelCarried ==
  ASSUME NEW l, NEW s, NEW p, NEW i \in Nat, NEW m, NEW se \in Nat, NEW pe \in Nat,
         LevelLogged(l, s, p, i, m, se, pe),
         m.singleBegin \in Nat, m.parallelBegin \in Nat, i >= 1,
         NEW l2, NEW s2, NEW p2, NEW m2, NEW se2 \in Nat, NEW pe2 \in Nat,
         SameLevel(m, m2), Agree(l2, l, i + se2 + pe2), Agree(s2, s, se2), Agree(p2, p, pe2),
         m.singleBegin <= se2, se2 <= se, m.parallelBegin <= pe2, pe2 <= pe,
         se2 = se \/ pe2 = m.parallelBegin
  PROVE  LevelLogged(l2, s2, p2, i, m2, se2, pe2)
<1> DEFINE S == m.singleBegin
           Q == m.parallelBegin
<1>0. S \in Nat /\ Q \in Nat /\ S <= se2 /\ Q <= pe2 /\ m2.singleBegin = S /\ m2.parallelBegin = Q
  BY DEF SameLevel
<1>1. /\ ContractedAs(l[i + S + Q], m)
      /\ \A k \in S + 1 .. se : RemovedAs(l[i + Q + k], s[k])
      /\ \A k \in Q + 1 .. pe : RemovedAs(l[i + se + k], p[k].removed)
  BY DEF LevelLogged
<1> HIDE DEF S, Q
<1>2. ContractedAs(l2[i + S + Q], m2)
  <2>1. i + S + Q \in 1 .. i + se2 + pe2
    BY <1>0
  <2>2. l2[i + S + Q] = l[i + S + Q]
    BY <2>1 DEF Agree
  <2> QED BY <1>1, <2>2 DEF ContractedAs, SameLevel
<1>3. ASSUME NEW k \in S + 1 .. se2 PROVE RemovedAs(l2[i + Q + k], s2[k])
  <2>1. i + Q + k \in 1 .. i + se2 + pe2 /\ k \in 1 .. se2 /\ k \in S + 1 .. se
    BY <1>0
  <2>2. l2[i + Q + k] = l[i + Q + k] /\ s2[k] = s[k]
    BY <2>1 DEF Agree
  <2> QED BY <1>1, <2>1, <2>2
<1>4. ASSUME NEW k \in Q + 1 .. pe2 PROVE RemovedAs(l2[i + se2 + k], p2[k].removed)
  <2>1. i + se2 + k \in 1 .. i + se2 + pe2 /\ k \in 1 .. pe2 /\ k \in Q + 1 .. pe /\ se2 = se
    BY <1>0 DEF Q
  <2>2. l2[i + se2 + k] = l[i + se2 + k] /\ p2[k] = p[k]
    BY <2>1 DEF Agree
  <2> QED BY <1>1, <2>1, <2>2
<1> QED BY <1>0, <1>2, <1>3, <1>4 DEF LevelLogged

\* A level of which nothing is removed yet.
LEMMA LevelBegun ==
  ASSUME NEW l, NEW s, NEW p, NEW i \in Nat, NEW m, m.singleBegin \in Nat, m.parallelBegin \in Nat,
         ContractedAs(l[i + m.singleBegin + m.parallelBegin], m)
  PROVE  LevelLogged(l, s, p, i, m, m.singleBegin, m.parallelBegin)
BY DEF LevelLogged

\* A level that loses a single-pin net while it has lost no parallel one.
LEMMA LevelLosesSingle ==
  ASSUME NEW l, NEW s, NEW p, NEW i \in Nat, NEW m, NEW se \in Nat,
         m.singleBegin \in Nat, m.parallelBegin \in Nat,
         LevelLogged(l, s, p, i, m, se, m.parallelBegin),
         RemovedAs(l[i + m.parallelBegin + se + 1], s[se + 1])
  PROVE  LevelLogged(l, s, p, i, m, se + 1, m.parallelBegin)
<1> DEFINE S == m.singleBegin
           Q == m.parallelBegin
<1>1. /\ ContractedAs(l[i + S + Q], m)
      /\ \A k \in S + 1 .. se : RemovedAs(l[i + Q + k], s[k])
      /\ RemovedAs(l[i + Q + se + 1], s[se + 1])
      /\ S \in Nat /\ Q \in Nat
  BY DEF LevelLogged
<1> HIDE DEF S, Q
<1>2. ASSUME NEW k \in S + 1 .. se + 1 PROVE RemovedAs(l[i + Q + k], s[k])
  <2>1. CASE k = se + 1
    <3>1. i + Q + k = i + Q + se + 1
      BY <1>1, <2>1
    <3> QED BY <1>1, <2>1, <3>1
  <2>2. CASE k # se + 1
    BY <1>1, <2>2
  <2> QED BY <2>1, <2>2
<1>3. Q + 1 .. Q = {}
  BY <1>1
<1> QED BY <1>1, <1>2, <1>3 DEF LevelLogged, S, Q

\* The last level has lost one more parallel net: its removal follows in the log.
LEMMA LevelLosesParallel ==
  ASSUME NEW l, NEW s, NEW p, NEW i \in Nat, NEW m, NEW se \in Nat, NEW pe \in Nat,
         m.singleBegin \in Nat, m.parallelBegin \in Nat,
         LevelLogged(l, s, p, i, m, se, pe),
         RemovedAs(l[i + se + pe + 1], p[pe + 1].removed)
  PROVE  LevelLogged(l, s, p, i, m, se, pe + 1)
<1> DEFINE S == m.singleBegin
           Q == m.parallelBegin
<1>1. /\ ContractedAs(l[i + S + Q], m)
      /\ \A k \in S + 1 .. se : RemovedAs(l[i + Q + k], s[k])
      /\ \A k \in Q + 1 .. pe : RemovedAs(l[i + se + k], p[k].removed)
      /\ RemovedAs(l[i + se + pe + 1], p[pe + 1].removed)
      /\ S \in Nat /\ Q \in Nat
  BY DEF LevelLogged
<1> HIDE DEF S, Q
<1>2. ASSUME NEW k \in Q + 1 .. pe + 1 PROVE RemovedAs(l[i + se + k], p[k].removed)
  <2>1. CASE k = pe + 1
    <3>1. i + se + k = i + se + pe + 1
      BY <1>1, <2>1
    <3> QED BY <1>1, <2>1, <3>1
  <2>2. CASE k # pe + 1
    BY <1>1, <2>2
  <2> QED BY <2>1, <2>2
<1> QED BY <1>1, <1>2 DEF LevelLogged, S, Q

\* The levels below the last one stay as they are when the log keeps what
\* precedes the last contraction.
LEMMA LowerLevels ==
  ASSUME NEW L, NEW l, NEW h, NEW s, NEW p, StackParts(L, l, h, s, p), Stacked(l, h, s, p),
         NEW l2, NEW s2, NEW p2, NEW i \in 1 .. Len(h), i # Len(h),
         NEW m2, SameLevel(h[i], m2),
         Agree(l2, l, Len(h) - 1 + h[Len(h)].singleBegin + h[Len(h)].parallelBegin),
         Agree(s2, s, h[Len(h)].singleBegin), Agree(p2, p, h[Len(h)].parallelBegin)
  PROVE  LevelLogged(l2, s2, p2, i, m2, SinglesEnd(h, s, i), ParallelsEnd(h, p, i))
<1> DEFINE se == SinglesEnd(h, s, i)
           pe == ParallelsEnd(h, p, i)
           S == h[Len(h)].singleBegin
           Q == h[Len(h)].parallelBegin
<1>1. BeginsOrdered(h, s, p) /\ LevelLogged(l, s, p, i, h[i], se, pe)
  BY DEF Stacked
<1>2. /\ Len(h) \in Nat /\ Len(h) # 0
      /\ h[i].singleBegin \in Nat /\ h[i].parallelBegin \in Nat
      /\ se \in Nat /\ pe \in Nat /\ h[i].singleBegin <= se /\ h[i].parallelBegin <= pe
      /\ se <= S /\ pe <= Q
  BY <1>1, StackRanges
<1>3. Len(h) \in 1 .. Len(h)
  BY <1>2
<1>4. S \in Nat /\ Q \in Nat
  BY <1>1, <1>3, StackRanges
<1>7. Agree(l2, l, Len(h) - 1 + S + Q) /\ Agree(s2, s, S) /\ Agree(p2, p, Q)
  OBVIOUS
<1>8. se = se /\ se <= se /\ pe <= pe
  BY <1>2
<1> HIDE DEF se, pe, S, Q
<1>5. i \in Nat /\ i >= 1 /\ i + se + pe <= Len(h) - 1 + S + Q
  BY <1>2, <1>4
<1>6. Agree(l2, l, i + se + pe) /\ Agree(s2, s, se) /\ Agree(p2, p, pe)
  <2>1. i + se + pe \in Nat /\ Len(h) - 1 + S + Q \in Nat
    BY <1>2, <1>4, <1>5
  <2>2. /\ 1 .. i + se + pe \subseteq 1 .. Len(h) - 1 + S + Q
        /\ 1 .. se \subseteq 1 .. S /\ 1 .. pe \subseteq 1 .. Q
    BY <2>1, <1>2, <1>4, <1>5
  <2> QED BY <2>2, <1>7 DEF Agree
<1>9. LevelLogged(l2, s2, p2, i, m2, se, pe)
  BY <1>1, <1>2, <1>5, <1>6, <1>8, LevelCarried
<1> QED BY <1>9 DEF se, pe

\* The last level.
LEMMA TopLevel ==
  ASSUME NEW L, NEW l, NEW h, NEW s, NEW p, StackParts(L, l, h, s, p), Stacked(l, h, s, p), h # << >>
  PROVE  /\ Len(h) \in 1 .. Len(h) /\ Len(h) \in Nat /\ Len(s) \in Nat /\ Len(p) \in Nat
         /\ Last(h) = h[Len(h)] /\ h[Len(h)] \in Memento
         /\ h[Len(h)].singleBegin \in Nat /\ h[Len(h)].parallelBegin \in Nat
         /\ h[Len(h)].singleBegin <= Len(s) /\ h[Len(h)].parallelBegin <= Len(p)
         /\ Len(l) = Len(h) + Len(s) + Len(p)
         /\ l \in Seq(L) /\ l # << >> /\ Last(l) = l[Len(l)]
         /\ LevelLogged(l, s, p, Len(h), h[Len(h)], Len(s), Len(p))
<1>1. /\ BeginsOrdered(h, s, p) /\ Len(l) = Len(h) + Len(s) + Len(p)
      /\ \A i \in 1 .. Len(h) : LevelLogged(l, s, p, i, h[i], SinglesEnd(h, s, i), ParallelsEnd(h, p, i))
  BY DEF Stacked
<1>2. Len(h) \in Nat /\ Len(h) # 0 /\ h \in Seq(Memento) /\ l \in Seq(L)
  BY EmptySeq, LenProperties DEF StackParts
<1>3. Len(h) \in 1 .. Len(h)
  BY <1>2
<1>4. SinglesEnd(h, s, Len(h)) = Len(s) /\ ParallelsEnd(h, p, Len(h)) = Len(p)
  BY DEF SinglesEnd, ParallelsEnd
<1>5. /\ Len(s) \in Nat /\ Len(p) \in Nat
      /\ h[Len(h)] \in Memento
      /\ h[Len(h)].singleBegin \in Nat /\ h[Len(h)].parallelBegin \in Nat
      /\ h[Len(h)].singleBegin <= Len(s) /\ h[Len(h)].parallelBegin <= Len(p)
  BY <1>1, <1>3, <1>4, StackRanges
<1>6. Len(l) # 0
  BY <1>1, <1>2, <1>5
<1>7. l # << >>
  BY <1>2, <1>6, EmptySeq
<1> QED BY <1>1, <1>2, <1>3, <1>4, <1>5, <1>7 DEF Last

\* A contraction begins a level.
LEMMA PushLevel ==
  ASSUME NEW L, NEW l, NEW h, NEW s, NEW p, StackParts(L, l, h, s, p), Stacked(l, h, s, p),
         NEW x \in L, NEW m \in Memento, ContractedAs(x, m),
         m.singleBegin = Len(s), m.parallelBegin = Len(p)
  PROVE  Stacked(Append(l, x), Append(h, m), s, p)
<1> DEFINE l2 == Append(l, x)
           h2 == Append(h, m)
           n == Len(h)
<1>1. /\ l \in Seq(L) /\ h \in Seq(Memento)
      /\ n \in Nat /\ Len(s) \in Nat /\ Len(p) \in Nat /\ Len(l) \in Nat
      /\ h = << >> => n = 0 /\ Len(s) = 0 /\ Len(p) = 0
      /\ n = 0 => h = << >>
      /\ BeginsOrdered(h, s, p) /\ Len(l) = n + Len(s) + Len(p)
      /\ \A i \in 1 .. n : LevelLogged(l, s, p, i, h[i], SinglesEnd(h, s, i), ParallelsEnd(h, p, i))
  BY EmptySeq, LenProperties DEF StackParts, Stacked
<1>2. /\ Len(l2) = Len(l) + 1 /\ l2[Len(l) + 1] = x /\ \A j \in 1 .. Len(l) : l2[j] = l[j]
      /\ Len(h2) = n + 1 /\ h2[n + 1] = m /\ \A j \in 1 .. n : h2[j] = h[j]
      /\ h2 # << >>
  <2>1. /\ Len(l2) = Len(l) + 1 /\ l2[Len(l) + 1] = x /\ \A j \in 1 .. Len(l) : l2[j] = l[j]
    <3>1. l \in Seq(L) /\ x \in L
      BY <1>1
    <3> QED BY <3>1, Push
  <2>2. /\ Len(h2) = n + 1 /\ h2[n + 1] = m /\ \A j \in 1 .. n : h2[j] = h[j]
        /\ h2 # << >>
    BY <1>1, Push
  <2> QED BY <2>1, <2>2
<1> HIDE DEF l2, h2
<1>3. ASSUME NEW i \in 1 .. n
      PROVE  LevelLogged(l2, s, p, i, h2[i], SinglesEnd(h, s, i), ParallelsEnd(h, p, i))
  <2>0. h2[i] = h[i] /\ i \in Nat /\ i >= 1
    BY <1>1, <1>2
  <2>1. /\ h[i].singleBegin \in Nat /\ h[i].parallelBegin \in Nat
        /\ SinglesEnd(h, s, i) \in Nat /\ ParallelsEnd(h, p, i) \in Nat
        /\ h[i].singleBegin <= SinglesEnd(h, s, i) /\ SinglesEnd(h, s, i) <= Len(s)
        /\ h[i].parallelBegin <= ParallelsEnd(h, p, i) /\ ParallelsEnd(h, p, i) <= Len(p)
    BY <1>1, StackRanges
  <2>2. Agree(l2, l, i + SinglesEnd(h, s, i) + ParallelsEnd(h, p, i))
    BY <1>1, <1>2, <2>1 DEF Agree
  <2>3. SameLevel(h[i], h2[i]) /\ Agree(s, s, SinglesEnd(h, s, i)) /\ Agree(p, p, ParallelsEnd(h, p, i))
    BY <2>0 DEF SameLevel, Agree
  <2>4. LevelLogged(l, s, p, i, h[i], SinglesEnd(h, s, i), ParallelsEnd(h, p, i))
    BY <1>1
  <2>5. SinglesEnd(h, s, i) <= SinglesEnd(h, s, i) /\ ParallelsEnd(h, p, i) <= ParallelsEnd(h, p, i)
    BY <2>1
  <2> QED BY <2>0, <2>1, <2>2, <2>3, <2>4, <2>5, LevelCarried
<1>4. ASSUME NEW i \in 1 .. n
      PROVE  SinglesEnd(h2, s, i) = SinglesEnd(h, s, i) /\ ParallelsEnd(h2, p, i) = ParallelsEnd(h, p, i)
  <2>1. CASE i = n
    BY <1>1, <1>2, <2>1 DEF SinglesEnd, ParallelsEnd
  <2>2. CASE i # n
    <3>1. i + 1 \in 1 .. n /\ i # Len(h2)
      BY <1>1, <1>2, <2>2
    <3> QED BY <1>2, <2>2, <3>1 DEF SinglesEnd, ParallelsEnd
  <2> QED BY <2>1, <2>2
<1>5. LevelLogged(l2, s, p, n + 1, h2[n + 1], SinglesEnd(h2, s, n + 1), ParallelsEnd(h2, p, n + 1))
  <2>1. SinglesEnd(h2, s, n + 1) = Len(s) /\ ParallelsEnd(h2, p, n + 1) = Len(p)
    BY <1>2 DEF SinglesEnd, ParallelsEnd
  <2>2. n + 1 + m.singleBegin + m.parallelBegin = Len(l) + 1
    BY <1>1
  <2>3. ContractedAs(l2[n + 1 + m.singleBegin + m.parallelBegin], m)
    BY <1>2, <2>2
  <2>4. n + 1 \in Nat /\ m.singleBegin \in Nat /\ m.parallelBegin \in Nat
    BY <1>1
  <2>5. LevelLogged(l2, s, p, n + 1, m, m.singleBegin, m.parallelBegin)
    BY <2>3, <2>4, LevelBegun
  <2> QED BY <1>2, <2>1, <2>5
<1>6. \A i \in 1 .. Len(h2) : LevelLogged(l2, s, p, i, h2[i], SinglesEnd(h2, s, i), ParallelsEnd(h2, p, i))
  <2> SUFFICES ASSUME NEW i \in 1 .. n + 1
               PROVE  LevelLogged(l2, s, p, i, h2[i], SinglesEnd(h2, s, i), ParallelsEnd(h2, p, i))
    BY <1>2
  <2>1. CASE i = n + 1
    BY <1>5, <2>1
  <2>2. CASE i # n + 1
    <3>1. i \in 1 .. n
      BY <1>1, <2>2
    <3> QED BY <1>3, <1>4, <3>1
  <2> QED BY <2>1, <2>2
<1>7. BeginsOrdered(h2, s, p)
  <2>1. h2[1].singleBegin = 0 /\ h2[1].parallelBegin = 0
    <3>1. CASE n = 0
      BY <1>1, <1>2, <3>1
    <3>2. CASE n # 0
      <4>1. 1 \in 1 .. n /\ h # << >>
        BY <1>1, <3>2
      <4>2. h2[1] = h[1]
        BY <1>2, <4>1
      <4> QED BY <1>1, <4>1, <4>2 DEF BeginsOrdered
    <3> QED BY <3>1, <3>2
  <2>2. ASSUME NEW i \in 1 .. n + 1, NEW k \in i .. n + 1
        PROVE  /\ h2[i].singleBegin <= Len(s) /\ h2[i].parallelBegin <= Len(p)
               /\ h2[i].singleBegin <= h2[k].singleBegin /\ h2[i].parallelBegin <= h2[k].parallelBegin
    <3>1. CASE i = n + 1
      <4>1. k = n + 1
        BY <1>1, <3>1
      <4> QED BY <1>1, <1>2, <3>1, <4>1
    <3>2. CASE i # n + 1
      <4>1. i \in 1 .. n
        BY <1>1, <3>2
      <4>2. h2[i] = h[i] /\ h[i].singleBegin <= Len(s) /\ h[i].parallelBegin <= Len(p)
        BY <1>1, <1>2, <4>1 DEF BeginsOrdered
      <4>3. CASE k = n + 1
        BY <1>2, <4>2, <4>3
      <4>4. CASE k # n + 1
        <5>1. k \in i .. n /\ k \in 1 .. n
          BY <1>1, <4>1, <4>4
        <5>2. h2[k] = h[k]
          BY <1>2, <5>1
        <5> QED BY <1>1, <4>1, <4>2, <5>1, <5>2 DEF BeginsOrdered
      <4> QED BY <4>3, <4>4
    <3> QED BY <3>1, <3>2
  <2> QED
    <3>1. Len(h2) = n + 1
      BY <1>2
    <3>2. \A i \in 1 .. n + 1 : i \in i .. n + 1
      BY <1>1
    <3> QED BY <2>1, <2>2, <3>1, <3>2 DEF BeginsOrdered
<1>8. Len(l2) = Len(h2) + Len(s) + Len(p)
  BY <1>1, <1>2
<1> QED BY <1>2, <1>6, <1>7, <1>8 DEF Stacked, l2, h2

\* Only the last level changes.
LEMMA ChangeTop ==
  ASSUME NEW L, NEW l, NEW h, NEW s, NEW p, StackParts(L, l, h, s, p), Stacked(l, h, s, p), h # << >>,
         NEW l2, NEW h2, NEW s2, NEW p2, Len(h2) = Len(h), h2 # << >>,
         SameLevels(h, h2),
         Len(s2) \in Nat, h[Len(h)].singleBegin <= Len(s2),
         Len(p2) \in Nat, h[Len(h)].parallelBegin <= Len(p2),
         Len(l2) = Len(h) + Len(s2) + Len(p2),
         Agree(l2, l, Len(h) - 1 + h[Len(h)].singleBegin + h[Len(h)].parallelBegin),
         Agree(s2, s, h[Len(h)].singleBegin), Agree(p2, p, h[Len(h)].parallelBegin),
         LevelLogged(l2, s2, p2, Len(h), h2[Len(h)], Len(s2), Len(p2))
  PROVE  Stacked(l2, h2, s2, p2)
<1> DEFINE n == Len(h)
<1>1. n \in 1 .. n /\ n \in Nat /\ BeginsOrdered(h, s, p)
  BY TopLevel DEF Stacked
<1>2. \A i \in 1 .. n : h2[i].singleBegin = h[i].singleBegin /\ h2[i].parallelBegin = h[i].parallelBegin
  BY DEF SameLevel, SameLevels
<1>3. \A i \in 1 .. n : h[i].singleBegin \in Nat /\ h[i].parallelBegin \in Nat
  BY <1>1, StackRanges
<1>4. ASSUME NEW i \in 1 .. n
      PROVE  LevelLogged(l2, s2, p2, i, h2[i], SinglesEnd(h2, s2, i), ParallelsEnd(h2, p2, i))
  <2>1. CASE i = n
    BY <2>1 DEF SinglesEnd, ParallelsEnd
  <2>2. CASE i # n
    <3>1. i + 1 \in 1 .. n
      BY <1>1, <2>2
    <3>2. SinglesEnd(h2, s2, i) = SinglesEnd(h, s, i) /\ ParallelsEnd(h2, p2, i) = ParallelsEnd(h, p, i)
      BY <1>2, <2>2, <3>1 DEF SinglesEnd, ParallelsEnd
    <3>3. SameLevel(h[i], h2[i])
      BY DEF SameLevels
    <3>4. LevelLogged(l2, s2, p2, i, h2[i], SinglesEnd(h, s, i), ParallelsEnd(h, p, i))
      BY <2>2, <3>3, LowerLevels
    <3> QED BY <3>2, <3>4
  <2> QED BY <2>1, <2>2
<1>5. BeginsOrdered(h2, s2, p2)
  <2>1. 1 \in 1 .. n
    BY <1>1
  <2>2. h2[1].singleBegin = 0 /\ h2[1].parallelBegin = 0
    BY <1>1, <1>2, <2>1 DEF BeginsOrdered
  <2>3. ASSUME NEW i \in 1 .. n
        PROVE  /\ h2[i].singleBegin <= Len(s2) /\ h2[i].parallelBegin <= Len(p2)
               /\ \A k \in i .. n : h2[i].singleBegin <= h2[k].singleBegin /\ h2[i].parallelBegin <= h2[k].parallelBegin
    <3>1. n \in i .. n /\ \A k \in i .. n : k \in 1 .. n
      BY <1>1
    <3>2. \A k \in i .. n : h[i].singleBegin <= h[k].singleBegin /\ h[i].parallelBegin <= h[k].parallelBegin
      BY <1>1 DEF BeginsOrdered
    <3>3. h[i].singleBegin <= h[n].singleBegin /\ h[i].parallelBegin <= h[n].parallelBegin
      BY <3>1, <3>2
    <3>4. h[i].singleBegin <= Len(s2) /\ h[i].parallelBegin <= Len(p2)
      BY <1>1, <1>3, <3>3
    <3> QED BY <1>2, <3>1, <3>2, <3>4
  <2> QED BY <2>2, <2>3 DEF BeginsOrdered
<1> QED BY <1>4, <1>5 DEF Stacked

\* A net with a single pin is removed.
LEMMA PushSingle ==
  ASSUME NEW L, NEW l, NEW h, NEW s, NEW p, StackParts(L, l, h, s, p), Stacked(l, h, s, p), h # << >>,
         Len(p) = h[Len(h)].parallelBegin,
         NEW x \in L, NEW e \in Hyperedge, RemovedAs(x, e),
         NEW h2, Len(h2) = Len(h), h2 # << >>, SameLevels(h, h2)
  PROVE  Stacked(Append(l, x), h2, Append(s, e), p)
<1> DEFINE l2 == Append(l, x)
           s2 == Append(s, e)
           n == Len(h)
           S == h[n].singleBegin
           Q == h[n].parallelBegin
<1>1. /\ n \in 1 .. n /\ n \in Nat /\ Len(s) \in Nat /\ Len(p) \in Nat /\ Q = Len(p) /\ S \in Nat /\ Q \in Nat
      /\ S <= Len(s)
      /\ Len(l) = n + Len(s) + Len(p) /\ l \in Seq(L)
      /\ LevelLogged(l, s, p, n, h[n], Len(s), Len(p))
      /\ s \in Seq(Hyperedge)
  BY TopLevel DEF StackParts
<1>2. /\ Len(l2) = Len(l) + 1 /\ l2[Len(l) + 1] = x /\ \A j \in 1 .. Len(l) : l2[j] = l[j]
  BY <1>1, Push
<1>3. /\ Len(s2) = Len(s) + 1 /\ s2[Len(s) + 1] = e /\ \A j \in 1 .. Len(s) : s2[j] = s[j]
  BY <1>1, Push
<1>4. SameLevel(h[n], h2[n])
  BY <1>1 DEF SameLevels
<1>8. h[n].singleBegin = S /\ h[n].parallelBegin = Q /\ h2[n].parallelBegin = Q /\ h2[n].singleBegin = S
  BY <1>4 DEF SameLevel
<1> HIDE DEF l2, s2, n, S, Q
<1>5. /\ Agree(l2, l, n + Len(s) + Len(p)) /\ Agree(s2, s, Len(s)) /\ Agree(p, p, Q)
      /\ Agree(l2, l, n - 1 + S + Q) /\ Agree(s2, s, S)
  <2>1. n - 1 + S + Q \in Int /\ Len(l) \in Int /\ n - 1 + S + Q <= Len(l) /\ n + Len(s) + Len(p) = Len(l)
    BY <1>1
  <2>2. 1 .. n - 1 + S + Q \subseteq 1 .. Len(l)
    BY <2>1
  <2>3. 1 .. S \subseteq 1 .. Len(s)
    BY <1>1
  <2> QED BY <1>2, <1>3, <2>1, <2>2, <2>3 DEF Agree
<1>6. LevelLogged(l2, s2, p, n, h2[n], Len(s), Q)
  <2>1. n >= 1 /\ Len(s) <= Len(s) /\ Q <= Q /\ S <= Len(s) /\ Len(p) \in Nat
    BY <1>1
  <2> QED BY <1>1, <1>4, <1>5, <1>8, <2>1, LevelCarried
<1>7. LevelLogged(l2, s2, p, n, h2[n], Len(s) + 1, Q)
  <2>1. n + Q + Len(s) + 1 = Len(l) + 1
    BY <1>1
  <2>2. RemovedAs(l2[n + Q + Len(s) + 1], s2[Len(s) + 1])
    BY <1>2, <1>3, <2>1
  <2> QED BY <1>1, <1>6, <1>8, <2>2, LevelLosesSingle
<1>9. Len(s2) \in Nat /\ S <= Len(s2) /\ Len(p) \in Nat /\ Q <= Len(p) /\ Len(l2) = n + Len(s2) + Len(p)
  <2>1. Len(l2) = Len(l) + 1 /\ Len(s2) = Len(s) + 1
    BY <1>2, <1>3
  <2> QED BY <1>1, <2>1
<1>10. LevelLogged(l2, s2, p, n, h2[n], Len(s2), Len(p))
  BY <1>1, <1>3, <1>7
<1>11. Agree(l2, l, n - 1 + S + Q) /\ Agree(s2, s, S) /\ Agree(p, p, Q)
  BY <1>5
<1> QED BY <1>9, <1>10, <1>11, ChangeTop DEF n, S, Q, l2, s2

\* A parallel net is removed.
LEMMA PushParallel ==
  ASSUME NEW L, NEW l, NEW h, NEW s, NEW p, StackParts(L, l, h, s, p), Stacked(l, h, s, p), h # << >>,
         NEW x \in L, NEW pair \in ParallelHE, RemovedAs(x, pair.removed),
         NEW h2, Len(h2) = Len(h), h2 # << >>, SameLevels(h, h2)
  PROVE  Stacked(Append(l, x), h2, s, Append(p, pair))
<1> DEFINE l2 == Append(l, x)
           p2 == Append(p, pair)
           n == Len(h)
           S == h[n].singleBegin
           Q == h[n].parallelBegin
<1>1. /\ n \in 1 .. n /\ n \in Nat /\ Len(s) \in Nat /\ Len(p) \in Nat /\ S \in Nat /\ Q \in Nat
      /\ S <= Len(s) /\ Q <= Len(p)
      /\ Len(l) = n + Len(s) + Len(p) /\ l \in Seq(L)
      /\ LevelLogged(l, s, p, n, h[n], Len(s), Len(p))
      /\ p \in Seq(ParallelHE)
  BY TopLevel DEF StackParts
<1>2. /\ Len(l2) = Len(l) + 1 /\ l2[Len(l) + 1] = x /\ \A j \in 1 .. Len(l) : l2[j] = l[j]
  BY <1>1, Push
<1>3. /\ Len(p2) = Len(p) + 1 /\ p2[Len(p) + 1] = pair /\ \A j \in 1 .. Len(p) : p2[j] = p[j]
  BY <1>1, Push
<1>4. SameLevel(h[n], h2[n])
  BY <1>1 DEF SameLevels
<1>8. h[n].singleBegin = S /\ h[n].parallelBegin = Q /\ h2[n].parallelBegin = Q /\ h2[n].singleBegin = S
  BY <1>4 DEF SameLevel
<1> HIDE DEF l2, p2, n, S, Q
<1>5. /\ Agree(l2, l, n + Len(s) + Len(p)) /\ Agree(s, s, Len(s)) /\ Agree(p2, p, Len(p))
      /\ Agree(l2, l, n - 1 + S + Q) /\ Agree(s, s, S) /\ Agree(p2, p, Q)
  BY <1>1, <1>2, <1>3 DEF Agree
<1>6. LevelLogged(l2, s, p2, n, h2[n], Len(s), Len(p))
  <2>1. n >= 1 /\ Len(s) <= Len(s) /\ Len(p) <= Len(p)
    BY <1>1
  <2> QED BY <1>1, <1>4, <1>5, <1>8, <2>1, LevelCarried
<1>7. LevelLogged(l2, s, p2, n, h2[n], Len(s), Len(p) + 1)
  <2>1. n + Len(s) + Len(p) + 1 = Len(l) + 1
    BY <1>1
  <2>2. RemovedAs(l2[n + Len(s) + Len(p) + 1], p2[Len(p) + 1].removed)
    BY <1>2, <1>3, <2>1
  <2> QED BY <1>1, <1>6, <1>8, <2>2, LevelLosesParallel
<1>9. Len(s) \in Nat /\ S <= Len(s) /\ Len(p2) \in Nat /\ Q <= Len(p2) /\ Len(l2) = n + Len(s) + Len(p2)
  <2>1. Len(l2) = Len(l) + 1 /\ Len(p2) = Len(p) + 1
    BY <1>2, <1>3
  <2> QED BY <1>1, <2>1
<1>10. LevelLogged(l2, s, p2, n, h2[n], Len(s), Len(p2))
  BY <1>1, <1>3, <1>7
<1>11. Agree(l2, l, n - 1 + S + Q) /\ Agree(s, s, S) /\ Agree(p2, p, Q)
  BY <1>5
<1> QED BY <1>9, <1>10, <1>11, ChangeTop DEF n, S, Q, l2, p2

\* The last parallel net is what was logged last, and restored.
LEMMA PopParallel ==
  ASSUME NEW L, NEW l, NEW h, NEW s, NEW p, StackParts(L, l, h, s, p), Stacked(l, h, s, p), h # << >>,
         Len(p) > h[Len(h)].parallelBegin
  PROVE  /\ RemovedAs(Last(l), Last(p).removed) /\ p # << >>
         /\ Stacked(Front(l), h, s, Front(p))
<1> DEFINE l2 == Front(l)
           p2 == Front(p)
           n == Len(h)
           S == h[n].singleBegin
           Q == h[n].parallelBegin
<1>1. /\ n \in 1 .. n /\ n \in Nat /\ Len(s) \in Nat /\ Len(p) \in Nat /\ S \in Nat /\ Q \in Nat
      /\ S <= Len(s) /\ Q < Len(p)
      /\ Len(l) = n + Len(s) + Len(p) /\ l \in Seq(L) /\ l # << >> /\ Last(l) = l[Len(l)]
      /\ LevelLogged(l, s, p, n, h[n], Len(s), Len(p))
      /\ p \in Seq(ParallelHE)
  BY TopLevel DEF StackParts
<1>2. p # << >>
  BY <1>1, EmptySeq
<1>3. /\ Len(l2) = Len(l) - 1 /\ \A j \in 1 .. Len(l) - 1 : l2[j] = l[j]
  BY <1>1, Pop
<1>4. /\ Len(p2) = Len(p) - 1 /\ \A j \in 1 .. Len(p) - 1 : p2[j] = p[j]
      /\ Last(p) = p[Len(p)]
  BY <1>1, <1>2, Pop
<1>5. SameLevel(h[n], h[n]) /\ SameLevels(h, h)
  BY DEF SameLevel, SameLevels
<1>8. h[n].singleBegin = S /\ h[n].parallelBegin = Q
  OBVIOUS
<1> HIDE DEF l2, p2, n, S, Q
<1>6. RemovedAs(Last(l), Last(p).removed)
  <2>1. Len(p) \in Q + 1 .. Len(p) /\ n + Len(s) + Len(p) = Len(l)
    BY <1>1
  <2>2. RemovedAs(l[n + Len(s) + Len(p)], p[Len(p)].removed)
    BY <1>1, <1>8, <2>1 DEF LevelLogged
  <2> QED BY <1>1, <1>4, <2>1, <2>2
<1>7. LevelLogged(l2, s, p2, n, h[n], Len(s), Len(p) - 1)
  <2>1. n >= 1 /\ Len(s) <= Len(s) /\ Len(p) - 1 <= Len(p) /\ Q <= Len(p) - 1 /\ Len(p) - 1 \in Nat
    BY <1>1
  <2>2. /\ Agree(l2, l, n + Len(s) + (Len(p) - 1)) /\ Agree(s, s, Len(s)) /\ Agree(p2, p, Len(p) - 1)
    BY <1>1, <1>3, <1>4 DEF Agree
  <2> QED BY <1>1, <1>5, <1>8, <2>1, <2>2, LevelCarried
<1>9. Len(s) \in Nat /\ S <= Len(s) /\ Len(p2) \in Nat /\ Q <= Len(p2) /\ Len(l2) = n + Len(s) + Len(p2)
  BY <1>1, <1>3, <1>4
<1>10. LevelLogged(l2, s, p2, n, h[n], Len(s), Len(p2))
  BY <1>4, <1>7
<1>11. Agree(l2, l, n - 1 + S + Q) /\ Agree(s, s, S) /\ Agree(p2, p, Q)
  BY <1>1, <1>3, <1>4 DEF Agree
<1>12. Stacked(l2, h, s, p2)
  BY <1>5, <1>9, <1>10, <1>11, ChangeTop DEF n, S, Q
<1> QED BY <1>2, <1>6, <1>12 DEF l2, p2

\* Once the parallel nets of its level are restored, the last single-pin net is
\* what was logged last.
LEMMA PopSingle ==
  ASSUME NEW L, NEW l, NEW h, NEW s, NEW p, StackParts(L, l, h, s, p), Stacked(l, h, s, p), h # << >>,
         Len(p) = h[Len(h)].parallelBegin, Len(s) > h[Len(h)].singleBegin
  PROVE  /\ RemovedAs(Last(l), Last(s)) /\ s # << >>
         /\ Stacked(Front(l), h, Front(s), p)
<1> DEFINE l2 == Front(l)
           s2 == Front(s)
           n == Len(h)
           S == h[n].singleBegin
           Q == h[n].parallelBegin
<1>1. /\ n \in 1 .. n /\ n \in Nat /\ Len(s) \in Nat /\ Len(p) \in Nat /\ S \in Nat /\ Q \in Nat
      /\ S < Len(s) /\ Q = Len(p)
      /\ Len(l) = n + Len(s) + Len(p) /\ l \in Seq(L) /\ l # << >> /\ Last(l) = l[Len(l)]
      /\ LevelLogged(l, s, p, n, h[n], Len(s), Len(p))
      /\ s \in Seq(Hyperedge)
  BY TopLevel DEF StackParts
<1>2. s # << >>
  BY <1>1, EmptySeq
<1>3. /\ Len(l2) = Len(l) - 1 /\ \A j \in 1 .. Len(l) - 1 : l2[j] = l[j]
  BY <1>1, Pop
<1>4. /\ Len(s2) = Len(s) - 1 /\ \A j \in 1 .. Len(s) - 1 : s2[j] = s[j]
      /\ Last(s) = s[Len(s)]
  BY <1>1, <1>2, Pop
<1>5. SameLevel(h[n], h[n]) /\ SameLevels(h, h)
  BY DEF SameLevel, SameLevels
<1>8. h[n].singleBegin = S /\ h[n].parallelBegin = Q
  OBVIOUS
<1> HIDE DEF l2, s2, n, S, Q
<1>6. RemovedAs(Last(l), Last(s))
  <2>1. Len(s) \in S + 1 .. Len(s) /\ n + Q + Len(s) = Len(l)
    <3>1. Len(l) = n + Len(s) + Q
      BY <1>1
    <3>2. n \in Nat /\ Len(s) \in Nat /\ Q \in Nat /\ S \in Nat /\ S < Len(s)
      BY <1>1
    <3> QED BY <3>1, <3>2
  <2>2. RemovedAs(l[n + Q + Len(s)], s[Len(s)])
    BY <1>1, <1>8, <2>1 DEF LevelLogged
  <2> QED BY <1>1, <1>4, <2>1, <2>2
<1>7. LevelLogged(l2, s2, p, n, h[n], Len(s) - 1, Len(p))
  <2>1. n >= 1 /\ Len(s) - 1 <= Len(s) /\ Len(p) <= Len(p) /\ Q <= Len(p) /\ S <= Len(s) - 1 /\ Len(s) - 1 \in Nat
    BY <1>1
  <2>2. /\ Agree(l2, l, n + (Len(s) - 1) + Len(p)) /\ Agree(s2, s, Len(s) - 1) /\ Agree(p, p, Len(p))
    <3>1. n + (Len(s) - 1) + Len(p) = Len(l) - 1
      BY <1>1
    <3> QED BY <1>3, <1>4, <3>1 DEF Agree
  <2> QED BY <1>1, <1>5, <1>8, <2>1, <2>2, LevelCarried
<1>9. Len(s2) \in Nat /\ S <= Len(s2) /\ Len(p) \in Nat /\ Q <= Len(p) /\ Len(l2) = n + Len(s2) + Len(p)
  BY <1>1, <1>3, <1>4
<1>10. LevelLogged(l2, s2, p, n, h[n], Len(s2), Len(p))
  BY <1>4, <1>7
<1>11. Agree(l2, l, n - 1 + S + Q) /\ Agree(s2, s, S) /\ Agree(p, p, Q)
  <2>1. n - 1 + S + Q \in Int /\ Len(l) - 1 \in Int /\ n - 1 + S + Q <= Len(l) - 1 /\ S <= Len(s) - 1
    BY <1>1
  <2>2. 1 .. n - 1 + S + Q \subseteq 1 .. Len(l) - 1
    BY <2>1
  <2>3. 1 .. S \subseteq 1 .. Len(s) - 1
    BY <1>1, <2>1
  <2> QED BY <1>3, <1>4, <2>2, <2>3 DEF Agree
<1>12. Stacked(l2, h, s2, p)
  BY <1>5, <1>9, <1>10, <1>11, ChangeTop DEF n, S, Q
<1> QED BY <1>2, <1>6, <1>12 DEF l2, s2


\* Once all nets of its level are restored, the contraction of the level is what
\* was logged last.
LEMMA PopLevel ==
  ASSUME NEW L, NEW l, NEW h, NEW s, NEW p, StackParts(L, l, h, s, p), Stacked(l, h, s, p), h # << >>,
         Len(p) = h[Len(h)].parallelBegin, Len(s) = h[Len(h)].singleBegin
  PROVE  /\ ContractedAs(Last(l), Last(h))
         /\ Stacked(Front(l), Front(h), s, p)
<1> DEFINE l2 == Front(l)
           h2 == Front(h)
           n == Len(h)
           S == h[n].singleBegin
           Q == h[n].parallelBegin
<1>1. /\ n \in 1 .. n /\ n \in Nat /\ Len(s) \in Nat /\ Len(p) \in Nat /\ S = Len(s) /\ Q = Len(p)
      /\ Len(l) = n + Len(s) + Len(p) /\ l \in Seq(L) /\ l # << >> /\ Last(l) = l[Len(l)]
      /\ LevelLogged(l, s, p, n, h[n], Len(s), Len(p))
      /\ h \in Seq(Memento) /\ Last(h) = h[n]
  BY TopLevel DEF StackParts
<1>2. /\ Len(l2) = Len(l) - 1 /\ \A j \in 1 .. Len(l) - 1 : l2[j] = l[j]
  BY <1>1, Pop
<1>3. /\ h2 \in Seq(Memento) /\ Len(h2) = n - 1 /\ \A j \in 1 .. n - 1 : h2[j] = h[j]
  BY <1>1, Pop
<1>4. BeginsOrdered(h, s, p)
  BY DEF Stacked
<1>5. \A i \in 1 .. n : /\ h[i].singleBegin \in Nat /\ h[i].parallelBegin \in Nat
                        /\ h[i].singleBegin <= Len(s) /\ h[i].parallelBegin <= Len(p)
                        /\ \A k \in i .. n : h[i].singleBegin <= h[k].singleBegin /\ h[i].parallelBegin <= h[k].parallelBegin
  BY <1>4, StackRanges DEF BeginsOrdered
<1>6. h[1].singleBegin = 0 /\ h[1].parallelBegin = 0
  BY <1>4 DEF BeginsOrdered
<1>7. s \in Seq(Hyperedge) /\ p \in Seq(ParallelHE)
  BY DEF StackParts
<1>8. h[n].singleBegin = S /\ h[n].parallelBegin = Q
  OBVIOUS
<1>9. Agree(l2, l, n - 1 + S + Q) /\ Agree(s, s, S) /\ Agree(p, p, Q)
  <2>1. n - 1 + S + Q = Len(l) - 1
    BY <1>1
  <2> QED BY <1>2, <2>1 DEF Agree
<1>10. ASSUME NEW i \in 1 .. n - 1
       PROVE  LevelLogged(l2, s, p, i, h2[i], SinglesEnd(h2, s, i), ParallelsEnd(h2, p, i))
  <2>1. i \in 1 .. n /\ i # n /\ i + 1 \in 1 .. n /\ h2[i] = h[i]
    BY <1>1, <1>3
  <2>2. SameLevel(h[i], h2[i])
    BY <2>1 DEF SameLevel
  <2>3. LevelLogged(l2, s, p, i, h2[i], SinglesEnd(h, s, i), ParallelsEnd(h, p, i))
    BY <1>9, <2>1, <2>2, LowerLevels
  <2>4. SinglesEnd(h2, s, i) = SinglesEnd(h, s, i) /\ ParallelsEnd(h2, p, i) = ParallelsEnd(h, p, i)
    <3>1. CASE i = n - 1
      BY <1>1, <1>3, <2>1, <3>1 DEF SinglesEnd, ParallelsEnd
    <3>2. CASE i # n - 1
      <4>1. i + 1 \in 1 .. n - 1
        BY <1>1, <3>2
      <4> QED BY <1>1, <1>3, <2>1, <3>2, <4>1 DEF SinglesEnd, ParallelsEnd
    <3> QED BY <3>1, <3>2
  <2> QED BY <2>3, <2>4
<1> HIDE DEF l2, h2, n, S, Q
<1>11. ContractedAs(Last(l), Last(h))
  <2>1. n + S + Q = Len(l)
    BY <1>1
  <2>2. ContractedAs(l[n + S + Q], h[n])
    BY <1>1, <1>8 DEF LevelLogged
  <2> QED BY <1>1, <2>1, <2>2
<1>12. n = 1 => s = << >> /\ p = << >>
  <2> HAVE n = 1
  <2>1. Len(s) = 0 /\ Len(p) = 0
    BY <1>1, <1>6, <1>8
  <2> QED BY <1>7, <2>1, EmptySeq
<1>13. h2 = << >> => n = 1
  BY <1>1, <1>3, EmptySeq
<1>14. BeginsOrdered(h2, s, p)
  <2>1. h2 # << >> => h2[1].singleBegin = 0 /\ h2[1].parallelBegin = 0
    <3> HAVE h2 # << >>
    <3>1. Len(h2) # 0
      BY <1>3, EmptySeq
    <3>2. 1 \in 1 .. n - 1
      BY <1>1, <1>3, <3>1
    <3> QED BY <1>3, <1>6, <3>2
  <2>2. ASSUME NEW i \in 1 .. n - 1
        PROVE  /\ h2[i].singleBegin <= Len(s) /\ h2[i].parallelBegin <= Len(p)
               /\ \A k \in i .. n - 1 : h2[i].singleBegin <= h2[k].singleBegin /\ h2[i].parallelBegin <= h2[k].parallelBegin
    <3>1. i \in 1 .. n /\ h2[i] = h[i]
      BY <1>1, <1>3
    <3>2. ASSUME NEW k \in i .. n - 1
          PROVE  h2[i].singleBegin <= h2[k].singleBegin /\ h2[i].parallelBegin <= h2[k].parallelBegin
      <4>1. k \in i .. n /\ h2[k] = h[k]
        BY <1>1, <1>3
      <4> QED BY <1>5, <3>1, <4>1
    <3> QED BY <1>5, <3>1, <3>2
  <2> QED BY <1>3, <2>1, <2>2 DEF BeginsOrdered
<1>15. Len(l2) = Len(h2) + Len(s) + Len(p)
  <2>1. Len(l2) = Len(l) - 1 /\ Len(h2) = n - 1
    BY <1>2, <1>3
  <2>2. /\ Len(l) = n + Len(s) + Len(p)
        /\ n \in Nat /\ Len(s) \in Nat /\ Len(p) \in Nat
    BY <1>1
  <2> QED BY <2>1, <2>2
<1>16. \A i \in 1 .. Len(h2) : LevelLogged(l2, s, p, i, h2[i], SinglesEnd(h2, s, i), ParallelsEnd(h2, p, i))
  BY <1>3, <1>10
<1>17. Stacked(l2, h2, s, p)
  BY <1>12, <1>13, <1>14, <1>15, <1>16 DEF Stacked
<1> QED BY <1>11, <1>17 DEF l2, h2
-----------------------------------------------------------------------------
\* The steps of the client.  Of many of them only the program counter and the
\* cursor matter: hypergraph, log, history, vectors and weights stay.
Stays == UNCHANGED <<hg, log, edgeWeight, history, removedSingle, removedParallel, maxWeights, timeUp>>

QuietStep ==
  \/ \E v \in Hypernode, b \in Block : SetNodePart(v, b)
  \/ ResetPartitioning
  \/ InitializeNumCutHyperedges
  \/ BeginLevel
  \/ ParallelRestored
  \/ \E v \in Hypernode, b \in Block : ChangeNodePart(v, b)
  \/ StartVCycle
  \/ UNCHANGED vars

\* A quiet step leaves what is recorded, and what it is recorded of.
LEMMA QuietStays == ASSUME QuietStep PROVE Stays
<1>1. ASSUME NEW v \in Hypernode, NEW b \in Block, SetNodePart(v, b) PROVE Stays
  BY <1>1 DEF SetNodePart, H!SetNodePart, Stays, pruner
<1>2. CASE ResetPartitioning
  BY <1>2 DEF ResetPartitioning, H!ResetPartitioning, Stays, pruner
<1>3. CASE InitializeNumCutHyperedges
  BY <1>3 DEF InitializeNumCutHyperedges, H!InitializeNumCutHyperedges, Stays, pruner
<1>4. CASE BeginLevel
  BY <1>4 DEF BeginLevel, Stays, pruner, hypergraph
<1>5. CASE ParallelRestored
  BY <1>5 DEF ParallelRestored, Stays, pruner, hypergraph
<1>6. ASSUME NEW v \in Hypernode, NEW b \in Block, ChangeNodePart(v, b) PROVE Stays
  BY <1>6 DEF ChangeNodePart, H!ChangeNodePart, Stays, pruner
<1>7. CASE StartVCycle
  BY <1>7 DEF StartVCycle, H!StartVCycle, Stays, pruner
<1>8. CASE UNCHANGED vars
  BY <1>8 DEF vars, Stays, pruner, hypergraph
<1> QED BY <1>1, <1>2, <1>3, <1>4, <1>5, <1>6, <1>7, <1>8 DEF QuietStep

\* Where each quiet step leaves the loop.
LoopRestarts == pc' = "idle" /\ cursor' = cursor /\ (phase # "refining" \/ history = << >>)
LoopStays ==
  pc' = pc /\ cursor' = cursor /\ (phase' = "refining" <=> phase = "refining")
LoopEnters ==
  /\ phase = "refining" /\ phase' = "refining"
  /\ history # << >>
  /\ \/ /\ pc \in {"idle", "search"} /\ pc' = "parallel"
        /\ cursor' = LastParallel(Last(history))
     \/ /\ pc = "parallel" /\ pc' = "single"
        /\ cursor = Last(history).parallelBegin
        /\ cursor' = LastSingle(Last(history))

\* Nothing is logged: there is no history.
LEMMA EmptyLog ==
  ASSUME ClientTyped, StackKept, log = << >>
  PROVE  history = << >> /\ removedSingle = << >> /\ removedParallel = << >>
<1>1. /\ Len(history) \in Nat /\ Len(removedSingle) \in Nat /\ Len(removedParallel) \in Nat
      /\ history \in Seq(Memento) /\ removedSingle \in Seq(Hyperedge) /\ removedParallel \in Seq(ParallelHE)
  BY LenProperties DEF ClientTyped
<1>2. Len(log) = 0
  BY EmptySeq
<1>3. Len(history) = 0 /\ Len(removedSingle) = 0 /\ Len(removedParallel) = 0
  BY <1>1, <1>2 DEF StackKept, Stacked
<1> QED BY <1>1, <1>3, EmptySeq

\* A quiet step goes on with the loop of doUncoarsen as the code does: it
\* enters the loop over the parallel or the single-pin nets, or leaves it alone.
LEMMA QuietLoop ==
  ASSUME QuietStep, ClientTyped, StackKept, LoopKept
  PROVE  /\ LoopRestarts \/ LoopStays \/ LoopEnters
         /\ hash' = hash \/ hash' = ResetEdgeHashes
         /\ phase' # "refining" => phase # "refining" \/ history = << >>
<1> DEFINE Goal == /\ LoopRestarts \/ LoopStays \/ LoopEnters
                   /\ hash' = hash \/ hash' = ResetEdgeHashes
                   /\ phase' # "refining" => phase # "refining" \/ history = << >>
<1>1. ASSUME NEW v \in Hypernode, NEW b \in Block, SetNodePart(v, b) PROVE Goal
  BY <1>1 DEF SetNodePart, H!SetNodePart, LoopStays, loop
<1>2. CASE ResetPartitioning
  BY <1>2 DEF ResetPartitioning, H!ResetPartitioning, LoopStays, loop
<1>3. CASE InitializeNumCutHyperedges
  BY <1>3 DEF InitializeNumCutHyperedges, H!InitializeNumCutHyperedges, LoopRestarts, loop
<1>4. CASE BeginLevel
  BY <1>4 DEF BeginLevel, LoopEnters, hypergraph
<1>5. CASE ParallelRestored
  <2>1. phase = "refining" /\ history # << >>
    BY <1>5 DEF ParallelRestored, LoopKept
  <2> QED BY <1>5, <2>1 DEF ParallelRestored, LoopEnters, hypergraph
<1>6. ASSUME NEW v \in Hypernode, NEW b \in Block, ChangeNodePart(v, b) PROVE Goal
  BY <1>6 DEF ChangeNodePart, H!ChangeNodePart, LoopStays, loop
<1>7. CASE StartVCycle
  <2>1. log = << >> /\ pc' = "idle" /\ hash' = ResetEdgeHashes /\ cursor' = cursor
    BY <1>7 DEF StartVCycle, H!StartVCycle
  <2> QED BY <2>1, EmptyLog DEF LoopRestarts
<1>8. CASE UNCHANGED vars
  BY <1>8 DEF vars, LoopStays, loop, hypergraph
<1> QED BY <1>1, <1>2, <1>3, <1>4, <1>5, <1>6, <1>7, <1>8 DEF QuietStep
-----------------------------------------------------------------------------
\* The weights of the nets.

\* Merging a net into another one, and the weights before.
LEMMA MergeExtends ==
  ASSUME NEW pairs \in Seq(ParallelHE), NEW g, NEW w, Merges(g, pairs, w), NEW pair \in ParallelHE
  PROVE  \E h : Merges(h, Append(pairs, pair), MergedBy(w, pair))
<1> DEFINE n == Len(pairs)
           w2 == MergedBy(w, pair)
           more == Append(pairs, pair)
           h == [q \in 0 .. n + 1 |-> IF q = n + 1 THEN w2 ELSE g[q]]
<1>1. /\ n \in Nat /\ Len(more) = n + 1 /\ more[n + 1] = pair /\ \A q \in 1 .. n : more[q] = pairs[q]
  BY AppendProperties, LenProperties
<1>2. /\ g \in [0 .. n -> [Hyperedge -> Nat]] /\ g[0] = InitEdgeWeight /\ g[n] = w
      /\ \A q \in 1 .. n : g[q] = MergedBy(g[q - 1], pairs[q])
  BY DEF Merges
<1>3. w \in [Hyperedge -> Nat]
  BY <1>1, <1>2
<1>4. w2 \in [Hyperedge -> Nat]
  BY <1>3 DEF MergedBy, ParallelHE
<1> HIDE DEF w2, more
<1>5. h \in [0 .. n + 1 -> [Hyperedge -> Nat]]
  BY <1>1, <1>2, <1>4
<1>6. h[0] = InitEdgeWeight /\ h[n] = w /\ h[n + 1] = w2 /\ \A q \in 0 .. n : h[q] = g[q]
  BY <1>1, <1>2
<1> HIDE DEF h
<1>7. ASSUME NEW q \in 1 .. n + 1 PROVE h[q] = MergedBy(h[q - 1], more[q])
  <2>1. CASE q = n + 1
    <3>1. q - 1 = n
      BY <1>1, <2>1
    <3> QED BY <1>1, <1>6, <2>1, <3>1 DEF w2
  <2>2. CASE q # n + 1
    <3>1. q \in 1 .. n /\ q \in 0 .. n /\ q - 1 \in 0 .. n
      BY <1>1, <2>2
    <3> QED BY <1>1, <1>2, <1>6, <3>1
  <2> QED BY <2>1, <2>2
<1>8. Merges(h, more, w2)
  BY <1>1, <1>5, <1>6, <1>7 DEF Merges
<1> QED BY <1>8 DEF more, w2

\* Splitting the last net off again leads to the weights before.
LEMMA SplitShortens ==
  ASSUME NEW pairs \in Seq(ParallelHE), pairs # << >>, NEW g, NEW w, Merges(g, pairs, w),
         NEW rep, NEW e, rep = pairs[Len(pairs)].representative, e = pairs[Len(pairs)].removed, rep # e
  PROVE  /\ [w EXCEPT ![rep] = @ - w[e]] \in [Hyperedge -> Nat]
         /\ \E h : Merges(h, Front(pairs), [w EXCEPT ![rep] = @ - w[e]])
<1> DEFINE n == Len(pairs)
           w2 == [w EXCEPT ![rep] = @ - w[e]]
           fewer == Front(pairs)
           h == [q \in 0 .. n - 1 |-> g[q]]
<1>1. /\ n \in Nat \ {0} /\ Len(fewer) = n - 1 /\ \A q \in 1 .. n - 1 : fewer[q] = pairs[q]
      /\ pairs[n] \in ParallelHE
  BY Pop
<1>2. /\ g \in [0 .. n -> [Hyperedge -> Nat]] /\ g[0] = InitEdgeWeight /\ g[n] = w
      /\ \A q \in 1 .. n : g[q] = MergedBy(g[q - 1], pairs[q])
  BY DEF Merges
<1>3. w2 = g[n - 1] /\ g[n - 1] \in [Hyperedge -> Nat]
  <2>1. w = MergedBy(g[n - 1], pairs[n]) /\ g[n - 1] \in [Hyperedge -> Nat]
    <3>1. n \in 1 .. n /\ n - 1 \in 0 .. n
      BY <1>1
    <3> QED BY <1>2, <3>1
  <2>2. rep \in Hyperedge /\ e \in Hyperedge
    BY <1>1 DEF ParallelHE
  <2> QED BY <2>1, <2>2 DEF MergedBy
<1> HIDE DEF w2, fewer
<1>4. h \in [0 .. n - 1 -> [Hyperedge -> Nat]]
  BY <1>1, <1>2
<1>5. h[0] = InitEdgeWeight /\ h[n - 1] = w2 /\ \A q \in 0 .. n - 1 : h[q] = g[q]
  BY <1>1, <1>2, <1>3
<1> HIDE DEF h
<1>6. ASSUME NEW q \in 1 .. n - 1 PROVE h[q] = MergedBy(h[q - 1], fewer[q])
  <2>1. q \in 1 .. n /\ q \in 0 .. n - 1 /\ q - 1 \in 0 .. n - 1
    BY <1>1
  <2> QED BY <1>1, <1>2, <1>5, <2>1
<1>7. Merges(h, fewer, w2)
  BY <1>1, <1>4, <1>5, <1>6 DEF Merges
<1> QED BY <1>3, <1>7 DEF fewer, w2

\* Without mergers the weights are those of the input.
LEMMA NothingMerged ==
  ASSUME NEW g, NEW w, Merges(g, << >>, w)
  PROVE  w = InitEdgeWeight
<1>1. Len(<< >>) = 0
  OBVIOUS
<1> QED BY <1>1 DEF Merges

\* What absorbed a parallel net is another net.
LEMMA SplitLast ==
  ASSUME ClientTyped, NetsAccounted, WeightsKept, removedParallel # << >>
  PROVE  LET pair == removedParallel[Len(removedParallel)]
             w == Split(pair.representative, pair.removed)
         IN  w \in [Hyperedge -> Nat] /\ \E h : Merges(h, Front(removedParallel), w)
<1> DEFINE pair == removedParallel[Len(removedParallel)]
<1>1. removedParallel \in Seq(ParallelHE) /\ Len(removedParallel) \in Nat \ {0}
  BY Pop DEF ClientTyped
<1>2. pair.representative # pair.removed
  <2>1. Len(removedParallel) \in 1 .. Len(removedParallel) /\ Len(removedParallel) <= Len(removedParallel)
    BY <1>1
  <2> QED BY <2>1 DEF NetsAccounted, Accounted
<1>3. PICK g : Merges(g, removedParallel, edgeWeight)
  BY DEF WeightsKept
<1> QED BY <1>1, <1>2, <1>3, SplitShortens DEF Split
-----------------------------------------------------------------------------
\* The first part of the invariant: what is recorded, and where the loops are.
CoreKept == ClientTyped /\ StackKept /\ LoopKept /\ SinglesFirst

\* Resetting the hashes, and contracting, keep the type of the hashes.
LEMMA HashTyped ==
  ASSUME hash \in [Hyperedge -> [Hypernode -> Int]]
  PROVE  /\ ResetEdgeHashes \in [Hyperedge -> [Hypernode -> Int]]
         /\ \A u, v \in Hypernode : ContractedHash(u, v) \in [Hyperedge -> [Hypernode -> Int]]
<1>1. \A S : HashOf(S) \in [Hypernode -> Int]
  BY DEF HashOf
<1>2. ResetEdgeHashes \in [Hyperedge -> [Hypernode -> Int]]
  BY <1>1 DEF ResetEdgeHashes
<1>3. ASSUME NEW u \in Hypernode, NEW v \in Hypernode, NEW e \in Hyperedge
      PROVE  /\ [hash[e] EXCEPT ![v] = @ - 1] \in [Hypernode -> Int]
             /\ [hash[e] EXCEPT ![v] = @ - 1, ![u] = @ + 1] \in [Hypernode -> Int]
  <2>1. hash[e] \in [Hypernode -> Int]
    OBVIOUS
  <2> QED BY <2>1
<1> QED BY <1>2, <1>3 DEF ContractedHash

\* The history is the only thing the loop invariants are about besides the
\* loop's own state.
LEMMA QuietCore ==
  ASSUME CoreKept, QuietStep
  PROVE  CoreKept'
<1>0. ClientTyped /\ StackKept /\ LoopKept /\ SinglesFirst
  BY DEF CoreKept
<1>1. Stays
  BY QuietStays
<1>2. /\ LoopRestarts \/ LoopStays \/ LoopEnters
      /\ hash' = hash \/ hash' = ResetEdgeHashes
      /\ phase' # "refining" => phase # "refining" \/ history = << >>
  BY <1>0, QuietLoop
<1>3. history = << >> \/ Last(history) \in Memento
  BY <1>0, Pop DEF ClientTyped
<1>4. \A m \in Memento : LastSingle(m) \in Nat /\ LastParallel(m) \in Nat
  BY DEF Memento, LastSingle, LastParallel
<1>5. ClientTyped'
  <2>1. hash' \in [Hyperedge -> [Hypernode -> Int]]
    BY <1>0, <1>2, HashTyped DEF ClientTyped
  <2>2. pc' \in {"idle", "parallel", "single", "search"}
    BY <1>0, <1>2 DEF LoopRestarts, LoopStays, LoopEnters, ClientTyped
  <2>3. cursor' \in Nat
    <3>1. CASE LoopEnters
      <4>1. Last(history) \in Memento
        BY <1>3, <3>1 DEF LoopEnters
      <4> QED BY <1>4, <3>1, <4>1 DEF LoopEnters
    <3>2. CASE LoopStays
      BY <1>0, <3>2 DEF LoopStays, ClientTyped
    <3>3. CASE LoopRestarts
      BY <1>0, <1>1, <3>3 DEF LoopRestarts, ClientTyped, Stays
    <3> QED BY <1>2, <3>1, <3>2, <3>3
  <2> QED BY <1>0, <1>1, <2>1, <2>2, <2>3 DEF Stays, ClientTyped
<1>6. StackKept'
  BY <1>0, <1>1 DEF Stays, StackKept
<1>7. LoopKept'
  <2> QED BY <1>0, <1>1, <1>2 DEF LoopKept, Stays, LoopRestarts, LoopStays, LoopEnters
<1>8. SinglesFirst'
  BY <1>0, <1>1, <1>2 DEF SinglesFirst, Stays, SingleNets
<1> QED BY <1>5, <1>6, <1>7, <1>8 DEF CoreKept


\* Of a level only the number of its removals changes.
LEMMA CountOne ==
  ASSUME NEW m \in Memento,
         NEW m2, m2 = [m EXCEPT !.singleSize = @ + 1] \/ m2 = [m EXCEPT !.parallelSize = @ + 1]
  PROVE  /\ m2 \in Memento /\ SameLevel(m, m2)
         /\ m2 = [m EXCEPT !.singleSize = @ + 1] =>
              LastSingle(m2) = LastSingle(m) + 1 /\ LastParallel(m2) = LastParallel(m)
         /\ m2 = [m EXCEPT !.parallelSize = @ + 1] =>
              LastSingle(m2) = LastSingle(m) /\ LastParallel(m2) = LastParallel(m) + 1
BY DEF Memento, SameLevel, LastSingle, LastParallel

\* The history after a removal.
LEMMA CountLast ==
  ASSUME NEW h \in Seq(Memento), h # << >>, NEW m2 \in Memento, SameLevel(h[Len(h)], m2)
  PROVE  LET h2 == [h EXCEPT ![Len(h)] = m2]
         IN  /\ h2 \in Seq(Memento) /\ Len(h2) = Len(h) /\ h2 # << >> /\ Last(h2) = m2
             /\ \A i \in 1 .. Len(h) - 1 : h2[i] = h[i]
             /\ SameLevels(h, h2)
<1> DEFINE h2 == [h EXCEPT ![Len(h)] = m2]
<1>1. /\ h2 \in Seq(Memento) /\ Len(h2) = Len(h) /\ h2 # << >> /\ Last(h2) = m2
      /\ h2[Len(h)] = m2
      /\ \A i \in 1 .. Len(h) - 1 : h2[i] = h[i]
  BY ChangeLast
<1>2. Len(h) \in Nat
  BY LenProperties
<1> HIDE DEF h2
<1>3. ASSUME NEW i \in 1 .. Len(h) PROVE SameLevel(h[i], h2[i])
  <2>1. CASE i = Len(h)
    BY <1>1, <2>1
  <2>2. CASE i # Len(h)
    <3>1. i \in 1 .. Len(h) - 1
      BY <1>2, <2>2
    <3> QED BY <1>1, <3>1 DEF SameLevel
  <2> QED BY <2>1, <2>2
<1>4. QED
  BY <1>1, <1>3 DEF h2, SameLevels

\* The loop invariants on the levels below the last one do not see a removal.
LEMMA LowerLoops ==
  ASSUME NEW h, NEW s, NEW p, NEW h2, NEW s2, NEW p2, Len(h) \in Nat, Len(h2) = Len(h),
         Agree(h2, h, Len(h) - 1), SameLevels(h, h2),
         LoopsBelow(h, s, p)
  PROVE  LoopsBelow(h2, s2, p2)
<1> SUFFICES ASSUME NEW i \in 1 .. Len(h) - 1
             PROVE  LastSingle(h2[i]) = SinglesEnd(h2, s2, i) /\ LastParallel(h2[i]) = ParallelsEnd(h2, p2, i)
  BY DEF LoopsBelow
<1>1. i + 1 \in 1 .. Len(h) /\ i # Len(h)
  OBVIOUS
<1>2. SameLevel(h[i + 1], h2[i + 1]) /\ h2[i] = h[i]
  BY <1>1 DEF Agree, SameLevels
<1>3. SinglesEnd(h2, s2, i) = SinglesEnd(h, s, i) /\ ParallelsEnd(h2, p2, i) = ParallelsEnd(h, p, i)
  BY <1>1, <1>2 DEF SinglesEnd, ParallelsEnd, SameLevel
<1> QED BY <1>2, <1>3 DEF LoopsBelow
-----------------------------------------------------------------------------
\* The second part of the invariant: which nets are removed, and why.
LEMMA AccountSingle ==
  ASSUME NEW E \in SUBSET Hyperedge, NEW s \in Seq(Hyperedge), NEW p \in Seq(ParallelHE), Accounted(E, s, p),
         NEW e \in E
  PROVE  Accounted(E \ {e}, Append(s, e), p)
<1> DEFINE s2 == Append(s, e)
           n == Len(s)
<1>1. /\ n \in Nat /\ Len(s2) = n + 1 /\ s2[n + 1] = e /\ \A k \in 1 .. n : s2[k] = s[k]
  BY Push, LenProperties
<1> HIDE DEF s2
<1>2. \A k \in 1 .. n : s[k] # e
  BY DEF Accounted
<1>3. \A q \in 1 .. Len(p) : p[q].removed # e
  BY DEF Accounted
<1>4. {s2[k] : k \in 1 .. n + 1} = {s[k] : k \in 1 .. n} \cup {e}
  <2>1. \A k \in 1 .. n + 1 : k = n + 1 \/ k \in 1 .. n
    BY <1>1
  <2>2. \A k \in 1 .. n : k \in 1 .. n + 1
    BY <1>1
  <2>3. n + 1 \in 1 .. n + 1
    BY <1>1
  <2> QED BY <1>1, <2>1, <2>2, <2>3
<1>5. E \ {e} = Hyperedge \ ({s2[k] : k \in 1 .. Len(s2)} \cup {p[q].removed : q \in 1 .. Len(p)})
  BY <1>1, <1>4 DEF Accounted
<1>6. \A j, k \in 1 .. Len(s2) : s2[j] = s2[k] => j = k
  <2> SUFFICES ASSUME NEW j \in 1 .. n + 1, NEW k \in 1 .. n + 1, s2[j] = s2[k] PROVE j = k
    BY <1>1
  <2>1. (j = n + 1 \/ j \in 1 .. n) /\ (k = n + 1 \/ k \in 1 .. n)
    BY <1>1
  <2>2. j \in 1 .. n /\ k \in 1 .. n => j = k
    BY <1>1 DEF Accounted
  <2> QED BY <1>1, <1>2, <2>1, <2>2
<1>7. \A k \in 1 .. Len(s2), q \in 1 .. Len(p) : s2[k] # p[q].removed
  <2> SUFFICES ASSUME NEW k \in 1 .. n + 1, NEW q \in 1 .. Len(p) PROVE s2[k] # p[q].removed
    BY <1>1
  <2>1. k = n + 1 \/ k \in 1 .. n
    BY <1>1
  <2>2. k \in 1 .. n => s[k] # p[q].removed
    BY DEF Accounted
  <2> QED BY <1>1, <1>3, <2>1, <2>2
<1>8. /\ \A q, r \in 1 .. Len(p) : p[q].removed = p[r].removed => q = r
      /\ \A q, r \in 1 .. Len(p) : r <= q => p[q].representative # p[r].removed
  BY DEF Accounted
<1>9. Accounted(E \ {e}, s2, p)
  BY <1>5, <1>6, <1>7, <1>8 DEF Accounted
<1> QED BY <1>9 DEF s2

\* A net leaves the enabled ones for the vector of parallel nets, the net that
\* absorbs it stays.
LEMMA AccountParallel ==
  ASSUME NEW E \in SUBSET Hyperedge, NEW s \in Seq(Hyperedge), NEW p \in Seq(ParallelHE), Accounted(E, s, p),
         NEW pair \in ParallelHE, NEW rep \in E, NEW e \in E \ {rep},
         pair.representative = rep, pair.removed = e
  PROVE  Accounted(E \ {e}, s, Append(p, pair))
<1> DEFINE p2 == Append(p, pair)
           n == Len(p)
<1>1. /\ n \in Nat /\ Len(p2) = n + 1 /\ p2[n + 1] = pair /\ \A k \in 1 .. n : p2[k] = p[k]
  BY Push, LenProperties
<1> HIDE DEF p2
<1>2. \A k \in 1 .. n : p[k].removed # e /\ p[k].removed # rep
  BY DEF Accounted
<1>3. \A k \in 1 .. Len(s) : s[k] # e
  BY DEF Accounted
<1>4. {p2[k].removed : k \in 1 .. n + 1} = {p[k].removed : k \in 1 .. n} \cup {e}
  <2>1. \A k \in 1 .. n + 1 : k = n + 1 \/ k \in 1 .. n
    BY <1>1
  <2>2. \A k \in 1 .. n : k \in 1 .. n + 1
    BY <1>1
  <2>3. n + 1 \in 1 .. n + 1
    BY <1>1
  <2> QED BY <1>1, <2>1, <2>2, <2>3
<1>5. E \ {e} = Hyperedge \ ({s[k] : k \in 1 .. Len(s)} \cup {p2[q].removed : q \in 1 .. Len(p2)})
  BY <1>1, <1>4 DEF Accounted
<1>6. \A j, k \in 1 .. Len(p2) : p2[j].removed = p2[k].removed => j = k
  <2> SUFFICES ASSUME NEW j \in 1 .. n + 1, NEW k \in 1 .. n + 1, p2[j].removed = p2[k].removed PROVE j = k
    BY <1>1
  <2>1. (j = n + 1 \/ j \in 1 .. n) /\ (k = n + 1 \/ k \in 1 .. n)
    BY <1>1
  <2>2. j \in 1 .. n /\ k \in 1 .. n => j = k
    BY <1>1 DEF Accounted
  <2> QED BY <1>1, <1>2, <2>1, <2>2
<1>7. \A k \in 1 .. Len(s), q \in 1 .. Len(p2) : s[k] # p2[q].removed
  <2> SUFFICES ASSUME NEW k \in 1 .. Len(s), NEW q \in 1 .. n + 1 PROVE s[k] # p2[q].removed
    BY <1>1
  <2>1. q = n + 1 \/ q \in 1 .. n
    BY <1>1
  <2>2. q \in 1 .. n => s[k] # p[q].removed
    BY DEF Accounted
  <2> QED BY <1>1, <1>3, <2>1, <2>2
<1>8. \A q, r \in 1 .. Len(p2) : r <= q => p2[q].representative # p2[r].removed
  <2> SUFFICES ASSUME NEW q \in 1 .. n + 1, NEW r \in 1 .. n + 1, r <= q
               PROVE  p2[q].representative # p2[r].removed
    BY <1>1
  <2>1. CASE q = n + 1
    <3>1. r = n + 1 \/ r \in 1 .. n
      BY <1>1
    <3> QED BY <1>1, <1>2, <2>1, <3>1
  <2>2. CASE q # n + 1
    <3>1. q \in 1 .. n /\ r \in 1 .. n
      BY <1>1, <2>2
    <3> QED BY <1>1, <3>1 DEF Accounted
  <2> QED BY <2>1, <2>2
<1>9. \A j, k \in 1 .. Len(s) : s[j] = s[k] => j = k
  BY DEF Accounted
<1>10. Accounted(E \ {e}, s, p2)
  BY <1>5, <1>6, <1>7, <1>8, <1>9 DEF Accounted
<1> QED BY <1>10 DEF p2

\* The last single-pin net is enabled again.
LEMMA UnaccountSingle ==
  ASSUME NEW E \in SUBSET Hyperedge, NEW s \in Seq(Hyperedge), NEW p \in Seq(ParallelHE), Accounted(E, s, p),
         s # << >>
  PROVE  /\ Accounted(E \cup {Last(s)}, Front(s), p)
         /\ \A k \in 1 .. Len(Front(s)) : Front(s)[k] # Last(s)
         /\ \A q \in 1 .. Len(p) : p[q].removed # Last(s)
<1> DEFINE s2 == Front(s)
           n == Len(s)
           e == Last(s)
<1>1. /\ n \in Nat \ {0} /\ Len(s2) = n - 1 /\ \A k \in 1 .. n - 1 : s2[k] = s[k]
      /\ e = s[n] /\ e \in Hyperedge
  BY Pop
<1> HIDE DEF s2, e
<1>2. n \in 1 .. n /\ \A k \in 1 .. n - 1 : k \in 1 .. n /\ k # n
  BY <1>1
<1>3. (\A k \in 1 .. n - 1 : s2[k] # e) /\ (\A q \in 1 .. Len(p) : p[q].removed # e)
  BY <1>1, <1>2 DEF Accounted
<1>4. {s[k] : k \in 1 .. n} = {s2[k] : k \in 1 .. n - 1} \cup {e}
  <2>1. \A k \in 1 .. n : k = n \/ k \in 1 .. n - 1
    BY <1>1
  <2> QED BY <1>1, <1>2, <2>1
<1>5. E \cup {e} = Hyperedge \ ({s2[k] : k \in 1 .. Len(s2)} \cup {p[q].removed : q \in 1 .. Len(p)})
  <2>1. e \notin {s2[k] : k \in 1 .. n - 1} /\ e \notin {p[q].removed : q \in 1 .. Len(p)}
    BY <1>3
  <2>2. E = Hyperedge \ ({s[k] : k \in 1 .. n} \cup {p[q].removed : q \in 1 .. Len(p)})
    BY DEF Accounted
  <2> QED BY <1>1, <1>4, <2>1, <2>2
<1>6. /\ \A j, k \in 1 .. n - 1 : s2[j] = s2[k] => j = k
      /\ \A k \in 1 .. n - 1, q \in 1 .. Len(p) : s2[k] # p[q].removed
  BY <1>1, <1>2 DEF Accounted
<1>7. /\ \A q, r \in 1 .. Len(p) : p[q].removed = p[r].removed => q = r
      /\ \A q, r \in 1 .. Len(p) : r <= q => p[q].representative # p[r].removed
  BY DEF Accounted
<1>8. Accounted(E \cup {e}, s2, p)
  BY <1>1, <1>5, <1>6, <1>7 DEF Accounted
<1> QED BY <1>1, <1>3, <1>8 DEF s2, e

\* The last parallel net is enabled again.
LEMMA UnaccountParallel ==
  ASSUME NEW E \in SUBSET Hyperedge, NEW s \in Seq(Hyperedge), NEW p \in Seq(ParallelHE), Accounted(E, s, p),
         p # << >>
  PROVE  /\ Accounted(E \cup {Last(p).removed}, s, Front(p))
         /\ \A k \in 1 .. Len(s) : s[k] # Last(p).removed
         /\ \A q \in 1 .. Len(Front(p)) : Front(p)[q].removed # Last(p).removed
<1> DEFINE p2 == Front(p)
           n == Len(p)
           e == Last(p).removed
<1>1. /\ n \in Nat \ {0} /\ Len(p2) = n - 1 /\ \A k \in 1 .. n - 1 : p2[k] = p[k]
      /\ e = p[n].removed /\ p[n] \in ParallelHE
  BY Pop
<1>0. e \in Hyperedge
  BY <1>1 DEF ParallelHE
<1> HIDE DEF p2, e
<1>2. n \in 1 .. n /\ \A k \in 1 .. n - 1 : k \in 1 .. n /\ k # n
  BY <1>1
<1>3. (\A k \in 1 .. n - 1 : p2[k].removed # e) /\ (\A k \in 1 .. Len(s) : s[k] # e)
  BY <1>1, <1>2 DEF Accounted
<1>4. {p[k].removed : k \in 1 .. n} = {p2[k].removed : k \in 1 .. n - 1} \cup {e}
  <2>1. \A k \in 1 .. n : k = n \/ k \in 1 .. n - 1
    BY <1>1
  <2> QED BY <1>1, <1>2, <2>1
<1>5. E \cup {e} = Hyperedge \ ({s[k] : k \in 1 .. Len(s)} \cup {p2[q].removed : q \in 1 .. Len(p2)})
  <2>1. e \notin {p2[k].removed : k \in 1 .. n - 1} /\ e \notin {s[k] : k \in 1 .. Len(s)}
    BY <1>3
  <2>2. E = Hyperedge \ ({s[k] : k \in 1 .. Len(s)} \cup {p[q].removed : q \in 1 .. n})
    BY DEF Accounted
  <2> QED BY <1>0, <1>1, <1>4, <2>1, <2>2
<1>6. /\ \A j, k \in 1 .. n - 1 : p2[j].removed = p2[k].removed => j = k
      /\ \A k \in 1 .. Len(s), q \in 1 .. n - 1 : s[k] # p2[q].removed
      /\ \A q, r \in 1 .. n - 1 : r <= q => p2[q].representative # p2[r].removed
  <2>1. \A k \in 1 .. n - 1 : p2[k] = p[k] /\ k \in 1 .. Len(p)
    BY <1>1, <1>2
  <2>2. ASSUME NEW j \in 1 .. n - 1, NEW k \in 1 .. n - 1, p2[j].removed = p2[k].removed PROVE j = k
    BY <2>1, <2>2 DEF Accounted
  <2>3. ASSUME NEW k \in 1 .. Len(s), NEW q \in 1 .. n - 1 PROVE s[k] # p2[q].removed
    BY <2>1 DEF Accounted
  <2>4. ASSUME NEW q \in 1 .. n - 1, NEW r \in 1 .. n - 1, r <= q
        PROVE  p2[q].representative # p2[r].removed
    BY <2>1, <2>4 DEF Accounted
  <2> QED BY <2>2, <2>3, <2>4
<1>7. \A j, k \in 1 .. Len(s) : s[j] = s[k] => j = k
  BY DEF Accounted
<1>8. Accounted(E \cup {e}, s, p2)
  BY <1>1, <1>5, <1>6, <1>7 DEF Accounted
<1> QED BY <1>1, <1>3, <1>8 DEF p2, e


\* Why nets were removed is remembered by the log.
LEMMA LogGrows ==
  ASSUME NEW L, NEW l \in Seq(L), NEW s, NEW p, Logged(l, s, p), NEW x \in L
  PROVE  Logged(Append(l, x), s, p)
<1>1. /\ Len(l) \in Nat /\ Len(Append(l, x)) = Len(l) + 1
      /\ \A j \in 1 .. Len(l) : Append(l, x)[j] = l[j]
  BY Push, LenProperties
<1>2. \A j \in 1 .. Len(l) : j \in 1 .. Len(l) + 1
  BY <1>1
<1> QED BY <1>1, <1>2 DEF Logged

\* The removal of a single-pin net is logged.
LEMMA LogSingle ==
  ASSUME NEW L, NEW l \in Seq(L), NEW s \in Seq(Hyperedge), NEW p, Logged(l, s, p),
         NEW x \in L, NEW e \in Hyperedge, SingleLogged(x, e)
  PROVE  Logged(Append(l, x), Append(s, e), p)
<1> DEFINE l2 == Append(l, x)
           s2 == Append(s, e)
<1>1. Logged(l2, s, p)
  BY LogGrows
<1>2. Len(l) \in Nat /\ Len(l2) = Len(l) + 1 /\ l2[Len(l) + 1] = x
  BY Push, LenProperties
<1>3. Len(s) \in Nat /\ Len(s2) = Len(s) + 1 /\ s2[Len(s) + 1] = e /\ \A k \in 1 .. Len(s) : s2[k] = s[k]
  BY Push, LenProperties
<1> HIDE DEF l2, s2
<1>4. ASSUME NEW k \in 1 .. Len(s) + 1 PROVE \E j \in 1 .. Len(l2) : SingleLogged(l2[j], s2[k])
  <2>1. CASE k = Len(s) + 1
    <3>1. Len(l) + 1 \in 1 .. Len(l2)
      BY <1>2
    <3> QED BY <1>2, <1>3, <2>1, <3>1
  <2>2. CASE k # Len(s) + 1
    <3>1. k \in 1 .. Len(s)
      BY <1>3, <2>2
    <3> QED BY <1>1, <1>3, <3>1 DEF Logged
  <2> QED BY <2>1, <2>2
<1>5. Logged(l2, s2, p)
  BY <1>1, <1>3, <1>4 DEF Logged
<1> QED BY <1>5 DEF l2, s2

\* The removal of a parallel net is logged.
LEMMA LogParallel ==
  ASSUME NEW L, NEW l \in Seq(L), NEW s, NEW p \in Seq(ParallelHE), Logged(l, s, p),
         NEW x \in L, NEW pair \in ParallelHE, ParallelLogged(x, pair)
  PROVE  Logged(Append(l, x), s, Append(p, pair))
<1> DEFINE l2 == Append(l, x)
           p2 == Append(p, pair)
<1>1. Logged(l2, s, p)
  BY LogGrows
<1>2. Len(l) \in Nat /\ Len(l2) = Len(l) + 1 /\ l2[Len(l) + 1] = x
  BY Push, LenProperties
<1>3. Len(p) \in Nat /\ Len(p2) = Len(p) + 1 /\ p2[Len(p) + 1] = pair /\ \A k \in 1 .. Len(p) : p2[k] = p[k]
  BY Push, LenProperties
<1> HIDE DEF l2, p2
<1>4. ASSUME NEW k \in 1 .. Len(p) + 1 PROVE \E j \in 1 .. Len(l2) : ParallelLogged(l2[j], p2[k])
  <2>1. CASE k = Len(p) + 1
    <3>1. Len(l) + 1 \in 1 .. Len(l2)
      BY <1>2
    <3> QED BY <1>2, <1>3, <2>1, <3>1
  <2>2. CASE k # Len(p) + 1
    <3>1. k \in 1 .. Len(p)
      BY <1>3, <2>2
    <3> QED BY <1>1, <1>3, <3>1 DEF Logged
  <2> QED BY <2>1, <2>2
<1>5. Logged(l2, s, p2)
  BY <1>1, <1>3, <1>4 DEF Logged
<1> QED BY <1>5 DEF l2, p2

\* Undoing an operation forgets nothing about the nets it does not restore.
LEMMA LogShrinks ==
  ASSUME NEW L, NEW l \in Seq(L), l # << >>, NEW s, NEW p, NEW s2, NEW p2, Logged(l, s, p),
         \A k \in 1 .. Len(s2) : k \in 1 .. Len(s) /\ s2[k] = s[k] /\ ~ RemovedAs(Last(l), s2[k]),
         \A q \in 1 .. Len(p2) : q \in 1 .. Len(p) /\ p2[q] = p[q] /\ ~ RemovedAs(Last(l), p2[q].removed)
  PROVE  Logged(Front(l), s2, p2)
<1> DEFINE l2 == Front(l)
           n == Len(l)
<1>1. /\ n \in Nat \ {0} /\ Len(l2) = n - 1 /\ \A j \in 1 .. n - 1 : l2[j] = l[j]
      /\ Last(l) = l[n]
  BY Pop
<1> HIDE DEF l2
<1>2. \A j \in 1 .. n : j = n \/ j \in 1 .. n - 1
  BY <1>1
<1>3. ASSUME NEW k \in 1 .. Len(s2) PROVE \E j \in 1 .. n - 1 : SingleLogged(l2[j], s2[k])
  <2>1. k \in 1 .. Len(s) /\ s2[k] = s[k] /\ ~ RemovedAs(Last(l), s2[k])
    OBVIOUS
  <2>2. PICK j \in 1 .. n : SingleLogged(l[j], s[k])
    BY <2>1 DEF Logged
  <2>3. j # n
    BY <1>1, <2>1, <2>2 DEF SingleLogged
  <2> QED BY <1>1, <1>2, <2>1, <2>2, <2>3
<1>4. ASSUME NEW q \in 1 .. Len(p2) PROVE \E j \in 1 .. n - 1 : ParallelLogged(l2[j], p2[q])
  <2>1. q \in 1 .. Len(p) /\ p2[q] = p[q] /\ ~ RemovedAs(Last(l), p2[q].removed)
    OBVIOUS
  <2>2. PICK j \in 1 .. n : ParallelLogged(l[j], p[q])
    BY <2>1 DEF Logged
  <2>3. j # n
    BY <1>1, <2>1, <2>2 DEF ParallelLogged
  <2> QED BY <1>1, <1>2, <2>1, <2>2, <2>3
<1>5. Logged(l2, s2, p2)
  BY <1>1, <1>3, <1>4 DEF Logged
<1> QED BY <1>5 DEF l2
-----------------------------------------------------------------------------
\* The levels, and the bounds on the weights of their hypernodes.

\* An operation that leaves no more hypernodes is logged.
LEMMA ShrinkPush ==
  ASSUME NEW L, NEW l \in Seq(L), NEW s, Shrinking(l, s), NEW x \in L, x.before = s,
         NEW t, t.weight \in [Hypernode -> Nat], t.nodes \subseteq s.nodes
  PROVE  Shrinking(Append(l, x), t)
<1> DEFINE l2 == Append(l, x)
           n == Len(l)
<1>1. n \in Nat /\ Len(l2) = n + 1 /\ l2[n + 1] = x /\ \A j \in 1 .. n : l2[j] = l[j]
  BY Push, LenProperties
<1> HIDE DEF l2, n
<1>2. /\ s.weight \in [Hypernode -> Nat]
      /\ \A j \in 1 .. n : l[j].before.weight \in [Hypernode -> Nat]
      /\ \A j \in 1 .. n : s.nodes \subseteq l[j].before.nodes
      /\ \A i, j \in 1 .. n : i <= j => l[j].before.nodes \subseteq l[i].before.nodes
  BY DEF Shrinking, n
<1>3. \A j \in 1 .. n + 1 : j = n + 1 \/ j \in 1 .. n
  BY <1>1
<1>4. \A j \in 1 .. n + 1 : l2[j].before.weight \in [Hypernode -> Nat] /\ s.nodes \subseteq l2[j].before.nodes
  BY <1>1, <1>2, <1>3
<1>5. \A j \in 1 .. n + 1 : t.nodes \subseteq l2[j].before.nodes
  BY <1>4
<1>6. ASSUME NEW i \in 1 .. n + 1, NEW j \in 1 .. n + 1, i <= j
      PROVE  l2[j].before.nodes \subseteq l2[i].before.nodes
  <2>1. CASE j = n + 1
    BY <1>1, <1>4, <2>1
  <2>2. CASE j # n + 1
    <3>1. i \in 1 .. n /\ j \in 1 .. n
      BY <1>1, <1>6, <2>2
    <3> QED BY <1>1, <1>2, <1>6, <3>1
  <2> QED BY <2>1, <2>2
<1>7. Shrinking(l2, t)
  BY <1>1, <1>4, <1>5, <1>6 DEF Shrinking
<1> QED BY <1>7 DEF l2

\* The last operation is undone.
LEMMA ShrinkPop ==
  ASSUME NEW L, NEW l \in Seq(L), l # << >>, NEW s, Shrinking(l, s)
  PROVE  /\ Shrinking(Front(l), Last(l).before)
         /\ \A j \in 1 .. Len(Front(l)) : j \in 1 .. Len(l) /\ Front(l)[j] = l[j]
         /\ \A j \in 1 .. Len(Front(l)) : Last(l).before.nodes \subseteq Front(l)[j].before.nodes
         /\ Len(l) \in 1 .. Len(l) /\ Last(l) = l[Len(l)]
<1> DEFINE l2 == Front(l)
           n == Len(l)
<1>1. /\ n \in Nat \ {0} /\ Len(l2) = n - 1 /\ \A j \in 1 .. n - 1 : l2[j] = l[j]
      /\ Last(l) = l[n]
  BY Pop
<1> HIDE DEF l2
<1>2. n \in 1 .. n /\ \A j \in 1 .. n - 1 : j \in 1 .. n /\ j <= n
  BY <1>1
<1>3. /\ \A j \in 1 .. n : l[j].before.weight \in [Hypernode -> Nat]
      /\ \A i, j \in 1 .. n : i <= j => l[j].before.nodes \subseteq l[i].before.nodes
  BY DEF Shrinking
<1>4. \A j \in 1 .. n - 1 : l[n].before.nodes \subseteq l2[j].before.nodes
  BY <1>1, <1>2, <1>3
<1>5. Shrinking(l2, l[n].before)
  BY <1>1, <1>2, <1>3, <1>4 DEF Shrinking
<1> QED BY <1>1, <1>2, <1>4, <1>5 DEF l2

\* More bounds bound more.
LEMMA BoundedMore ==
  ASSUME NEW b \in Seq(MaxWeight), NEW s, Bounded(b, s), NEW x \in MaxWeight
  PROVE  Bounded(Append(b, x), s)
<1>1. Len(b) \in Nat /\ Len(Append(b, x)) = Len(b) + 1 /\ \A k \in 1 .. Len(b) : Append(b, x)[k] = b[k]
  BY Push, LenProperties
<1>2. \A k \in 1 .. Len(b) : k \in 1 .. Len(b) + 1
  BY <1>1
<1> QED BY <1>1, <1>2 DEF Bounded

\* A bound for fewer hypernodes than the level has is none for its hypernodes.
LEMMA BoundedLess ==
  ASSUME NEW b \in Seq(MaxWeight), b # << >>, NEW s, Bounded(b, s), Cardinality(s.nodes) \in Nat,
         Last(b).numNodes < Cardinality(s.nodes)
  PROVE  Bounded(Front(b), s)
<1>1. /\ Len(b) \in Nat \ {0} /\ Len(Front(b)) = Len(b) - 1 /\ Last(b) = b[Len(b)]
      /\ \A k \in 1 .. Len(b) - 1 : Front(b)[k] = b[k]
  BY Pop
<1>2. \A k \in 1 .. Len(b) : b[k].numNodes \in Nat
  <2>1. \A k \in 1 .. Len(b) : b[k] \in MaxWeight
    BY ElementOfSeq
  <2> QED BY <2>1 DEF MaxWeight
<1>3. ASSUME NEW v \in s.nodes
      PROVE  \E k \in 1 .. Len(b) - 1 : s.weight[v] <= Front(b)[k].weight /\ Cardinality(s.nodes) <= Front(b)[k].numNodes
  <2>1. PICK k \in 1 .. Len(b) : s.weight[v] <= b[k].weight /\ Cardinality(s.nodes) <= b[k].numNodes
    BY DEF Bounded
  <2>2. k # Len(b)
    BY <1>1, <1>2, <2>1
  <2>3. k \in 1 .. Len(b) - 1
    BY <1>1, <2>2
  <2> QED BY <1>1, <2>1, <2>3
<1> QED BY <1>1, <1>3 DEF Bounded


\* The bounds are numbers.
LEMMA BoundFields ==
  ASSUME NEW b \in Seq(MaxWeight)
  PROVE  /\ Len(b) \in Nat
         /\ \A k \in 1 .. Len(b) : b[k] \in MaxWeight /\ b[k].numNodes \in Nat /\ b[k].weight \in Nat
<1>1. \A k \in 1 .. Len(b) : b[k] \in MaxWeight
  BY ElementOfSeq
<1> QED BY <1>1, LenProperties DEF MaxWeight

\* A representative of weight w at a level of n hypernodes: the bounds with what
\* is recorded of it.
Raised(b, n, w) == IF w > Last(b).weight THEN Append(b, [numNodes |-> n, weight |-> w]) ELSE b

\* Bounds b2 serve for all that b serves for, and for weight w at a level of n.
RaisedWell(b, b2, n, w) ==
  /\ b2 \in Seq(MaxWeight) /\ b2 # << >> /\ Ordered(b2) /\ Timely(b2, n, TRUE)
  /\ \A s : Bounded(b, s) => Bounded(b2, s)
  /\ \E k \in 1 .. Len(b2) : w <= b2[k].weight /\ n <= b2[k].numNodes
  /\ \A k \in 1 .. Len(b) : k \in 1 .. Len(b2) /\ b2[k] = b[k]

\* What is recorded of a representative is enough.
LEMMA BoundsRaised ==
  ASSUME NEW b \in Seq(MaxWeight), b # << >>, Ordered(b), NEW N \in Nat \ {0}, Timely(b, N, TRUE),
         NEW w \in Nat, Cardinality(Hypernode) \in Nat,
         NEW b2, b2 = Raised(b, N - 1, w)
  PROVE  RaisedWell(b, b2, N - 1, w)
<1> DEFINE n == Len(b)
           x == [numNodes |-> N - 1, weight |-> w]
<1>1. /\ n \in Nat \ {0} /\ n \in 1 .. n /\ Last(b) = b[n]
      /\ \A k \in 1 .. n : b[k].numNodes \in Nat /\ b[k].weight \in Nat
  BY BoundFields, EmptySeq DEF Last
<1>2. N - 1 \in Nat /\ x \in MaxWeight /\ x.numNodes = N - 1 /\ x.weight = w
  BY DEF MaxWeight
<1>3. /\ \A j, k \in 1 .. n : j < k =>
           /\ b[j].weight <= b[k].weight /\ b[k].numNodes <= b[j].numNodes
           /\ b[k].numNodes < Few => b[k].numNodes < b[j].numNodes
      /\ \A k \in 1 .. n : b[k].numNodes >= N - 1 /\ (N <= Few => b[k].numNodes >= N)
  BY DEF Ordered, Timely
<1>4. Few \in Int
  BY DEF Few
<1> HIDE DEF n, x
<1>5. CASE w > Last(b).weight
  <2>1. b2 = Append(b, x)
    BY <1>5 DEF x, Raised
  <2>2. /\ Append(b, x) \in Seq(MaxWeight) /\ Len(Append(b, x)) = n + 1 /\ Append(b, x)[n + 1] = x
        /\ \A k \in 1 .. n : Append(b, x)[k] = b[k]
        /\ Append(b, x) # << >>
    BY <1>2, Push DEF n
  <2>3. /\ b2 \in Seq(MaxWeight) /\ Len(b2) = n + 1 /\ b2[n + 1] = x /\ b2 # << >>
        /\ \A k \in 1 .. n : b2[k] = b[k]
    BY <2>1, <2>2
  <2>4. ASSUME NEW k \in 1 .. n PROVE b[k].weight <= w
    <3>1. k = n \/ k < n
      BY <1>1
    <3>2. b[k].weight = b[n].weight \/ b[k].weight <= b[n].weight
      BY <1>1, <1>3, <3>1
    <3>3. b[k].weight \in Nat /\ b[n].weight \in Nat /\ w > b[n].weight
      BY <1>1, <1>5
    <3> QED BY <3>2, <3>3
  <2>5. Ordered(b2)
    <3> SUFFICES ASSUME NEW j \in 1 .. n + 1, NEW k \in 1 .. n + 1, j < k
                 PROVE  /\ b2[j].weight <= b2[k].weight /\ b2[k].numNodes <= b2[j].numNodes
                        /\ b2[k].numNodes < Few => b2[k].numNodes < b2[j].numNodes
      BY <2>3 DEF Ordered
    <3>1. j \in 1 .. n
      BY <1>1
    <3>2. CASE k = n + 1
      <4>1. b2[k] = x /\ b2[j] = b[j]
        BY <2>3, <3>1, <3>2
      <4>2. b[j].numNodes \in Nat /\ b[j].numNodes >= N - 1 /\ (N <= Few => b[j].numNodes >= N) /\ b[j].weight <= w
        BY <1>1, <1>3, <2>4, <3>1
      <4>3. b2[k].weight = w /\ b2[k].numNodes = N - 1 /\ b2[j].weight = b[j].weight /\ b2[j].numNodes = b[j].numNodes
        BY <1>2, <4>1
      <4>4. N - 1 < Few => N <= Few
        BY <1>4
      <4>5. N - 1 <= b[j].numNodes /\ (N - 1 < Few => N - 1 < b[j].numNodes)
        BY <4>2, <4>4
      <4> QED BY <4>2, <4>3, <4>5
    <3>3. CASE k # n + 1
      <4>1. k \in 1 .. n
        BY <1>1, <3>3
      <4> QED BY <1>3, <2>3, <3>1, <4>1
    <3> QED BY <3>2, <3>3
  <2>6. Timely(b2, N - 1, TRUE)
    <3> SUFFICES ASSUME NEW k \in 1 .. n + 1 PROVE b2[k].numNodes >= N - 1 /\ b2[k].numNodes >= N - 1 - 1
      BY <2>3 DEF Timely
    <3>1. CASE k = n + 1
      BY <1>2, <2>3, <3>1
    <3>2. CASE k # n + 1
      <4>1. k \in 1 .. n
        BY <1>1, <3>2
      <4>2. b2[k] = b[k] /\ b[k].numNodes \in Nat /\ b[k].numNodes >= N - 1
        BY <1>1, <1>3, <2>3, <4>1
      <4>3. b[k].numNodes >= N - 1 /\ b[k].numNodes >= N - 1 - 1
        BY <4>2
      <4> QED BY <4>2, <4>3
    <3> QED BY <3>1, <3>2
  <2>7. \A s : Bounded(b, s) => Bounded(b2, s)
    BY <1>2, <2>1, BoundedMore
  <2>8. \A k \in 1 .. n : k \in 1 .. n + 1
    BY <1>1
  <2>9. n + 1 \in 1 .. n + 1 /\ w <= b2[n + 1].weight /\ N - 1 <= b2[n + 1].numNodes
    BY <1>1, <1>2, <2>3
  <2> QED BY <2>3, <2>5, <2>6, <2>7, <2>8, <2>9 DEF n, RaisedWell
<1>6. CASE ~ (w > Last(b).weight)
  <2>1. b2 = b
    BY <1>6 DEF Raised
  <2>2. Timely(b2, N - 1, TRUE)
    <3> SUFFICES ASSUME NEW k \in 1 .. n PROVE b[k].numNodes >= N - 1 /\ b[k].numNodes >= N - 1 - 1
      BY <2>1 DEF Timely, n
    <3>1. b[k].numNodes \in Nat /\ b[k].numNodes >= N - 1
      BY <1>1, <1>3
    <3> QED BY <1>2, <3>1
  <2>3. w <= b[n].weight /\ N - 1 <= b[n].numNodes
    BY <1>1, <1>3, <1>6
  <2> QED BY <1>1, <2>1, <2>2, <2>3 DEF n, RaisedWell
<1> QED BY <1>5, <1>6

\* A level of N hypernodes is undone and the last bound is not popped.
LEMMA BoundsStay ==
  ASSUME NEW b \in Seq(MaxWeight), b # << >>, Ordered(b), NEW N \in Nat, ~ (N > Last(b).numNodes)
  PROVE  Timely(b, N + 1, FALSE)
<1> DEFINE n == Len(b)
<1>1. /\ n \in Nat \ {0} /\ n \in 1 .. n /\ Last(b) = b[n]
      /\ \A k \in 1 .. n : b[k].numNodes \in Nat
  BY BoundFields, EmptySeq DEF Last
<1>2. \A k \in 1 .. n : b[k].numNodes >= b[n].numNodes
  <2>1. \A k \in 1 .. n : k < n => b[n].numNodes <= b[k].numNodes
    BY <1>1 DEF Ordered
  <2> HIDE DEF n
  <2> QED BY <1>1, <2>1
<1> HIDE DEF n
<1>3. ASSUME NEW k \in 1 .. n PROVE b[k].numNodes >= N + 1 - 1
  <2>1. b[k].numNodes \in Nat /\ b[n].numNodes \in Nat /\ b[k].numNodes >= b[n].numNodes /\ ~ (N > b[n].numNodes)
    BY <1>1, <1>2
  <2> QED BY <2>1
<1> QED BY <1>3 DEF Timely, n

\* The numbers that a bound is popped for.
LEMMA Overdue ==
  ASSUME NEW N \in Nat, NEW c \in Nat, N + 1 <= c, NEW a \in Nat, N > a, a >= N - 1
  PROVE  a < c - 1 /\ \A d \in Nat : a < d => d >= N
OBVIOUS

\* It is popped when it is overdue: what is left is enough for N + 1.
LEMMA BoundsLowered ==
  ASSUME NEW b \in Seq(MaxWeight), b # << >>, Ordered(b), NEW N \in Nat, N > Last(b).numNodes,
         Timely(b, N, FALSE), Cardinality(Hypernode) \in Nat, N + 1 <= Cardinality(Hypernode),
         \E k \in 1 .. Len(b) : N + 1 <= b[k].numNodes
  PROVE  /\ Front(b) \in Seq(MaxWeight) /\ Front(b) # << >>
         /\ Ordered(Front(b)) /\ Timely(Front(b), N + 1, FALSE)
<1> DEFINE n == Len(b)
           b2 == Front(b)
<1>1. /\ n \in Nat \ {0} /\ n \in 1 .. n /\ Last(b) = b[n]
      /\ \A k \in 1 .. n : b[k].numNodes \in Nat
  BY BoundFields, EmptySeq DEF Last
<1>2. /\ b2 \in Seq(MaxWeight) /\ Len(b2) = n - 1 /\ \A k \in 1 .. n - 1 : b2[k] = b[k]
      /\ n # 1 => b2 # << >>
  BY Pop
<1>3. /\ \A j, k \in 1 .. n : j < k =>
           /\ b[j].weight <= b[k].weight /\ b[k].numNodes <= b[j].numNodes
           /\ b[k].numNodes < Few => b[k].numNodes < b[j].numNodes
      /\ b[n].numNodes >= N - 1
  BY <1>1 DEF Ordered, Timely
<1>4. PICK m \in 1 .. n : N + 1 <= b[m].numNodes
  OBVIOUS
<1> HIDE DEF n, b2
<1>5. n # 1
  <2>1. m # n
    BY <1>1, <1>4
  <2> QED BY <1>1, <2>1
<1>6. \A k \in 1 .. n - 1 : k \in 1 .. n /\ k < n
  BY <1>1
<1>7. Ordered(b2)
  <2>1. \A k \in 1 .. n - 1 : b2[k] = b[k] /\ k \in 1 .. n
    BY <1>2, <1>6
  <2> QED BY <1>2, <1>3, <2>1 DEF Ordered
<1>8. ASSUME NEW k \in 1 .. n - 1 PROVE b2[k].numNodes >= N + 1 - 1
  <2>1. b[n].numNodes \in Nat /\ b[k].numNodes \in Nat /\ N > b[n].numNodes /\ b[n].numNodes >= N - 1 /\ b2[k] = b[k]
    BY <1>1, <1>2, <1>3, <1>6
  <2>2. b[n].numNodes < Few
    <3>1. b[n].numNodes \in Nat /\ N > b[n].numNodes /\ b[n].numNodes >= N - 1
      BY <2>1
    <3>2. b[n].numNodes < Cardinality(Hypernode) - 1
      BY <3>1, Overdue, Zenon
    <3> QED BY <3>2 DEF Few
  <2>3. b[n].numNodes < b[k].numNodes
    BY <1>1, <1>3, <1>6, <2>2
  <2>4. b[k].numNodes >= N
    BY <2>1, <2>3, Overdue, Zenon
  <2> QED BY <2>1, <2>4
<1>9. Timely(b2, N + 1, FALSE)
  BY <1>2, <1>8 DEF Timely
<1> QED BY <1>2, <1>5, <1>7, <1>9 DEF b2

\* The heaviest hypernode.
LEMMA HeaviestBounds ==
  ASSUME NEW w \in [Hypernode -> Nat]
  PROVE  \A N \in SUBSET Hypernode : N # {} =>
           Heaviest(w, N) \in Nat /\ \A v \in N : w[v] <= Heaviest(w, N)
<1> DEFINE Good == {N \in SUBSET Hypernode : N # {} => \E u \in N : \A v \in N : w[v] <= w[u]}
<1>1. ASSUME NEW N \in SUBSET Hypernode, \A U \in SUBSET N : U # N => U \in Good
      PROVE  N \in Good
  <2> SUFFICES ASSUME N # {} PROVE \E u \in N : \A v \in N : w[v] <= w[u]
    OBVIOUS
  <2>1. PICK x : x \in N
    OBVIOUS
  <2>2. N \ {x} \in Good
    BY <1>1, <2>1
  <2>3. \A v \in N : w[v] \in Nat
    OBVIOUS
  <2>4. CASE N \ {x} = {}
    <3>1. \A v \in N : v = x
      BY <2>4
    <3> QED BY <2>1, <2>3, <3>1
  <2>5. CASE N \ {x} # {}
    <3>1. PICK y \in N \ {x} : \A v \in N \ {x} : w[v] <= w[y]
      BY <2>2, <2>5
    <3>2. CASE w[x] <= w[y]
      BY <3>1, <3>2
    <3>3. CASE ~ (w[x] <= w[y])
      BY <2>1, <2>3, <3>1, <3>3
    <3> QED BY <3>2, <3>3
  <2> QED BY <2>4, <2>5
<1>2. \A N \in SUBSET Hypernode : N \in Good
  <2>1. \A N \in SUBSET Hypernode : (\A U \in SUBSET N : U # N => U \in Good) => N \in Good
    BY <1>1
  <2> HIDE DEF Good
  <2> QED BY <2>1, HypergraphAssumption, SubsetInduction
<1> TAKE N \in SUBSET Hypernode
<1> HAVE N # {}
<1>3. PICK u \in N : \A v \in N : w[v] <= w[u]
  BY <1>2
<1> DEFINE W == {w[v] : v \in N}
<1>4. w[u] \in W /\ \A y \in W : w[u] >= y
  BY <1>3
<1>5. Max(W) \in W /\ \A y \in W : Max(W) >= y
  BY <1>4 DEF Max
<1>6. Heaviest(w, N) = Max(W)
  BY DEF Heaviest
<1>7. W \subseteq Nat /\ \A v \in N : w[v] \in W
  OBVIOUS
<1> HIDE DEF W
<1> QED BY <1>5, <1>6, <1>7
-----------------------------------------------------------------------------
(* What the nets of a level cost, when net e counts c[e] times its weight.   *)

Weighted(w, c) == [e \in Hyperedge |-> w[e] * c[e]]

\* The nets that are left after the first q mergers.
Unmerged(p, q) == Hyperedge \ {p[r].removed : r \in 1 .. q}

\* Module SetSums proves things about sums under the name Total.
LEMMA SumIsTotal == \A E, f : SumOver(E, f) = Total(f, E)
BY DEF SumOver, Total

\* The product is distributive.
LEMMA Distributes == \A a, b, c \in Int : a * c \in Int /\ (a + b) * c = a * c + b * c
OBVIOUS

\* Merging a net moves its cost to the representative, if both count the same.
LEMMA MergerKeepsSum ==
  ASSUME NEW T \in SUBSET Hyperedge, NEW pair, pair.representative \in T, pair.removed \in Hyperedge \ T,
         NEW w \in [Hyperedge -> Nat], NEW c \in [Hyperedge -> Int],
         c[pair.representative] = c[pair.removed]
  PROVE  Total(Weighted(MergedBy(w, pair), c), T) = Total(Weighted(w, c), T \cup {pair.removed})
<1> DEFINE r == pair.representative
           x == pair.removed
           w2 == MergedBy(w, pair)
           f == Weighted(w, c)
           h == Weighted(w2, c)
<1>1. /\ r \in Hyperedge /\ x \in Hyperedge /\ w[r] \in Int /\ w[x] \in Int /\ c[r] \in Int
      /\ w2 \in [Hyperedge -> Int] /\ w \in [Hyperedge -> Int]
      /\ w2[r] = w[r] + w[x] /\ \A e \in Hyperedge \ {r} : w2[e] = w[e]
      /\ c[r] = c[x] /\ r \in T /\ x \notin T
  BY DEF MergedBy
<1> HIDE DEF r, x, w2
<1>2. ASSUME NEW a \in [Hyperedge -> Int]
      PROVE  Weighted(a, c) \in [Hyperedge -> Int] /\ \A e \in Hyperedge : Weighted(a, c)[e] = a[e] * c[e]
  <2>1. \A e \in Hyperedge : a[e] * c[e] \in Int
    BY Distributes
  <2> QED BY <2>1 DEF Weighted
<1>3. /\ f \in [Hyperedge -> Int] /\ h \in [Hyperedge -> Int]
      /\ \A e \in Hyperedge : f[e] = w[e] * c[e] /\ h[e] = w2[e] * c[e]
  BY <1>1, <1>2
<1> HIDE DEF f, h
<1>4. h[r] = f[r] + f[x] /\ f[r] \in Int /\ f[x] \in Int
  <2>1. (w[r] + w[x]) * c[r] = w[r] * c[r] + w[x] * c[r]
    BY <1>1, Distributes
  <2> QED BY <1>1, <1>3, <2>1
<1>5. IsFiniteSet(T) /\ IsFiniteSet(T \ {r}) /\ IsFiniteSet(T \cup {x})
  <2>1. T \in SUBSET Hyperedge /\ T \ {r} \in SUBSET Hyperedge /\ T \cup {x} \in SUBSET Hyperedge
    BY <1>1
  <2>2. IsFiniteSet(Hyperedge)
    BY HypergraphAssumption
  <2> QED BY <2>1, <2>2, FS_Subset
<1>6. Total(f, T \cup {x}) = f[x] + Total(f, T)
  <2>1. (T \cup {x}) \ {x} = T /\ x \in T \cup {x} /\ \A e \in T \cup {x} : f[e] \in Int
    BY <1>1, <1>3
  <2>2. Total(f, T \cup {x}) = f[x] + Total(f, (T \cup {x}) \ {x})
    BY <1>5, <2>1, TotalRemove, Zenon
  <2> QED BY <2>1, <2>2
<1>7. Total(f, T) = f[r] + Total(f, T \ {r}) /\ Total(h, T) = h[r] + Total(h, T \ {r})
  <2>1. (\A e \in T : f[e] \in Int) /\ (\A e \in T : h[e] \in Int) /\ r \in T
    BY <1>1, <1>3
  <2> QED BY <1>5, <2>1, TotalRemove
<1>8. Total(f, T \ {r}) = Total(h, T \ {r}) /\ Total(f, T \ {r}) \in Int
  <2>1. \A e \in T \ {r} : f[e] \in Int /\ h[e] = f[e]
    BY <1>1, <1>3
  <2> QED BY <1>5, <2>1, TotalEqual, TotalStep
<1>9. Total(h, T) = Total(f, T \cup {x})
  BY <1>4, <1>6, <1>7, <1>8
<1> QED BY <1>9 DEF f, h, r, x, w2

\* So do all mergers, in the order they were made.
LEMMA MergersKeepSum ==
  ASSUME NEW E, NEW s, NEW p \in Seq(ParallelHE), Accounted(E, s, p),
         NEW g, NEW w, Merges(g, p, w), NEW c \in [Hyperedge -> Int],
         \A q \in 1 .. Len(p) : c[p[q].representative] = c[p[q].removed]
  PROVE  Total(Weighted(w, c), Unmerged(p, Len(p))) = Total(Weighted(InitEdgeWeight, c), Hyperedge)
<1> DEFINE n == Len(p)
           F(q) == Total(Weighted(g[q], c), Unmerged(p, q))
           Good == {q \in 0 .. n : F(q) = Total(Weighted(InitEdgeWeight, c), Hyperedge)}
<1>1. n \in Nat /\ \A q \in 1 .. n : p[q] \in ParallelHE
  BY LenProperties, ElementOfSeq
<1>2. /\ \A q \in 0 .. n : g[q] \in [Hyperedge -> Nat]
      /\ g[0] = InitEdgeWeight /\ g[n] = w
      /\ \A q \in 1 .. n : g[q] = MergedBy(g[q - 1], p[q])
  BY DEF Merges
<1>3. 0 \in Good
  <2>1. Unmerged(p, 0) = Hyperedge
    BY DEF Unmerged
  <2> QED BY <1>1, <1>2, <2>1
<1>4. ASSUME NEW q \in 1 .. n, q - 1 \in Good PROVE q \in Good
  <2> DEFINE r == p[q].representative
             x == p[q].removed
             T == Unmerged(p, q)
             v == g[q - 1]
  <2>1. /\ r \in Hyperedge /\ x \in Hyperedge /\ q - 1 \in 0 .. n /\ q \in 0 .. n
        /\ v \in [Hyperedge -> Nat]
    <3>1. r \in Hyperedge /\ x \in Hyperedge
      BY <1>1 DEF ParallelHE
    <3>2. q - 1 \in 0 .. n /\ q \in 0 .. n
      BY <1>1
    <3> QED BY <1>2, <3>1, <3>2
  <2>2. r \in T /\ x \notin T /\ T \in SUBSET Hyperedge
    <3>1. \A k \in 1 .. q : k \in 1 .. n /\ k <= q
      BY <1>1
    <3>2. \A k \in 1 .. q : p[k].removed # r
      BY <3>1 DEF Accounted
    <3>3. q \in 1 .. q
      BY <1>1
    <3> QED BY <2>1, <3>2, <3>3 DEF Unmerged
  <2>3. T \cup {x} = Unmerged(p, q - 1)
    <3>1. \A k : k \in 1 .. q <=> k = q \/ k \in 1 .. q - 1
      BY <1>1
    <3>2. {p[k].removed : k \in 1 .. q} = {p[k].removed : k \in 1 .. q - 1} \cup {x}
      BY <3>1
    <3>3. \A k \in 1 .. q - 1 : p[k].removed # x
      <4>1. \A k \in 1 .. q - 1 : k \in 1 .. n /\ k # q
        BY <1>1
      <4> QED BY <4>1 DEF Accounted
    <3>4. x \notin {p[k].removed : k \in 1 .. q - 1}
      BY <3>3
    <3> QED BY <2>1, <3>2, <3>4 DEF Unmerged
  <2>4. g[q] = MergedBy(v, p[q])
    BY <1>2
  <2>5. c[r] = c[x]
    OBVIOUS
  <2>6. Total(Weighted(g[q], c), T) = Total(Weighted(v, c), T \cup {x})
    <3>1. p[q].representative \in T /\ p[q].removed \in Hyperedge \ T /\ T \in SUBSET Hyperedge
      BY <2>1, <2>2
    <3>2. c[p[q].representative] = c[p[q].removed] /\ v \in [Hyperedge -> Nat]
      BY <2>1, <2>5
    <3> HIDE DEF T, v
    <3>3. \A pair : pair.representative \in T /\ pair.removed \in Hyperedge \ T
                    /\ c[pair.representative] = c[pair.removed]
                    => Total(Weighted(MergedBy(v, pair), c), T) = Total(Weighted(v, c), T \cup {pair.removed})
      BY <3>1, <3>2, MergerKeepsSum
    <3>4. Total(Weighted(MergedBy(v, p[q]), c), T) = Total(Weighted(v, c), T \cup {p[q].removed})
      BY <3>1, <3>2, <3>3
    <3> QED BY <2>4, <3>4
  <2> HIDE DEF r, x, T, v
  <2> QED BY <1>4, <2>1, <2>3, <2>6 DEF T, v
<1>5. n \in Good
  <2>1. \A q \in 1 .. n : q - 1 \in Good => q \in Good
    BY <1>4
  <2> HIDE DEF Good
  <2> QED BY <1>1, <1>3, <2>1, CountInduction
<1> QED BY <1>2, <1>5

\* The nets that are left are enabled or have been removed as single-pin nets,
\* which cost nothing.
LEMMA EnabledSum ==
  ASSUME NEW E \in SUBSET Hyperedge, NEW s \in Seq(Hyperedge), NEW p \in Seq(ParallelHE), Accounted(E, s, p),
         NEW w \in [Hyperedge -> Nat], NEW c \in [Hyperedge -> Int],
         \A k \in 1 .. Len(s) : c[s[k]] = 0
  PROVE  Total(Weighted(w, c), Unmerged(p, Len(p))) = Total(Weighted(w, c), E)
<1> DEFINE T == Unmerged(p, Len(p))
           f == Weighted(w, c)
<1>1. IsFiniteSet(T) /\ T \in SUBSET Hyperedge
  BY HypergraphAssumption, FS_Subset DEF Unmerged
<1>2. E \in SUBSET T /\ \A x \in T \ E : \E k \in 1 .. Len(s) : x = s[k]
  BY DEF Accounted, Unmerged
<1>3. \A x \in Hyperedge : f[x] = w[x] * c[x] /\ w[x] \in Int /\ c[x] \in Int
  BY DEF Weighted
<1> HIDE DEF f, T
<1>4. ASSUME NEW x \in T PROVE f[x] \in Int
  <2>1. w[x] * c[x] \in Int
    BY <1>1, <1>3
  <2> QED BY <1>1, <1>3, <2>1
<1>5. ASSUME NEW x \in T \ E PROVE f[x] = 0
  <2>1. c[x] = 0
    BY <1>2
  <2>2. w[x] \in Int => w[x] * 0 = 0
    OBVIOUS
  <2> QED BY <1>1, <1>3, <2>1, <2>2
<1>6. Total(f, T) = Total(f, E)
  BY <1>1, <1>2, <1>4, <1>5, TotalOfOthers
<1> QED BY <1>6 DEF f, T
-----------------------------------------------------------------------------
(* The projection of the time limit: the history is gone through from its    *)
(* end, the log from its begin.                                              *)

Partitions == [Hypernode -> Block \cup {NoBlock}]

\* q holds the partitions of all levels of history h, from f on the last one.
RestoresBack(q, h, f) ==
  /\ q \in [0 .. Len(h) -> Partitions]
  /\ q[Len(h)] = f
  /\ \A k \in 1 .. Len(h) : q[k - 1] = [q[k] EXCEPT ![h[k].v] = q[k][h[k].u]]

\* Numbers up to n, if any, have a maximum.
LEMMA MaxOfNumbers ==
  ASSUME NEW n \in Nat, NEW S \in SUBSET (1 .. n), S # {}
  PROVE  Max(S) \in S /\ \A x \in S : Max(S) >= x
<1> DEFINE Good == {m \in 0 .. n : \A s \in SUBSET (1 .. m) : s # {} => \E x \in s : \A y \in s : x >= y}
<1>1. 0 \in Good
  <2>1. 1 .. 0 = {} /\ 0 \in 0 .. n
    OBVIOUS
  <2> QED BY <2>1
<1>2. ASSUME NEW m \in 1 .. n, m - 1 \in Good PROVE m \in Good
  <2>1. ASSUME NEW s \in SUBSET (1 .. m), s # {} PROVE \E x \in s : \A y \in s : x >= y
    <3>1. CASE m \in s
      <4>1. \A y \in s : m >= y
        OBVIOUS
      <4> QED BY <3>1, <4>1
    <3>2. CASE m \notin s
      <4>1. s \in SUBSET (1 .. m - 1)
        BY <3>2
      <4> QED BY <1>2, <2>1, <4>1
    <3> QED BY <3>1, <3>2
  <2> QED BY <2>1
<1>3. n \in Good
  <2>1. \A m \in 1 .. n : m - 1 \in Good => m \in Good
    BY <1>2
  <2> HIDE DEF Good
  <2> QED BY <1>1, <2>1, CountInduction
<1>4. \E x \in S : \A y \in S : x >= y
  BY <1>3
<1> QED BY <1>4 DEF Max

\* What ProjectedPart computes.
LEMMA ProjectionExists ==
  ASSUME history \in Seq(Memento), part \in Partitions
  PROVE  \E q : RestoresBack(q, history, part) /\ q[0] = ProjectedPart
<1> DEFINE n == Len(history)
           r == Reverse(history)
           S == 1 .. n
           Restored(p, m) == [p EXCEPT ![m.v] = p[m.u]]
           op == [x \in S \X Partitions |-> Restored(x[2], r[x[1]])]
           pick == [s \in SUBSET S |-> Max(s)]
           Solves(k) == k = [s \in SUBSET S |-> IF s = {} THEN part ELSE Restored(k[s \ {Max(s)}], r[Max(s)])]
<1>1. n \in Nat /\ r \in [S -> Memento] /\ \A i \in S : r[i] = history[(n - i) + 1]
  <2>1. n \in Nat /\ \A i \in S : (n - i) + 1 \in S
    BY LenProperties
  <2> QED BY <2>1, ElementOfSeq DEF Reverse
<1>2. \A s \in SUBSET S : s # {} => Max(s) \in s /\ s \ {Max(s)} \in SUBSET S
  BY <1>1, MaxOfNumbers
<1>3. \A p \in Partitions, m \in Memento : Restored(p, m) \in Partitions
  BY DEF Partitions, Memento
<1>4. IsFiniteSet(S)
  BY <1>1, FS_Interval
<1>5. PICK g \in [SUBSET S -> Partitions] : IsFold(g, S, part, op, pick)
  <2>1. op \in [S \X Partitions -> Partitions]
    <3> HIDE DEF Restored, S, r
    <3> QED BY <1>1, <1>3
  <2>2. Picks(pick, S)
    BY <1>2 DEF Picks
  <2> HIDE DEF op, pick, S
  <2> QED BY <1>4, <2>1, <2>2, FoldExists
<1>6. Solves(g)
  <2>1. ASSUME NEW s \in SUBSET S, s # {} PROVE g[s] = Restored(g[s \ {Max(s)}], r[Max(s)])
    <3>1. Max(s) \in S /\ g[s \ {Max(s)}] \in Partitions
      BY <1>2, <2>1
    <3>2. g[s] = op[<<Max(s), g[s \ {Max(s)}]>>]
      BY <1>5, <2>1 DEF IsFold
    <3> HIDE DEF Restored, S, r
    <3> QED BY <3>1, <3>2
  <2>2. g[{}] = part
    BY <1>5 DEF IsFold
  <2> HIDE DEF Restored, S, r
  <2> QED BY <1>5, <2>1, <2>2
<1> DEFINE h == CHOOSE k : Solves(k)
<1>7. Solves(h)
  <2> HIDE DEF Solves
  <2> QED BY <1>6
<1>8. ProjectedPart = h[S]
  <2>1. DOMAIN r = S
    BY <1>1
  <2> QED BY <2>1 DEF ProjectedPart, FoldLeft, MapThenFoldSet
<1>9. h[{}] = part /\ \A s \in SUBSET S : s # {} => h[s] = Restored(h[s \ {Max(s)}], r[Max(s)])
  <2> HIDE DEF h, Restored, S, r
  <2> QED BY <1>7
<1> HIDE DEF h, Solves, op, pick, r
<1> DEFINE Good == {i \in 0 .. n : h[1 .. i] \in Partitions}
<1>10. ASSUME NEW i \in 1 .. n PROVE h[1 .. i] = Restored(h[1 .. i - 1], r[i])
  <2>1. 1 .. i \in SUBSET S /\ 1 .. i # {} /\ (1 .. i) \ {i} = 1 .. i - 1
    BY <1>1
  <2>2. Max(1 .. i) = i
    <3>1. Max(1 .. i) \in 1 .. i /\ \A x \in 1 .. i : Max(1 .. i) >= x
      BY <1>1, <2>1, MaxOfNumbers
    <3> QED BY <1>1, <3>1
  <2> HIDE DEF Restored, S
  <2> QED BY <1>9, <2>1, <2>2
<1>11. 1 .. 0 = {}
  OBVIOUS
<1>12. \A i \in 0 .. n : h[1 .. i] \in Partitions
  <2>1. 0 \in Good
    BY <1>1, <1>9, <1>11
  <2>2. ASSUME NEW i \in 1 .. n, i - 1 \in Good PROVE i \in Good
    <3>1. r[i] \in Memento
      BY <1>1
    <3> HIDE DEF Restored
    <3> QED BY <1>1, <1>3, <1>10, <2>2, <3>1
  <2>3. ASSUME NEW m \in 0 .. n PROVE m \in Good
    <3>1. m \in Nat /\ \A i \in 1 .. m : i - 1 \in Good => i \in Good
      BY <1>1, <2>2
    <3> HIDE DEF Good
    <3> QED BY <2>1, <3>1, CountInduction
  <2> QED BY <2>3
<1> DEFINE q == [i \in 0 .. n |-> h[1 .. n - i]]
<1>13. RestoresBack(q, history, part)
  <2>1. q \in [0 .. n -> Partitions]
    BY <1>1, <1>12
  <2>2. q[n] = part
    BY <1>1, <1>9, <1>11
  <2>3. ASSUME NEW k \in 1 .. n PROVE q[k - 1] = Restored(q[k], history[k])
    <3> DEFINE i == n - (k - 1)
    <3>1. i \in 1 .. n /\ i - 1 = n - k /\ k - 1 \in 0 .. n /\ k \in 0 .. n /\ (n - i) + 1 = k
      BY <1>1
    <3>2. r[i] = history[k]
      BY <1>1, <3>1
    <3>3. q[k - 1] = h[1 .. i] /\ q[k] = h[1 .. i - 1]
      BY <3>1
    <3> HIDE DEF i, q, Restored
    <3> QED BY <1>10, <3>1, <3>2, <3>3
  <2> QED BY <2>1, <2>2, <2>3 DEF RestoresBack
<1>14. q[0] = ProjectedPart
  BY <1>1, <1>8
<1> HIDE DEF q
<1> QED BY <1>13, <1>14

\* Where level k ends in the log.
LevelEnd(h, s, p, k) == IF k = 0 THEN 0 ELSE k + SinglesEnd(h, s, k) + ParallelsEnd(h, p, k)

\* g leads a hypernode through log l.
Leads(g, l) ==
  /\ g \in [0 .. Len(l) -> Hypernode]
  /\ \A i \in 1 .. Len(l) : g[i] = H!Up(l[i], g[i - 1])

\* Levels end within the log, one contraction after the end of the level before.
LEMMA LevelEnds ==
  ASSUME NEW L, NEW l, NEW h, NEW s, NEW p, StackParts(L, l, h, s, p), Stacked(l, h, s, p)
  PROVE  /\ Len(l) \in Nat /\ Len(h) \in Nat
         /\ \A k \in 0 .. Len(h) : LevelEnd(h, s, p, k) \in 0 .. Len(l)
         /\ LevelEnd(h, s, p, Len(h)) = Len(l)
         /\ \A k \in 1 .. Len(h) :
              LevelEnd(h, s, p, k - 1) + 1 = k + h[k].singleBegin + h[k].parallelBegin
<1> DEFINE n == Len(h)
<1>1. /\ Len(l) \in Nat /\ n \in Nat /\ Len(s) \in Nat /\ Len(p) \in Nat
      /\ Len(l) = n + Len(s) + Len(p) /\ BeginsOrdered(h, s, p)
      /\ n = 0 => Len(s) = 0 /\ Len(p) = 0
  <2>1. n = 0 => h = << >>
    BY EmptySeq DEF StackParts
  <2> QED BY <2>1, LenProperties DEF StackParts, Stacked
<1>2. \A k \in 1 .. n : /\ SinglesEnd(h, s, k) \in Nat /\ SinglesEnd(h, s, k) <= Len(s)
                        /\ ParallelsEnd(h, p, k) \in Nat /\ ParallelsEnd(h, p, k) <= Len(p)
                        /\ h[k].singleBegin \in Nat /\ h[k].parallelBegin \in Nat
  BY <1>1, StackRanges
<1>3. \A k \in 0 .. n : LevelEnd(h, s, p, k) \in 0 .. Len(l)
  <2> SUFFICES ASSUME NEW k \in 0 .. n PROVE LevelEnd(h, s, p, k) \in 0 .. Len(l)
    OBVIOUS
  <2>1. CASE k = 0
    BY <1>1, <2>1 DEF LevelEnd
  <2>2. CASE k # 0
    <3>1. k \in 1 .. n
      BY <1>1, <2>2
    <3> QED BY <1>1, <1>2, <2>2, <3>1 DEF LevelEnd
  <2> QED BY <2>1, <2>2
<1>4. LevelEnd(h, s, p, n) = Len(l)
  BY <1>1 DEF LevelEnd, SinglesEnd, ParallelsEnd
<1>5. ASSUME NEW k \in 1 .. n PROVE LevelEnd(h, s, p, k - 1) + 1 = k + h[k].singleBegin + h[k].parallelBegin
  <2>1. CASE k = 1
    <3>1. h[1].singleBegin = 0 /\ h[1].parallelBegin = 0
      <4>1. h # << >>
        BY <1>1
      <4> QED BY <1>1, <4>1 DEF BeginsOrdered
    <3> QED BY <2>1, <3>1 DEF LevelEnd
  <2>2. CASE k # 1
    <3>1. k - 1 # 0 /\ k - 1 # n /\ (k - 1) + 1 = k
      BY <1>1, <2>2
    <3>2. LevelEnd(h, s, p, k - 1) = (k - 1) + h[k].singleBegin + h[k].parallelBegin
      BY <3>1 DEF LevelEnd, SinglesEnd, ParallelsEnd
    <3> QED BY <1>1, <1>2, <3>2
  <2> QED BY <2>1, <2>2
<1> QED BY <1>1, <1>3, <1>4, <1>5

\* A level leads its contracted hypernode to the representative and leaves all
\* others where they are.
LEMMA LevelLeads ==
  ASSUME NEW L, NEW l, NEW h, NEW s, NEW p, StackParts(L, l, h, s, p), Stacked(l, h, s, p),
         NEW g, Leads(g, l), NEW k \in 1 .. Len(h)
  PROVE  g[LevelEnd(h, s, p, k)] = IF g[LevelEnd(h, s, p, k - 1)] = h[k].v THEN h[k].u
                                   ELSE g[LevelEnd(h, s, p, k - 1)]
<1> DEFINE S == h[k].singleBegin
           Q == h[k].parallelBegin
           se == SinglesEnd(h, s, k)
           pe == ParallelsEnd(h, p, k)
           c == k + S + Q
           d == (se - S) + (pe - Q)
           e == LevelEnd(h, s, p, k)
           Good == {i \in 0 .. d : g[c + i] = g[c]}
<1>1. /\ S \in Nat /\ Q \in Nat /\ se \in Nat /\ pe \in Nat /\ S <= se /\ Q <= pe
      /\ Len(l) \in Nat /\ Len(h) \in Nat
  BY StackRanges DEF Stacked
<1>2. /\ e = k + se + pe /\ e \in 0 .. Len(l)
      /\ LevelEnd(h, s, p, k - 1) + 1 = c /\ LevelEnd(h, s, p, k - 1) \in 0 .. Len(l)
  <2>1. k \in 0 .. Len(h) /\ k - 1 \in 0 .. Len(h) /\ k # 0
    BY <1>1
  <2> QED BY <2>1, LevelEnds DEF LevelEnd
<1>3. LevelLogged(l, s, p, k, h[k], se, pe)
  BY DEF Stacked
<1>4. /\ ContractedAs(l[c], h[k])
      /\ \A i \in S + 1 .. se : RemovedAs(l[k + Q + i], s[i])
      /\ \A i \in Q + 1 .. pe : RemovedAs(l[k + se + i], p[i].removed)
  BY <1>3 DEF LevelLogged
<1> HIDE DEF S, Q, se, pe, e
<1>5. c \in 1 .. Len(l) /\ d \in Nat /\ c + d = e /\ \A i \in 1 .. d : c + i \in 1 .. Len(l) /\ c + (i - 1) = (c + i) - 1
  BY <1>1, <1>2
<1>6. ASSUME NEW i \in 1 .. d PROVE l[c + i].op = "remove"
  <2>1. CASE i <= se - S
    <3>1. S + i \in S + 1 .. se /\ k + Q + (S + i) = c + i
      BY <1>1, <1>5, <2>1
    <3>2. RemovedAs(l[k + Q + (S + i)], s[S + i])
      BY <1>4, <3>1
    <3> QED BY <3>1, <3>2 DEF RemovedAs
  <2>2. CASE ~ (i <= se - S)
    <3> DEFINE j == Q + (i - (se - S))
    <3>1. j \in Q + 1 .. pe /\ k + se + j = c + i
      BY <1>1, <1>5, <2>2
    <3> HIDE DEF j
    <3>2. RemovedAs(l[k + se + j], p[j].removed)
      BY <1>4, <3>1
    <3> QED BY <3>1, <3>2 DEF RemovedAs
  <2> QED BY <2>1, <2>2
<1> HIDE DEF c, d
<1>7. ASSUME NEW i \in 1 .. d, i - 1 \in Good PROVE i \in Good
  <2>1. g[c + i] = H!Up(l[c + i], g[(c + i) - 1])
    BY <1>5 DEF Leads
  <2>2. g[c + i] = g[c + (i - 1)]
    BY <1>5, <1>6, <2>1 DEF H!Up
  <2>3. i \in 0 .. d
    BY <1>5
  <2> QED BY <1>7, <2>2, <2>3
<1>8. d \in Good
  <2>1. 0 \in Good
    <3>1. c + 0 = c /\ 0 \in 0 .. d
      BY <1>5
    <3> QED BY <3>1
  <2>2. \A i \in 1 .. d : i - 1 \in Good => i \in Good
    BY <1>7
  <2> HIDE DEF Good
  <2> QED BY <1>5, <2>1, <2>2, CountInduction
<1>9. g[e] = g[c]
  BY <1>5, <1>8
<1>10. g[c] = IF g[c - 1] = h[k].v THEN h[k].u ELSE g[c - 1]
  <2>1. g[c] = H!Up(l[c], g[c - 1])
    BY <1>5 DEF Leads
  <2> QED BY <1>4, <2>1 DEF H!Up, ContractedAs
<1>11. c - 1 = LevelEnd(h, s, p, k - 1)
  BY <1>2
<1> QED BY <1>9, <1>10, <1>11 DEF e

\* Going back through the history gives every hypernode of the input the block that
\* the log leads it to.
LEMMA RestoresWhatLeads ==
  ASSUME NEW L, NEW l, NEW h, NEW s, NEW p, StackParts(L, l, h, s, p), Stacked(l, h, s, p),
         NEW g, Leads(g, l), NEW f, NEW q, RestoresBack(q, h, f)
  PROVE  q[0][g[0]] = f[g[Len(l)]]
<1> DEFINE n == Len(h)
           End(k) == LevelEnd(h, s, p, k)
           Good == {i \in 0 .. n : q[n - i][g[End(n - i)]] = f[g[Len(l)]]}
<1>1. n \in Nat /\ End(n) = Len(l) /\ \A k \in 0 .. n : g[End(k)] \in Hypernode
  BY LevelEnds DEF Leads
<1>2. /\ q[n] = f /\ \A k \in 0 .. n : q[k] \in Partitions
      /\ \A k \in 1 .. n : q[k - 1] = [q[k] EXCEPT ![h[k].v] = q[k][h[k].u]]
  BY DEF RestoresBack
<1>3. ASSUME NEW k \in 1 .. n
      PROVE  g[End(k)] = IF g[End(k - 1)] = h[k].v THEN h[k].u ELSE g[End(k - 1)]
  BY LevelLeads
<1>4. End(0) = 0
  BY DEF LevelEnd
<1> HIDE DEF End
<1>5. 0 \in Good
  BY <1>1, <1>2
<1>6. ASSUME NEW i \in 1 .. n, i - 1 \in Good PROVE i \in Good
  <2> DEFINE k == n - (i - 1)
  <2>1. k \in 1 .. n /\ k - 1 = n - i /\ k - 1 \in 0 .. n /\ k \in 0 .. n /\ i \in 0 .. n
    BY <1>1
  <2>2. q[k][g[End(k)]] = f[g[Len(l)]]
    BY <1>6
  <2> HIDE DEF k
  <2>3. q[k - 1][g[End(k - 1)]] = q[k][g[End(k)]]
    <3> DEFINE y == g[End(k - 1)]
    <3>1. y \in Hypernode /\ q[k] \in Partitions
      BY <1>1, <1>2, <2>1
    <3>2. q[k - 1] = [q[k] EXCEPT ![h[k].v] = q[k][h[k].u]]
      BY <1>2, <2>1
    <3>3. g[End(k)] = IF y = h[k].v THEN h[k].u ELSE y
      BY <1>3, <2>1
    <3> HIDE DEF y
    <3>4. q[k - 1][y] = IF y = h[k].v THEN q[k][h[k].u] ELSE q[k][y]
      BY <3>1, <3>2 DEF Partitions
    <3> QED BY <3>3, <3>4 DEF y
  <2> QED BY <2>1, <2>2, <2>3
<1>7. n \in Good
  <2>1. \A i \in 1 .. n : i - 1 \in Good => i \in Good
    BY <1>6
  <2> HIDE DEF Good
  <2> QED BY <1>1, <1>5, <2>1, CountInduction
<1>8. n - n = 0
  BY <1>1
<1> QED BY <1>4, <1>7, <1>8
-----------------------------------------------------------------------------
(* No superfluous net survives a level.                                      *)

\* What the rater assumes of nets E with the given pins.
NoSingles(E, pins) == \A e \in E : Cardinality(pins[e]) > 1
NoParallels(E, pins) == \A e, f \in E : e # f => pins[e] # pins[f]

\* A structure is proper as far as the input is.
Proper(s) ==
  /\ NoSingles(Hyperedge, InitPins) => NoSingles(s.edges, s.pins)
  /\ NoParallels(Hyperedge, InitPins) => NoParallels(s.edges, s.pins)

\* The pins of a net after v has been contracted into u.
MergedPins(S, u, v) == IF v \in S THEN (S \ {v}) \cup {u} ELSE S

\* s is the structure before the last contraction, m, and t the present one: s
\* was proper, its nets have been merged, and pairs of parallel ones removed
\* since.
LevelBase(s, m, t, pairs) ==
  /\ Proper(s)
  /\ s.pins \in [Hyperedge -> SUBSET Hypernode]
  /\ t.edges \subseteq s.edges
  /\ \A e \in s.edges : t.pins[e] = MergedPins(s.pins[e], m.u, m.v)
  /\ \A q \in m.parallelBegin + 1 .. Len(pairs) :
       /\ pairs[q].removed \in s.edges
       /\ t.pins[pairs[q].representative] = t.pins[pairs[q].removed]

HashesExact == phase # "refining" => \A e \in hg.edges : hash[e] = HashOf(hg.pins[e])
LevelMerged == history # << >> /\ phase # "refining" => \E s : LevelBase(s, Last(history), hg, removedParallel)
ContractedProper == \A j \in 1 .. Len(log) : log[j].op = "contract" => Proper(log[j].before)

ProperKept == HashesExact /\ LevelMerged /\ ContractedProper

\* What the proofs need to know of a structure: the nets of a hypernode are the
\* enabled ones that have it as a pin.
Listed(s) ==
  /\ s.nodes \in SUBSET Hypernode
  /\ s.edges \in SUBSET Hyperedge
  /\ s.pins \in [Hyperedge -> SUBSET Hypernode]
  /\ \A v \in s.nodes, e \in Hyperedge : e \in s.nets[v] <=> e \in s.edges /\ v \in s.pins[e]

\* Nets that become parallel are at most three: one of v, one of u, one of both.
LEMMA ThreePreimages ==
  ASSUME NEW u, NEW v, NEW A, NEW B, NEW C, NEW D, NEW M,
         MergedPins(A, u, v) = M, MergedPins(B, u, v) = M, MergedPins(C, u, v) = M, MergedPins(D, u, v) = M
  PROVE  A = B \/ A = C \/ A = D \/ B = C \/ B = D \/ C = D
<1>1. ASSUME NEW S, MergedPins(S, u, v) = M
      PROVE  S = M \/ S = (M \ {u}) \cup {v} \/ S = M \cup {v}
  BY <1>1 DEF MergedPins
<1> QED BY <1>1

\* Only nets that contain the representative are superfluous after a contraction.
LEMMA MergedAlike ==
  ASSUME NEW S, NEW T, NEW u, NEW v, S # T, MergedPins(S, u, v) = MergedPins(T, u, v)
  PROVE  u \in MergedPins(S, u, v)
BY DEF MergedPins

\* A merged net with a single pin is one of the representative, too.
LEMMA MergedSingle ==
  ASSUME NEW S \in SUBSET Hypernode, NEW u \in Hypernode, NEW v, Cardinality(S) > 1
  PROVE  u \in MergedPins(S, u, v) \/ Cardinality(MergedPins(S, u, v)) > 1
BY DEF MergedPins

\* When the pruner is done with a level, no superfluous net is left, if the input
\* has none.
LEMMA PrunedProper ==
  ASSUME Listed(hg), ClientTyped, NetsAccounted, RepresentativeEnabled, ProperKept,
         phase = "coarsening", Pruned,
         history = << >> => hg.edges = Hyperedge /\ hg.pins = InitPins
  PROVE  Proper(hg)
<1>1. CASE history = << >>
  BY <1>1 DEF Proper
<1>2. CASE history # << >>
  <2> DEFINE m == Last(history)
             n == Len(removedParallel)
  <2>1. PICK s : LevelBase(s, m, hg, removedParallel)
    BY <1>2 DEF ProperKept, LevelMerged
  <2>2. /\ m.u \in hg.nodes /\ m.u \in Hypernode
        /\ SingleNets = {} /\ \A rep \in hg.nets[m.u] : ParallelNets(rep) = {}
    BY <1>2 DEF Pruned, Listed, RepresentativeEnabled
  <2>3. \A e \in hg.edges : m.u \in hg.pins[e] => e \in hg.nets[m.u]
    BY <2>2 DEF Listed
  <2>4. /\ hg.edges \subseteq s.edges /\ hg.edges \subseteq Hyperedge
        /\ \A e \in s.edges : hg.pins[e] = MergedPins(s.pins[e], m.u, m.v)
        /\ \A e \in hg.edges : s.pins[e] \in SUBSET Hypernode
    BY <2>1, <2>2 DEF LevelBase, Listed
  <2>5. ASSUME NoSingles(s.edges, s.pins) PROVE NoSingles(hg.edges, hg.pins)
    <3> SUFFICES ASSUME NEW e \in hg.edges, ~ (Cardinality(hg.pins[e]) > 1) PROVE FALSE
      BY DEF NoSingles
    <3>1. Cardinality(s.pins[e]) > 1
      BY <2>4, <2>5 DEF NoSingles
    <3>2. m.u \in hg.pins[e]
      BY <2>2, <2>4, <3>1, MergedSingle
    <3>3. e \in hg.nets[m.u] /\ IsFiniteSet(hg.pins[e])
      <4>1. hg.pins[e] \in SUBSET Hypernode
        BY <2>2, <2>4 DEF Listed
      <4> QED BY <2>3, <3>2, <4>1, HypergraphAssumption, FS_Subset
    <3>4. Cardinality(hg.pins[e]) = 1
      BY <3>2, <3>3, FS_CardinalityType, FS_EmptySet
    <3> QED BY <2>2, <3>3, <3>4 DEF SingleNets
  <2>6. ASSUME NoParallels(s.edges, s.pins) PROVE NoParallels(hg.edges, hg.pins)
    <3> SUFFICES ASSUME NEW e \in hg.edges, NEW f \in hg.edges, e # f, hg.pins[e] = hg.pins[f] PROVE FALSE
      BY DEF NoParallels
    <3>1. s.pins[e] # s.pins[f]
      BY <2>4, <2>6 DEF NoParallels
    <3>2. e \in hg.nets[m.u] /\ f \in hg.nets[m.u]
      BY <2>3, <2>4, <3>1, MergedAlike
    <3>3. hash[e] = hash[f]
      BY DEF ProperKept, HashesExact
    <3>4. e \in Absorbing /\ f \in Absorbing
      <4>1. f \notin ParallelNets(e) /\ e \notin ParallelNets(f)
        BY <2>2, <3>2
      <4> QED BY <3>2, <3>3, <4>1 DEF ParallelNets
    <3>5. PICK q \in m.parallelBegin + 1 .. n, r \in m.parallelBegin + 1 .. n :
            removedParallel[q].representative = e /\ removedParallel[r].representative = f
      BY <3>4 DEF Absorbing
    <3> DEFINE x == removedParallel[q].removed
               y == removedParallel[r].removed
    <3>6. /\ x \in s.edges /\ y \in s.edges /\ hg.pins[x] = hg.pins[e] /\ hg.pins[y] = hg.pins[e]
      BY <2>1, <3>5 DEF LevelBase
    <3>7. x \notin hg.edges /\ y \notin hg.edges /\ x # y
      <4>1. q \in 1 .. n /\ r \in 1 .. n /\ q # r
        <5>1. m.parallelBegin \in Nat /\ n \in Nat
          <6>1. history \in Seq(Memento) /\ removedParallel \in Seq(ParallelHE)
            BY DEF ClientTyped
          <6>2. m \in Memento
            BY <1>2, <6>1, Pop
          <6> QED BY <6>1, <6>2, LenProperties DEF Memento
        <5> QED BY <3>5, <5>1
      <4>2. Accounted(hg.edges, removedSingle, removedParallel)
        BY DEF NetsAccounted
      <4> QED BY <4>1, <4>2 DEF Accounted
    <3> HIDE DEF x, y, m
    <3>8. s.pins[e] = s.pins[f] \/ s.pins[e] = s.pins[x] \/ s.pins[e] = s.pins[y] \/ s.pins[f] = s.pins[x]
          \/ s.pins[f] = s.pins[y] \/ s.pins[x] = s.pins[y]
      <4>1. /\ MergedPins(s.pins[e], m.u, m.v) = hg.pins[e] /\ MergedPins(s.pins[f], m.u, m.v) = hg.pins[e]
            /\ MergedPins(s.pins[x], m.u, m.v) = hg.pins[e] /\ MergedPins(s.pins[y], m.u, m.v) = hg.pins[e]
        BY <2>4, <3>6
      <4> QED BY <4>1, ThreePreimages
    <3>9. e \in s.edges /\ f \in s.edges /\ e # x /\ e # y /\ f # x /\ f # y
      BY <2>4, <3>7
    <3> QED BY <2>6, <3>6, <3>7, <3>8, <3>9 DEF NoParallels
  <2> QED BY <2>1, <2>5, <2>6 DEF LevelBase, Proper
<1> QED BY <1>1, <1>2
-----------------------------------------------------------------------------
\* A quiet step keeps the hashes, or resets them.
LEMMA QuietHashes ==
  ASSUME Listed(hg), QuietStep, HashesExact
  PROVE  HashesExact'
<1> DEFINE Goal == hg' = hg /\ (phase' # "refining" => hash' = ResetEdgeHashes \/ (hash' = hash /\ phase # "refining"))
<1>0. hg' = hg
  BY QuietStays DEF Stays
<1>1. ASSUME NEW v \in Hypernode, NEW b \in Block, SetNodePart(v, b) PROVE Goal
  BY <1>0, <1>1 DEF SetNodePart, H!SetNodePart
<1>2. ASSUME ResetPartitioning PROVE Goal
  BY <1>0, <1>2 DEF ResetPartitioning, H!ResetPartitioning
<1>3. ASSUME InitializeNumCutHyperedges PROVE Goal
  BY <1>0, <1>3 DEF InitializeNumCutHyperedges, H!InitializeNumCutHyperedges
<1>4. ASSUME BeginLevel PROVE Goal
  BY <1>0, <1>4 DEF BeginLevel, hypergraph
<1>5. ASSUME ParallelRestored PROVE Goal
  BY <1>0, <1>5 DEF ParallelRestored, hypergraph
<1>6. ASSUME NEW v \in Hypernode, NEW b \in Block, ChangeNodePart(v, b) PROVE Goal
  BY <1>0, <1>6 DEF ChangeNodePart, H!ChangeNodePart
<1>7. ASSUME StartVCycle PROVE Goal
  <2>1. hash' = ResetEdgeHashes
    BY <1>7 DEF StartVCycle
  <2> QED BY <1>0, <2>1
<1>8. ASSUME UNCHANGED vars PROVE Goal
  BY <1>0, <1>8 DEF vars, hypergraph
<1>9. Goal
  <2> HIDE DEF Goal
  <2> QED BY <1>1, <1>2, <1>3, <1>4, <1>5, <1>6, <1>7, <1>8 DEF QuietStep
<1>10. \A e \in hg.edges : ResetEdgeHashes[e] = HashOf(hg.pins[e])
  <2>1. hg.edges \subseteq Hyperedge
    BY DEF Listed
  <2> QED BY <2>1 DEF ResetEdgeHashes
<1> QED BY <1>9, <1>10 DEF HashesExact

\* It changes no level.
LEMMA QuietProper ==
  ASSUME Listed(hg), ClientTyped, StackKept, LoopKept, ProperKept, QuietStep
  PROVE  ProperKept'
<1>1. Stays /\ (phase' # "refining" => phase # "refining" \/ history = << >>)
  BY QuietStays, QuietLoop
<1>2. HashesExact'
  BY QuietHashes DEF ProperKept
<1>3. UNCHANGED <<hg, log, history, removedParallel>>
  BY <1>1 DEF Stays
<1>4. LevelMerged'
  BY <1>1, <1>3 DEF ProperKept, LevelMerged, LevelBase
<1>5. ContractedProper'
  BY <1>3 DEF ProperKept, ContractedProper
<1> QED BY <1>2, <1>4, <1>5 DEF ProperKept

\* contract keeps the hashes of the nets of v up to date.
LEMMA ContractHashes ==
  ASSUME NEW u \in Hypernode, NEW v \in hg.nodes, u # v, Listed(hg), HashesExact, phase = "coarsening",
         hg'.edges = hg.edges,
         hg'.pins = [e \in Hyperedge |-> IF e \in hg.nets[v] THEN (hg.pins[e] \ {v}) \cup {u} ELSE hg.pins[e]],
         hash \in [Hyperedge -> [Hypernode -> Int]], hash' = ContractedHash(u, v)
  PROVE  \A e \in hg'.edges : hash'[e] = HashOf(hg'.pins[e])
<1> SUFFICES ASSUME NEW e \in hg.edges PROVE hash'[e] = HashOf(hg'.pins[e])
  OBVIOUS
<1>1. /\ u \in Hypernode /\ v \in Hypernode /\ u # v /\ e \in Hyperedge
      /\ e \in hg.nets[v] <=> v \in hg.pins[e]
  BY DEF Listed
<1>2. hg'.pins[e] = IF e \in hg.nets[v] THEN (hg.pins[e] \ {v}) \cup {u} ELSE hg.pins[e]
  BY <1>1
<1>3. hash[e] = HashOf(hg.pins[e])
  BY DEF HashesExact
<1>4. CASE e \notin hg.nets[v]
  BY <1>1, <1>2, <1>3, <1>4 DEF ContractedHash
<1>5. CASE e \in hg.nets[v] /\ u \in hg.pins[e]
  <2>1. hash'[e] = [HashOf(hg.pins[e]) EXCEPT ![v] = 0]
    <3>1. hash'[e] = [hash[e] EXCEPT ![v] = @ - 1]
      BY <1>1, <1>5 DEF ContractedHash
    <3>2. hash[e][v] = 1
      BY <1>1, <1>3, <1>5 DEF HashOf
    <3> QED BY <1>1, <1>3, <3>1, <3>2
  <2> QED BY <1>1, <1>2, <1>5, <2>1 DEF HashOf
<1>6. CASE e \in hg.nets[v] /\ u \notin hg.pins[e]
  <2>1. hash'[e] = [HashOf(hg.pins[e]) EXCEPT ![v] = 0, ![u] = 1]
    <3>1. hash'[e] = [hash[e] EXCEPT ![v] = @ - 1, ![u] = @ + 1]
      BY <1>1, <1>6 DEF ContractedHash
    <3>2. hash[e][v] = 1 /\ hash[e][u] = 0 /\ u # v
      BY <1>1, <1>3, <1>6 DEF HashOf
    <3>3. hash[e] \in [Hypernode -> Int]
      BY <1>1
    <3> QED BY <1>1, <1>3, <3>1, <3>2, <3>3
  <2> QED BY <1>1, <1>2, <1>6, <2>1 DEF HashOf
<1> QED BY <1>4, <1>5, <1>6

\* What a log entry more, or one less, means for the structures before contractions.
LEMMA ContractedPush ==
  ASSUME NEW L, NEW x \in L, log \in Seq(L), log' = Append(log, x), ContractedProper,
         x.op = "contract" => Proper(x.before)
  PROVE  ContractedProper'
<1>1. /\ Len(log') = Len(log) + 1 /\ Len(log) \in Nat
      /\ \A i \in 1 .. Len(log) : log'[i] = log[i]
      /\ log'[Len(log) + 1] = x
  BY Push, LenProperties
<1> SUFFICES ASSUME NEW j \in 1 .. Len(log'), log'[j].op = "contract" PROVE Proper(log'[j].before)
  BY DEF ContractedProper, Proper
<1>2. j \in 1 .. Len(log) \/ j = Len(log) + 1
  BY <1>1
<1> QED BY <1>1, <1>2 DEF ContractedProper

\* Undoing a step takes an entry off the log.
LEMMA ContractedPop ==
  ASSUME NEW L, log \in Seq(L), log # << >>, log' = Front(log), ContractedProper
  PROVE  ContractedProper'
<1>1. /\ Len(log') = Len(log) - 1 /\ Len(log) \in Nat
      /\ \A i \in 1 .. Len(log) - 1 : log'[i] = log[i]
  BY Pop
<1> SUFFICES ASSUME NEW j \in 1 .. Len(log'), log'[j].op = "contract" PROVE Proper(log'[j].before)
  BY DEF ContractedProper, Proper
<1>2. j \in 1 .. Len(log) - 1 /\ j \in 1 .. Len(log)
  BY <1>1
<1> QED BY <1>1, <1>2 DEF ContractedProper

\* Counting a net in the last memento leaves its level as it is.
LEMMA LastCounted ==
  ASSUME NEW h \in Seq(Memento), h # << >>,
         NEW m2, m2 = [h[Len(h)] EXCEPT !.singleSize = @ + 1] \/ m2 = [h[Len(h)] EXCEPT !.parallelSize = @ + 1]
  PROVE  SameLevel(Last(h), Last([h EXCEPT ![Len(h)] = m2]))
<1>1. Last(h) = h[Len(h)] /\ h[Len(h)] \in Memento
  <2>1. Last(h) = h[Len(h)] /\ Last(h) \in Memento
    BY Pop, Zenon
  <2> QED BY <2>1
<1>2. m2 \in Memento /\ SameLevel(h[Len(h)], m2)
  BY <1>1, CountOne
<1>3. Last([h EXCEPT ![Len(h)] = m2]) = m2
  BY <1>2, ChangeLast
<1> QED BY <1>1, <1>2, <1>3

\* Removing a net of the level, one more parallel pair perhaps, keeps its base.
LEMMA BaseKept ==
  ASSUME NEW s, NEW m, NEW t, NEW pairs \in Seq(ParallelHE), LevelBase(s, m, t, pairs),
         NEW m2, m2.u = m.u, m2.v = m.v, m2.parallelBegin = m.parallelBegin, m.parallelBegin \in Nat,
         NEW t2, t2.edges \subseteq t.edges, t2.pins = t.pins
  PROVE  /\ LevelBase(s, m2, t2, pairs)
         /\ \A pair \in ParallelHE : pair.removed \in t.edges /\ t.pins[pair.representative] = t.pins[pair.removed]
              => LevelBase(s, m2, t2, Append(pairs, pair))
<1>1. LevelBase(s, m2, t2, pairs)
  BY DEF LevelBase
<1>2. ASSUME NEW pair \in ParallelHE, pair.removed \in t.edges, t.pins[pair.representative] = t.pins[pair.removed]
      PROVE  LevelBase(s, m2, t2, Append(pairs, pair))
  <2>1. /\ Len(Append(pairs, pair)) = Len(pairs) + 1 /\ Len(pairs) \in Nat
        /\ \A q \in 1 .. Len(pairs) : Append(pairs, pair)[q] = pairs[q]
        /\ Append(pairs, pair)[Len(pairs) + 1] = pair
    BY Push, LenProperties
  <2> SUFFICES ASSUME NEW q \in m2.parallelBegin + 1 .. Len(Append(pairs, pair))
               PROVE  LET x == Append(pairs, pair)[q]
                      IN  x.removed \in s.edges /\ t2.pins[x.representative] = t2.pins[x.removed]
    BY <1>1 DEF LevelBase
  <2>2. q \in m2.parallelBegin + 1 .. Len(pairs) \/ q = Len(pairs) + 1
    BY <2>1
  <2>3. CASE q \in m2.parallelBegin + 1 .. Len(pairs)
    <3>1. Append(pairs, pair)[q] = pairs[q]
      <4>1. q \in 1 .. Len(pairs) \/ ~ (m2.parallelBegin \in Nat)
        BY <2>1, <2>3
      <4> QED BY <2>1, <4>1
    <3> QED BY <1>1, <2>3, <3>1 DEF LevelBase
  <2>4. CASE q = Len(pairs) + 1
    BY <1>2, <2>1, <2>4 DEF LevelBase
  <2> QED BY <2>2, <2>3, <2>4
<1> QED BY <1>1, <1>2
=============================================================================
