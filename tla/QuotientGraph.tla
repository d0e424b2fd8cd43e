---------------------------- MODULE QuotientGraph ----------------------------
(***************************************************************************)
(* The scheduler of the flow refinement (partition/refinement/flow/        *)
(* quotient_graph_block_scheduler.h): for every two blocks it keeps a list *)
(* of the nets that connect them.                                          *)
(*                                                                         *)
(* The lists are repaired lazily.  A move only appends; entries that have  *)
(* become wrong, or that are there twice, stay until the list is exposed.  *)
(* lists[p][e] counts the entries of net e in the list of the pair p: the  *)
(* order of a list is random wherever it matters.                          *)
(***************************************************************************)
EXTENDS Integers, FiniteSets

CONSTANTS Hypernode, Hyperedge,
          Block                 \* 0 .. k - 1

VARIABLES hg,       \* the structure of module Incidence; the lists need nets and pins
          part,     \* the block of each hypernode
          lists     \* _block_pair_cut_he

\* Two blocks, the lesser of which comes first in the code.
Pairs == {p \in SUBSET Block : \E a, b \in p : a # b /\ p = {a, b}}

\* pinCountInPart and connectivitySet, under the partition f.
PinsOf(f, e, b) == {v \in hg.pins[e] : f[v] = b}
BlocksOf(f, e) == {f[v] : v \in hg.pins[e]}

\* The nets that connect the two blocks of a pair.
CutNets(f, p) == {e \in hg.edges : \A b \in p : PinsOf(f, e, b) # {}}

\* buildQuotientGraph: the lists, and the edges of the quotient graph.
Built(f) == [p \in Pairs |-> [e \in Hyperedge |-> IF e \in CutNets(f, p) THEN 1 ELSE 0]]
QuotientEdges(f) == {p \in Pairs : CutNets(f, p) # {}}

\* updateBlockPairCutHyperedges, which every access to a list calls.
Updated(l, f, p) ==
  [l EXCEPT ![p] = [e \in Hyperedge |-> IF e \in CutNets(f, p) /\ l[p][e] > 0 THEN 1 ELSE 0]]

\* changeNodePart(v, to), where f is the partition after the move.  A net that
\* has just got its first pin in `to` is appended to the lists of that block.
\* (The variant appends it only to the list of the two blocks of the move.)
AppendedForMove(l, f, v, from, to) ==
  [p \in Pairs |-> [e \in Hyperedge |->
     IF /\ e \in hg.nets[v]
        /\ Cardinality(PinsOf(f, e, to)) = 1
        /\ p = {from, to} /\ from \in BlocksOf(f, e)
     THEN l[p][e] + 1 ELSE l[p][e]]]
Appended(l, f, v, from, to) ==
  [p \in Pairs |-> [e \in Hyperedge |->
     IF /\ e \in hg.nets[v]
        /\ Cardinality(PinsOf(f, e, to)) = 1
        /\ \E b \in BlocksOf(f, e) \ {to} : p = {b, to}
     THEN l[p][e] + 1 ELSE l[p][e]]]
-----------------------------------------------------------------------------
(* The scheduler on its own: any moves, and any pair looked at, in any order. *)

Incident(s) ==
  /\ s.pins \in [Hyperedge -> SUBSET Hypernode]
  /\ \A v \in Hypernode : \A e \in s.edges : v \in s.pins[e] => e \in s.nets[v]
  /\ s.edges \subseteq Hyperedge

Init ==
  /\ Incident(hg)
  /\ part \in [Hypernode -> Block]
  /\ lists = Built(part)

ChangeNodePart(v, to) ==
  /\ part[v] # to
  /\ part' = [part EXCEPT ![v] = to]
  /\ lists' = Appended(lists, part', v, part[v], to)
  /\ UNCHANGED hg

BlockPairCutHyperedges(p) ==
  /\ lists' = Updated(lists, part, p)
  /\ UNCHANGED <<hg, part>>

Next == \/ \E v \in Hypernode, to \in Block : ChangeNodePart(v, to)
        \/ \E p \in Pairs : BlockPairCutHyperedges(p)

vars == <<hg, part, lists>>
Spec == Init /\ [][Next]_vars

TypeOK ==
  /\ Incident(hg)
  /\ part \in [Hypernode -> Block]
  /\ lists \in [Pairs -> [Hyperedge -> Nat]]

\* The assertion of blockPairCutHyperedges, as far as it must hold between two
\* accesses: no net that connects two blocks is missing in their list.
CutListsComplete == \A p \in Pairs : \A e \in CutNets(part, p) : lists[p][e] > 0

\* The whole assertion, where it stands: the list that is handed out has the
\* nets that connect the two blocks, each of them once.
ListHandedOutExact ==
  [][\A p \in Pairs :
       BlockPairCutHyperedges(p) =>
         \A e \in Hyperedge : lists'[p][e] = IF e \in CutNets(part, p) THEN 1 ELSE 0]_vars
=============================================================================
