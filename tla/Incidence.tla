------------------------------ MODULE Incidence ------------------------------
(***************************************************************************)
(* The dynamic incidence structure of GenericHypergraph                    *)
(* (kahypar/datastructure/hypergraph.h): contraction and uncontraction of  *)
(* pairs of hypernodes, removal and restoration of hyperedges.             *)
(*                                                                         *)
(* A hyperedge owns a fixed stretch of _incidence_array.  The first size   *)
(* slots of it hold its pins, in an order no operation depends on: pins[e] *)
(* is that set.  Behind them lie the pins that contractions cut off, the   *)
(* one cut off last in the slot at firstInvalidEntry: cutOff[e] is that    *)
(* stretch read from its far end, so that its last element is the slot an  *)
(* uncontraction peeks at.  Module IncidenceArray has the slots.           *)
(*                                                                         *)
(* Nothing records what a contraction did to each net.  An uncontraction   *)
(* infers it from the current structure, which is right only if the        *)
(* operations are undone in reverse order: `log` is the order in which the *)
(* coarsener made them.  Each entry carries, for the properties alone, the *)
(* structure it was applied to.                                            *)
(***************************************************************************)
EXTENDS Integers, FiniteSets, SequencesExt

CONSTANTS Hypernode,    \* 0 .. _num_hypernodes - 1
          Hyperedge,    \* 0 .. _num_hyperedges - 1
          InitPins,     \* the pins of each hyperedge, as read from the input
          InitNumPins,  \* index_vector[num_hyperedges], as read from the input
          InitWeight    \* the weight of each hypernode, as read from the input

ASSUME HypernodeAssumption == IsFiniteSet(Hypernode)
ASSUME HyperedgeAssumption == IsFiniteSet(Hyperedge)
ASSUME InitPinsAssumption == InitPins \in [Hyperedge -> SUBSET Hypernode]
ASSUME InitNumPinsAssumption == InitNumPins \in Nat
ASSUME InitWeightAssumption == InitWeight \in [Hypernode -> Nat]

VARIABLES hg,     \* the hypergraph: enabled elements, incidences, counters
          log     \* the contractions and removals not yet undone

vars == <<hg, log>>

Structure == [nodes   : SUBSET Hypernode,              \* enabled hypernodes
              edges   : SUBSET Hyperedge,              \* enabled hyperedges
              pins    : [Hyperedge -> SUBSET Hypernode],
              cutOff  : [Hyperedge -> Seq(Hypernode)],
              nets    : [Hypernode -> SUBSET Hyperedge],
              weight  : [Hypernode -> Int],
              numPins : Int]                           \* _current_num_pins

LogEntry ==      [op : {"contract"}, u : Hypernode, v : Hypernode, before : Structure]
            \cup [op : {"remove"}, e : Hyperedge, before : Structure]

(***************************************************************************)
(* The operations on a structure s.                                        *)
(***************************************************************************)

\* The constructor.  (The variant ends every net one slot early, so that the
\* slot behind the last pin, with a number no hypernode has, counts as cut off.)
OriginalOneShort ==
  [nodes   |-> Hypernode,
   edges   |-> Hyperedge,
   pins    |-> InitPins,
   cutOff  |-> [e \in Hyperedge |-> << Cardinality(Hypernode) >>],
   nets    |-> [v \in Hypernode |-> {e \in Hyperedge : v \in InitPins[e]}],
   weight  |-> InitWeight,
   numPins |-> InitNumPins]

Original ==
  [nodes   |-> Hypernode,
   edges   |-> Hyperedge,
   pins    |-> InitPins,
   cutOff  |-> [e \in Hyperedge |-> << >>],
   nets    |-> [v \in Hypernode |-> {e \in Hyperedge : v \in InitPins[e]}],
   weight  |-> InitWeight,
   numPins |-> InitNumPins]

\* The nets of v that contain u as well (Case 1: v is cut off; in the other
\* nets of v, Case 2, the slot of v is reused to store u).
SharedNets(s, u, v) == {e \in s.nets[v] : u \in s.pins[e]}

\* contract(u, v): v disappears into its representative u.  v keeps its nets.
Contracted(s, u, v) ==
  [nodes   |-> s.nodes \ {v},
   edges   |-> s.edges,
   pins    |-> [e \in Hyperedge |-> IF e \in s.nets[v] THEN (s.pins[e] \ {v}) \cup {u} ELSE s.pins[e]],
   cutOff  |-> [e \in Hyperedge |-> IF e \in SharedNets(s, u, v) THEN Append(s.cutOff[e], v)
                                                               ELSE s.cutOff[e]],
   nets    |-> [s.nets EXCEPT ![u] = @ \cup s.nets[v]],
   weight  |-> [s.weight EXCEPT ![u] = @ + s.weight[v]],
   numPins |-> s.numPins - Cardinality(SharedNets(s, u, v))]

\* The nets incident to both u and v whose first slot behind the pins holds v.
\* (The variants never look, and look only whether there is such a slot.)
NoCutOffNets(s, u, v) == {}
AnyCutOffNets(s, u, v) == {e \in s.nets[u] \cap s.nets[v] : s.cutOff[e] # << >>}
CutOffNets(s, u, v) ==
  {e \in s.nets[u] \cap s.nets[v] : s.cutOff[e] # << >> /\ Last(s.cutOff[e]) = v}

\* The other nets incident to both: the slot that holds u is given back to v.
\* (The variant gives nothing back.)
NoReusedNets(s, u, v) == {}
ReusedNets(s, u, v) == (s.nets[u] \cap s.nets[v]) \ CutOffNets(s, u, v)

\* uncontract({u, v})
Uncontracted(s, u, v) ==
  [nodes   |-> s.nodes \cup {v},
   edges   |-> s.edges,
   pins    |-> [e \in Hyperedge |-> IF e \in CutOffNets(s, u, v) THEN s.pins[e] \cup {v}
                                ELSE IF e \in ReusedNets(s, u, v) THEN (s.pins[e] \ {u}) \cup {v}
                                ELSE s.pins[e]],
   cutOff  |-> [e \in Hyperedge |-> IF e \in CutOffNets(s, u, v) THEN Front(s.cutOff[e]) ELSE s.cutOff[e]],
   nets    |-> [s.nets EXCEPT ![u] = @ \ ReusedNets(s, u, v)],
   weight  |-> [s.weight EXCEPT ![u] = @ - s.weight[v]],
   numPins |-> s.numPins + Cardinality(CutOffNets(s, u, v))]

\* removeEdge(e): e keeps its pins, its pins forget e.
Removed(s, e) ==
  [nodes   |-> s.nodes,
   edges   |-> s.edges \ {e},
   pins    |-> s.pins,
   cutOff  |-> s.cutOff,
   nets    |-> [v \in Hypernode |-> IF v \in s.pins[e] THEN s.nets[v] \ {e} ELSE s.nets[v]],
   weight  |-> s.weight,
   numPins |-> s.numPins - Cardinality(s.pins[e])]

\* restoreEdge(e), in both of its overloads.
Restored(s, e) ==
  [nodes   |-> s.nodes,
   edges   |-> s.edges \cup {e},
   pins    |-> s.pins,
   cutOff  |-> s.cutOff,
   nets    |-> [v \in Hypernode |-> IF v \in s.pins[e] THEN s.nets[v] \cup {e} ELSE s.nets[v]],
   weight  |-> s.weight,
   numPins |-> s.numPins + Cardinality(s.pins[e])]
-----------------------------------------------------------------------------
Init == hg = Original /\ log = << >>

Contract(u, v) ==
  /\ {u, v} \subseteq hg.nodes
  /\ u # v
  /\ hg' = Contracted(hg, u, v)
  /\ log' = Append(log, [op |-> "contract", u |-> u, v |-> v, before |-> hg])

RemoveEdge(e) ==
  /\ e \in hg.edges
  /\ hg' = Removed(hg, e)
  /\ log' = Append(log, [op |-> "remove", e |-> e, before |-> hg])

Undoes(op) == log # << >> /\ Last(log).op = op

\* (The variant swaps the two hypernodes of the memento.)
UncontractSwapped ==
  /\ Undoes("contract")
  /\ hg' = Uncontracted(hg, Last(log).v, Last(log).u)
  /\ log' = Front(log)

Uncontract ==
  /\ Undoes("contract")
  /\ hg' = Uncontracted(hg, Last(log).u, Last(log).v)
  /\ log' = Front(log)

RestoreEdge ==
  /\ Undoes("remove")
  /\ hg' = Restored(hg, Last(log).e)
  /\ log' = Front(log)

Next == \/ \E u, v \in Hypernode : Contract(u, v)
        \/ \E e \in Hyperedge : RemoveEdge(e)
        \/ Uncontract
        \/ RestoreEdge

Spec == Init /\ [][Next]_vars
-----------------------------------------------------------------------------
TypeOK == hg \in Structure /\ log \in Seq(LogEntry)

\* Both directions of the incidence agree for what is enabled: a hypernode
\* lists exactly the enabled nets it is a pin of, and the pins of an enabled
\* net are enabled.
Dual(s) ==
  /\ \A v \in s.nodes, e \in Hyperedge : e \in s.nets[v] <=> e \in s.edges /\ v \in s.pins[e]
  /\ \A e \in s.edges : s.pins[e] \subseteq s.nodes
DualIncidence == Dual(hg)

\* What uncontract relies on when it peeks behind the pins of a net: only
\* hypernodes that are contracted lie there.  (Otherwise a net in which u
\* took the slot of v could be mistaken for one from which v was cut off.)
OnlyContracted(s) == \A e \in s.edges : \A i \in DOMAIN s.cutOff[e] : s.cutOff[e][i] \notin s.nodes
CutOffContracted == OnlyContracted(hg)

\* Once everything is undone the hypergraph is the one that was read: the
\* n-level scheme hands back the input hypergraph, incidences, weights and
\* counters included.
OriginalRestored == log = << >> => hg = Original

\* Every undo step lands exactly in the structure its operation started from,
\* although no operation stores that structure.
ReverseReplay == [][Len(log') < Len(log) => hg' = Last(log).before]_vars
=============================================================================
