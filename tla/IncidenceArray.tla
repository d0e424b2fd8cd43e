--------------------------- MODULE IncidenceArray ---------------------------
(***************************************************************************)
(* How GenericHypergraph (kahypar/datastructure/hypergraph.h) stores the   *)
(* structure of module Incidence, and that it implements that module.      *)
(*                                                                         *)
(* All pins are in one array; the stretch of a net begins at its           *)
(* firstEntry, which never changes, and its pins end before its            *)
(* firstInvalidEntry.  The incident nets of a hypernode are a vector from  *)
(* which elements are removed by swapping them with the last one.          *)
(***************************************************************************)
EXTENDS Integers, FiniteSets, SequencesExt

CONSTANTS NumNodes,    \* _num_hypernodes
          InitPinList, \* the pins of every net, in the order of the input
          InitWeight

Hypernode == 0 .. NumNodes - 1
Hyperedge == DOMAIN InitPinList

ASSUME NumNodesAssumption == NumNodes \in Nat
ASSUME InitPinListAssumption ==
  /\ InitPinList \in Seq(Seq(Hypernode))
  /\ \A e \in Hyperedge : IsInjective(InitPinList[e])

VARIABLES array,       \* _incidence_array
          size,        \* of each net: number of pins
          netList,     \* incidentNets of each hypernode
          nodes,       \* enabled hypernodes
          edges,       \* enabled nets
          weight,      \* of each hypernode
          numPins,     \* _current_num_pins
          log          \* see Incidence

vars == <<array, size, netList, nodes, edges, weight, numPins, log>>

\* firstEntry of a net, or of the sentinel behind the last net.
FirstEntry(e) == 1 + FoldLeft(LAMBDA n, pins : n + Len(pins), 0, SubSeq(InitPinList, 1, e - 1))
FirstInvalidEntry(e) == FirstEntry(e) + size[e]
Stretch(e) == FirstEntry(e) .. FirstEntry(e + 1) - 1
PinSlots(e) == FirstEntry(e) .. FirstInvalidEntry(e) - 1

Pins(e) == {array[i] : i \in PinSlots(e)}
Nets(v) == ToSet(netList[v])
NetOfSlot(i) == CHOOSE e \in Hyperedge : i \in Stretch(e)

View ==
  [nodes   |-> nodes,
   edges   |-> edges,
   pins    |-> [e \in Hyperedge |-> Pins(e)],
   cutOff  |-> [e \in Hyperedge |-> Reverse(SubSeq(array, FirstInvalidEntry(e), FirstEntry(e + 1) - 1))],
   nets    |-> [v \in Hypernode |-> Nets(v)],
   weight  |-> weight,
   numPins |-> numPins]

\* swap with the last element, then pop_back
SwapPop(s, i) == Front([s EXCEPT ![i] = Last(s)])
-----------------------------------------------------------------------------
Init ==
  /\ array = FlattenSeq(InitPinList)
  /\ size = [e \in Hyperedge |-> Len(InitPinList[e])]
  /\ netList = [v \in Hypernode |->
                  SelectSeq([e \in Hyperedge |-> e], LAMBDA e : Contains(InitPinList[e], v))]
  /\ nodes = Hypernode
  /\ edges = Hyperedge
  /\ weight = InitWeight
  /\ numPins = Len(FlattenSeq(InitPinList))
  /\ log = << >>

\* The nets of v that u becomes a pin of.  (The variant connects u to the nets
\* again that contain it already.)
AllNets(u, v) == netList[v]
NewNets(u, v) == SelectSeq(netList[v], LAMBDA e : u \notin Pins(e))

\* contract(u, v).  In every net of v, v is swapped to the last pin slot;
\* there it is cut off if u was seen before it (Case 1) or else replaced by u
\* (Case 2).
Contract(u, v) ==
  LET last(e) == FirstInvalidEntry(e) - 1
      isLastPin(i) == i = last(NetOfSlot(i))
      cutOff == {e \in Nets(v) : u \in Pins(e)}
      contracted(i) ==
        LET e == NetOfSlot(i)
        IN IF isLastPin(i) THEN IF e \in cutOff THEN v ELSE u
           ELSE IF i \in PinSlots(e) /\ array[i] = v THEN array[last(e)]
           ELSE array[i]
  IN /\ {u, v} \subseteq nodes
     /\ u # v
     /\ array' = [i \in DOMAIN array |-> IF NetOfSlot(i) \in Nets(v) THEN contracted(i) ELSE array[i]]
     /\ size' = [e \in Hyperedge |-> IF e \in cutOff THEN size[e] - 1 ELSE size[e]]
     /\ netList' = [netList EXCEPT ![u] = @ \o NewNets(u, v)]
     /\ nodes' = nodes \ {v}
     /\ weight' = [weight EXCEPT ![u] = @ + weight[v]]
     /\ numPins' = numPins - Cardinality(cutOff)
     /\ log' = Append(log, [op |-> "contract", u |-> u, v |-> v, before |-> View])
     /\ UNCHANGED edges

\* removeEdge(e): every pin loses e from its incident nets.
RemoveEdge(e) ==
  /\ e \in edges
  /\ netList' = [v \in Hypernode |-> IF v \in Pins(e)
                                     THEN SwapPop(netList[v], SelectInSeq(netList[v], LAMBDA f : f = e))
                                     ELSE netList[v]]
  /\ edges' = edges \ {e}
  /\ numPins' = numPins - size[e]
  /\ log' = Append(log, [op |-> "remove", e |-> e, before |-> View])
  /\ UNCHANGED <<array, size, nodes, weight>>

\* Whether slot firstInvalidEntry of net e exists and holds v.
PeeksAt(e, v) ==
  /\ FirstInvalidEntry(e) < FirstEntry(e + 1)
  /\ array[FirstInvalidEntry(e)] = v

\* uncontract's loop over the incident nets of u, from the i-th on, while it
\* removes the reused nets from what it runs over.  (The variant steps over
\* the net that was swapped into the place of a removed one.)
RECURSIVE SkippingWalk(_, _, _)
SkippingWalk(nets, i, reused) ==
  IF i > Len(nets) THEN nets
  ELSE IF nets[i] \in reused THEN SkippingWalk(SwapPop(nets, i), i + 1, reused)
  ELSE SkippingWalk(nets, i + 1, reused)

RECURSIVE Walk(_, _, _)
Walk(nets, i, reused) ==
  IF i > Len(nets) THEN nets
  ELSE IF nets[i] \in reused THEN Walk(SwapPop(nets, i), i, reused)
  ELSE Walk(nets, i + 1, reused)

\* The slot of u that is given back: the last one.
ReusedSlot(e, u) == Max({i \in PinSlots(e) : array[i] = u})

\* uncontract({u, v}).  Case 1 reclaims the slot behind the pins, Case 2 gives
\* the last slot that holds u back to v.
Uncontract ==
  LET u == Last(log).u
      v == Last(log).v
      marked == Nets(u) \cap Nets(v)
      cutOff == {e \in marked : PeeksAt(e, v)}
      reused == marked \ cutOff
  IN /\ log # << >> /\ Last(log).op = "contract"
     /\ array' = [i \in DOMAIN array |->
                    IF NetOfSlot(i) \in reused /\ i = ReusedSlot(NetOfSlot(i), u) THEN v ELSE array[i]]
     /\ size' = [e \in Hyperedge |-> IF e \in cutOff THEN size[e] + 1 ELSE size[e]]
     /\ netList' = [netList EXCEPT ![u] = Walk(@, 1, reused)]
     /\ nodes' = nodes \cup {v}
     /\ weight' = [weight EXCEPT ![u] = @ - weight[v]]
     /\ numPins' = numPins + Cardinality(cutOff)
     /\ log' = Front(log)
     /\ UNCHANGED edges

\* restoreEdge(e), in both of its overloads.
RestoreEdge ==
  LET e == Last(log).e
  IN /\ log # << >> /\ Last(log).op = "remove"
     /\ netList' = [v \in Hypernode |-> IF v \in Pins(e) THEN Append(netList[v], e) ELSE netList[v]]
     /\ edges' = edges \cup {e}
     /\ numPins' = numPins + size[e]
     /\ log' = Front(log)
     /\ UNCHANGED <<array, size, nodes, weight>>

Next == \/ \E u, v \in Hypernode : Contract(u, v)
        \/ \E e \in Hyperedge : RemoveEdge(e)
        \/ Uncontract
        \/ RestoreEdge

Spec == Init /\ [][Next]_vars
-----------------------------------------------------------------------------
I == INSTANCE Incidence WITH
       hg <- View, InitPins <- [e \in Hyperedge |-> ToSet(InitPinList[e])],
       InitNumPins <- Len(FlattenSeq(InitPinList))

TypeOK ==
  /\ array \in Seq(Hypernode)
  /\ Len(array) = Len(FlattenSeq(InitPinList))
  /\ \A e \in Hyperedge : size[e] \in 0 .. Len(InitPinList[e])
  /\ netList \in [Hypernode -> Seq(Hyperedge)]
  /\ nodes \in SUBSET Hypernode
  /\ edges \in SUBSET Hyperedge
  /\ weight \in [Hypernode -> Int]
  /\ numPins \in Int
  /\ log \in Seq(I!LogEntry)

\* No net lists a pin twice and no hypernode a net twice ("HN is already
\* connected to HE"): contract connects u to the nets of v that it does not
\* see u in, and uncontract searches for u from the end of the net.
NoDuplicates ==
  /\ \A e \in Hyperedge : \A i, j \in PinSlots(e) : array[i] = array[j] => i = j
  /\ \A v \in Hypernode : IsInjective(netList[v])

ArraysExact == TypeOK /\ NoDuplicates

\* The array and the vectors implement the sets of Incidence: contract,
\* uncontract, removeEdge and restoreEdge do to the slots what that module
\* says they do to pins, cut-off pins and incident nets.
ImplementsIncidence == I!Spec
=============================================================================
