----------------------------- MODULE MCTwoWayFM -----------------------------
(* Five hypernodes, one of them fixed.  Net "a" is so large that a move may  *)
(* leave all gains in it as they are; the other two become single-pin or     *)
(* parallel when hypernodes 0, 1 and 2 are contracted, which MaxNodeWeight   *)
(* allows for some pairs.  A block holds half of the weight.                 *)
EXTENDS TwoWayFM

MCHypernode == 0 .. 4
MCHyperedge == {"a", "b", "c"}
MCInitPins == [e \in MCHyperedge |->
                 CASE e = "a" -> MCHypernode [] e = "b" -> {0, 2} [] e = "c" -> {1, 2}]
MCInitNumPins == 9
MCInitWeight == [v \in MCHypernode |-> IF v < 2 THEN 1 ELSE 2]
MCInitEdgeWeight == [e \in MCHyperedge |-> CASE e = "a" -> 1 [] e = "b" -> 2 [] e = "c" -> 4]
MCBlock == {0, 1}
MCNoBlock == -1
MCFixed == [v \in MCHypernode |-> IF v = 4 THEN 0 ELSE -1]
MCMaxPartWeight == [b \in MCBlock |-> 4]
=============================================================================
