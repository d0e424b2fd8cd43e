---------------------------- MODULE MCHypergraph ----------------------------
(* Four hypernodes, three nets that share pins, two blocks; two of the four  *)
(* hypernodes fixed to the first block, or none.                             *)
EXTENDS Hypergraph

MCHypernode == 0 .. 3
MCHyperedge == {"a", "b", "c"}
MCInitPins == [e \in MCHyperedge |->
                 CASE e = "a" -> {0, 1, 2} [] e = "b" -> {1, 2, 3} [] e = "c" -> {0, 3}]
MCInitNumPins == 8
MCInitWeight == [v \in MCHypernode |-> v + 1]
MCBlock == {0, 1}
MCFree == [v \in MCHypernode |-> -1]
MCFixed == [v \in MCHypernode |-> IF v \in {0, 2} THEN 0 ELSE -1]
MCNoBlock == -1
=============================================================================
