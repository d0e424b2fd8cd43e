------------------------------ MODULE MCNLevel ------------------------------
(* Four hypernodes and three nets of weight 1, 2 and 4, chosen such that     *)
(* contractions make single-pin and parallel nets; two blocks;               *)
(* two hypernodes fixed to the first block, or none.                         *)
EXTENDS NLevel

MCHypernode == 0 .. 3
MCHyperedge == {"a", "b", "c"}
MCInitPins == [e \in MCHyperedge |->
                 CASE e = "a" -> {0, 1, 2} [] e = "b" -> {1, 2, 3} [] e = "c" -> {0, 3}]
MCInitNumPins == 8
MCInitWeight == [v \in MCHypernode |-> v + 1]
MCInitEdgeWeight == [e \in MCHyperedge |-> CASE e = "a" -> 1 [] e = "b" -> 2 [] e = "c" -> 4]
MCBlock == {0, 1}
MCNoBlock == -1
MCFree == [v \in MCHypernode |-> -1]
MCFixed == [v \in MCHypernode |-> IF v \in {0, 2} THEN 0 ELSE -1]
=============================================================================
