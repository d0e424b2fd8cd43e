---------------------------- MODULE MCIncidence ----------------------------
(* A small instance of Incidence: four hypernodes, three overlapping nets.  *)
EXTENDS Incidence

MCHypernode == 0 .. 3
MCHyperedge == {"a", "b", "c"}
MCInitPins == [e \in MCHyperedge |->
                 CASE e = "a" -> {0, 1, 2} [] e = "b" -> {1, 2, 3} [] e = "c" -> {0, 3}]
MCInitNumPins == 8
MCInitWeight == [v \in MCHypernode |-> v + 1]
=============================================================================
