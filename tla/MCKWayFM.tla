------------------------------ MODULE MCKWayFM ------------------------------
(* Five hypernodes and three blocks; the last hypernode is fixed.  Net "a"   *)
(* is so large that a move may meet unremovable blocks on both sides; only   *)
(* hypernodes 0 and 1 are light enough to be contracted.                     *)
EXTENDS KWayFMCut

CONSTANTS b0, b1, b2

MCHypernode == 0 .. 4
MCHyperedge == {"a", "b", "c"}
MCInitPins == [e \in MCHyperedge |->
                 CASE e = "a" -> MCHypernode [] e = "b" -> {0, 2} [] e = "c" -> {1, 2, 3}]
MCInitNumPins == 10
MCInitWeight == [v \in MCHypernode |-> IF v < 2 THEN 1 ELSE 2]
MCInitEdgeWeight == [e \in MCHyperedge |-> CASE e = "a" -> 1 [] e = "b" -> 2 [] e = "c" -> 4]
MCBlock == {b0, b1, b2}
\* No hypernode is fixed to b1 or b2, and they have the same limits.
MCSymmetry == Permutations({b1, b2})
MCFixed == [v \in MCHypernode |-> IF v = 4 THEN b0 ELSE NoBlock]
MCMaxPartWeight == [b \in MCBlock |-> 4]
MCPerfectWeight == [b \in MCBlock |-> 3]
=============================================================================
