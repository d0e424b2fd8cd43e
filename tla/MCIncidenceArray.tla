-------------------------- MODULE MCIncidenceArray --------------------------
(* Four hypernodes and two nets.  The first pin of the second net is a pin   *)
(* of the first net as well, so that a peek beyond the stretch of the first  *)
(* net may see it.  The last hypernode is in neither net, so that it gets    *)
(* both, one behind the other, when a pin of both is contracted into it.     *)
EXTENDS IncidenceArray

MCInitPinList == << <<0, 1, 2>>, <<1, 2>> >>
MCInitWeight == [v \in 0 .. 3 |-> v + 1]
=============================================================================
