----------------------- MODULE MCInitialPartitioning -----------------------
(***************************************************************************)
(* Instances of InitialPartitioning for TLC.                               *)
(***************************************************************************)
EXTENDS InitialPartitioning

\* Five hypernodes, one of them disabled, and nets of sizes 2 and 3.
Outer(w, fixed) ==
  [weight |-> w, pins |-> << {1, 3}, {1, 3, 4}, {4, 5}, {2, 5}, {3, 4, 5} >>, netWeight |-> << 2, 1, 1, 1, 3 >>,
   fixed |-> fixed]
NoFixed == [v \in 1 .. 5 |-> Unassigned]

Default ==
  [outer |-> Outer(<< 1, 1, 2, 1, 1 >>, NoFixed), enabledNodes |-> {1, 3, 4, 5}, enabledNets |-> {1, 2, 3, 5},
   k |-> 2, objective |-> "cut", threshold |-> 3, individual |-> FALSE, perfect |-> [b \in 0 .. 1 |-> 3],
   bins |-> << 1, 2 >>, maxBins |-> << 2, 2, 2 >>, gain |-> "fm", selection |-> "global",
   algorithms |-> << "greedy" >>, nruns |-> 1, pool |-> FALSE, refines |-> FALSE,
   lpAssign |-> 1, lpMaxIterations |-> 2]

ThreeBlocks == [Default EXCEPT !.k = 3, !.perfect = [b \in 0 .. 2 |-> 2], !.objective = "km1"]
Fixed3 == Outer(<< 1, 1, 2, 1, 1 >>, [NoFixed EXCEPT ![3] = 0])

MCInputs ==
  {[i EXCEPT !.gain = gain, !.selection = selection] :
     i \in {Default, ThreeBlocks, [ThreeBlocks EXCEPT !.outer = Fixed3]},
     gain \in {"fm", "max_net", "max_pin"}, selection \in {"round_robin", "global", "sequential"}}
  \cup {[i EXCEPT !.algorithms = << algorithm >>, !.threshold = size] :
          i \in {Default, ThreeBlocks, [ThreeBlocks EXCEPT !.outer = Fixed3]}, size \in {2, 3},
          algorithm \in {"bfs", "lp"}}
  \cup {[i EXCEPT !.algorithms = << "bin_packing", "random" >>, !.nruns = 2, !.pool = TRUE] :
          i \in {Default, [Default EXCEPT !.outer = Fixed3, !.individual = TRUE]}}
  \cup {[Default EXCEPT !.algorithms = << "lp", "random" >>, !.pool = TRUE, !.refines = TRUE]}
=============================================================================
