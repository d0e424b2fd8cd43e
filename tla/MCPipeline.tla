----------------------------- MODULE MCPipeline -----------------------------
(***************************************************************************)
(* Instances of Evolution, with Pipeline, for TLC.                         *)
(***************************************************************************)
EXTENDS Evolution

Nodes == 1 .. 5
Nets == 1 .. 5

NoFixed == [v \in Nodes |-> Unassigned]

\* Hypernodes 3, 4 and 5 are identical; then the nets 1 and 2 are parallel, net 4
\* has one pin, and with the least threshold net 5 is large.
Base ==
  [pins |-> << {1, 3, 4, 5}, {1, 3, 4, 5}, {1, 2}, {2}, {1, 2, 3, 4, 5} >>, netWeight |-> << 1, 2, 4, 1, 8 >>,
   weight |-> << 2, 1, 1, 1, 2 >>, fixed |-> NoFixed, part |-> NoFixed, k |-> 2, objective |-> "km1", mode |-> "direct_kway",
   deduplicate |-> TRUE, sparsifier |-> FALSE, minMedian |-> 2, largeFactor |-> 0, smallestThreshold |-> 2,
   largeForCommunities |-> 3, detect |-> TRUE, evolutionary |-> FALSE, repeated |-> FALSE,
   maxPart |-> 5, replace |-> "worst"]

\* No two hypernodes are identical, and some nets become parallel by sparsification.
Sparse == [Base EXCEPT !.pins = << {1, 2, 3}, {1, 2, 4}, {3, 4, 5}, {5}, {2, 5} >>, !.sparsifier = TRUE,
                       !.smallestThreshold = 4, !.weight = << 1, 2, 1, 1, 1 >>]

MCInputs ==
  {Base, [Base EXCEPT !.objective = "cut", !.k = 3, !.detect = FALSE],
   [Base EXCEPT !.repeated = TRUE, !.part = << 0, 1, 1, 1, 1 >>, !.mode = "direct_kway", !.deduplicate = FALSE, !.pins = Sparse.pins] }
  \cup {[Base EXCEPT !.repeated = ~ e, !.evolutionary = e] : e \in BOOLEAN}
  \cup {[Sparse EXCEPT !.deduplicate = d, !.mode = "recursive_bisection"] : d \in BOOLEAN}
  \cup {[Sparse EXCEPT !.repeated = ~ e, !.deduplicate = FALSE, !.evolutionary = e,
                       !.fixed = << 0, 1, Unassigned, 1, Unassigned >>] : e \in BOOLEAN}
  \* no net is put aside, and balance matters: the other ways to replace individuals
  \cup {[Base EXCEPT !.evolutionary = TRUE, !.smallestThreshold = 5, !.maxPart = 4, !.replace = r] :
          r \in {"diverse", "strong_diverse"}}

=============================================================================
