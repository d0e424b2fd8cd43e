---------------------------- MODULE MCBisection ----------------------------
(***************************************************************************)
(* Instances of RecursiveBisection and FixedVertices for TLC.              *)
(***************************************************************************)
EXTENDS FixedVertices

\* Hypernodes of different weights in four nets, two of them of size 3.
Instance(k, w, fixed, objective, early, late, heuristic, maxPart) ==
  [k |-> k, objective |-> objective, early |-> early, late |-> late, heuristic |-> heuristic,
   individual |-> maxPart # << >>,
   maxPart |-> [b \in 0 .. k - 1 |-> IF maxPart # << >> THEN maxPart[b + 1]
                ELSE (Ceil(SumFunction(w), k) * (EpsDen + EpsNum)) \div EpsDen],
   h |-> [weight |-> w, pins |-> << {1, 2, 3}, {2, 4}, {1, 4, 5}, {3, 5} >>, netWeight |-> << 1, 2, 5, 8 >>,
          fixed |-> fixed]]

NoFixed == [v \in 1 .. 5 |-> Unassigned]

MCInputs ==
  {Instance(4, << 8, 5, 4, 4, 3 >>, NoFixed, objective, FALSE, FALSE, FALSE, << >>) : objective \in {"km1", "cut"}}
  \cup {Instance(3, << 4, 3, 2, 2, 1 >>, NoFixed, "km1", options[1], options[2], options[3], << >>) :
          options \in BOOLEAN \X BOOLEAN \X BOOLEAN}
  \cup {Instance(3, << 4, 3, 2, 2, 1 >>, NoFixed, "cut", TRUE, TRUE, TRUE, << 6, 4, 4 >>),
        Instance(3, << 2, 2, 2, 3, 1 >>, [NoFixed EXCEPT ![4] = 1], "km1", TRUE, TRUE, FALSE, << >>)}
  \cup {Instance(3, << 2, 1, 2, 1, 1 >>, [NoFixed EXCEPT ![3] = b, ![4] = 1], objective, FALSE, FALSE, FALSE, << 3, 5, 2 >>) :
          objective \in {"km1", "cut"}, b \in {0, 2}}
  \cup {Instance(3, << 2, 1, 2, 1, 1 >>, [NoFixed EXCEPT ![4] = 1, ![5] = 1], "km1", FALSE, FALSE, FALSE, << 5, 5, 5 >>)}
  \* without prepacking, a balanced bisection of these need not be deeply balanced
  \cup {Instance(3, << 25, 25, 10, 10, 10 >>, NoFixed, "km1", TRUE, FALSE, heuristic, << >>) : heuristic \in BOOLEAN}
=============================================================================
