---------------------------- MODULE MCMultilevel ----------------------------
(* Four hypergraphs, and the options in combinations.                        *)
EXTENDS Flow

MCHypernode == 1 .. 5
MCHyperedge == 1 .. 5
MCBlock == 0 .. 2
MCNodeOrders(n) == {[i \in 1 .. n |-> i], [i \in 1 .. n |-> n + 1 - i]}

Free == [v \in MCHypernode |-> Unassigned]

Base == [pins |-> <<{1, 2}, {2, 3}, {3, 4, 5}, {1, 5}, {1, 2, 3}>>, netWeight |-> <<6, 7, 8, 9, 3>>,
         weight |-> <<1, 1, 2, 1, 1>>, fixed |-> Free, part |-> Free,
         detect |-> FALSE, edgeWeightType |-> "degree",
         coarsener |-> "lazy", limit |-> 2, sizeThreshold |-> 5, maxNodeWeight |-> 4,
         policy |-> "all", penalty |-> "multiplicative", epsilon |-> 10,
         k |-> 2, objective |-> "km1", maxPartWeight |-> [b \in 0 .. 1 |-> 4],
         perfectWeight |-> [b \in 0 .. 1 |-> 3], refiner |-> "kway", execution |-> "multilevel", beta |-> 1,
         scaling |-> 1600, sizeConstraint |-> "scaled_max_part_weight_fraction_minus_opposite_side",
         timeLimit |-> FALSE, vcycles |-> 0]

Three == [Base EXCEPT !.limit = 4, !.k = 3, !.netWeight = <<12, 14, 16, 18, 6>>,
                      !.maxPartWeight = [b \in 0 .. 2 |-> 4], !.scaling = 100,
                      !.sizeConstraint = "max_part_weight_fraction",
                      !.perfectWeight = [b \in 0 .. 2 |-> 2]]

\* Nets of three pins are not rated.
Small == [Base EXCEPT !.pins = <<{1, 2}, {4, 5}, {1, 2, 3}, {3, 4, 5}, {1, 3, 5}>>, !.sizeThreshold = 2]

MCInputs ==
  {[Base EXCEPT !.coarsener = c, !.penalty = p, !.detect = d] :
     c \in {"lazy", "full", "ml"}, p \in {"none", "multiplicative"}, d \in BOOLEAN}
  \cup {[Base EXCEPT !.coarsener = c, !.fixed = <<0, Unassigned, Unassigned, 1, Unassigned>>,
                     !.policy = p, !.epsilon = e, !.weight = <<1, 2, 2, 1, 1>>, !.limit = 0] :
          c \in {"lazy", "full", "ml"}, p \in {"all", "free_on_fixed", "fixed_on_fixed"}, e \in {0, 100}}
  \cup {[Base EXCEPT !.coarsener = c, !.part = <<0, 0, 1, 1, 1>>] : c \in {"lazy", "full", "ml"}}
  \cup {[Small EXCEPT !.coarsener = c] : c \in {"lazy", "full", "ml"}}
  \cup {[Small EXCEPT !.coarsener = "full", !.sizeThreshold = 5, !.weight = <<1, 2, 2, 1, 1>>, !.limit = 0,
                      !.fixed = <<0, Unassigned, Unassigned, 1, Unassigned>>, !.epsilon = 100]}
  \cup {[Three EXCEPT !.objective = o, !.execution = x] :
          o \in {"km1", "cut"}, x \in {"constant", "exponential"}}
  \cup {[Three EXCEPT !.sizeConstraint = "scaled_max_part_weight_fraction_minus_opposite_side",
                       !.vcycles = 1, !.scaling = 1600],
        [Three EXCEPT !.sizeConstraint = "part_weight_fraction", !.timeLimit = TRUE, !.scaling = 80],
        [Base EXCEPT !.refiner = "twoway", !.vcycles = 1]}
  \cup {[Base EXCEPT !.pins = <<{1, 2}, {1, 3}, {2, 3}, {1, 4}, q[1]>>, !.netWeight = <<1, 1, 1, 1, q[2]>>,
                     !.detect = TRUE, !.edgeWeightType = "uniform"] : q \in {<<{3, 4}, 1>>, <<{1, 2}, 2>>}}

MCInit == input \in MCInputs /\ LouvainInit /\ CoarseningInit /\ FlowInit
MCSpec == MCInit /\ [][Next]_vars
=============================================================================
