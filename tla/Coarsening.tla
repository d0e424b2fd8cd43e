----------------------------- MODULE Coarsening -----------------------------
(***************************************************************************)
(* The three coarseners (partition/coarsening/): which pair of hypernodes  *)
(* is contracted next.  The full coarsener keeps all ratings current, the  *)
(* lazy one marks those that a contraction may have changed and rates them *)
(* again when they come up, the multilevel one visits the hypernodes in    *)
(* passes.                                                                 *)
(*                                                                         *)
(* A contraction and the pruning after it are one step: what the pruner    *)
(* records to undo them is module NLevel, here the stack `levels` keeps    *)
(* what each contraction was applied to.  Ratings are multiples of 1/Unit. *)
(***************************************************************************)
EXTENDS Louvain

VARIABLES phase,     \* "detect", "coarsen", "coarsest" or "aborted", then see Flow
          part,      \* the block of each hypernode
          key,       \* _pq: the rating of the hypernodes in the queue
          target,    \* _target
          flags,     \* full: invalid_hypernodes, lazy: _outdated_rating, ml: _already_matched
          todo,      \* ml: what is left of current_hns
          contracted,  \* ml: has the pass contracted anything?
          levels     \* _history

queue == <<key, target, flags, todo, contracted>>
coarseningVars == <<phase, part, queue, levels>>

I == INSTANCE Incidence WITH InitPins <- [e \in Hyperedge |-> {}], InitNumPins <- 0,
                             InitWeight <- [v \in Hypernode |-> 0], log <- << >>

IsFixed(v) == input.fixed[v] # Unassigned
FreeNodesOf(s) == {v \in s.nodes : ~ IsFixed(v)}
FixedWeight(s, b) == SumOver(s.weight, {v \in s.nodes : input.fixed[v] = b})
FixedTotal(s) == SumOver(s.weight, {v \in s.nodes : IsFixed(v)})
-----------------------------------------------------------------------------
(* The rating (vertex_pair_rater.h and its policies).                        *)

\* max_allowed_fixed_vertex_part_weight
MaxFixedWeight(s) == ((100 + input.epsilon) * ((FixedTotal(s) + input.k - 1) \div input.k)) \div 100

\* acceptFixedVertexImbalance.
KeepsFixedBalanced(s, u, v) ==
  IsFixed(u) /\ ~ IsFixed(v) => FixedWeight(s, input.fixed[u]) + s.weight[v] <= MaxFixedWeight(s)

SameFixedBlock(u, v) == IsFixed(u) /\ IsFixed(v) => input.fixed[u] = input.fixed[v]

\* acceptContraction of the three policies.
Accepts(s, u, v) ==
  /\ KeepsFixedBalanced(s, u, v)
  /\ CASE input.policy = "free_on_fixed"  -> ~ IsFixed(v)
       [] input.policy = "all"            -> (IsFixed(v) => IsFixed(u)) /\ SameFixedBlock(u, v)
       [] input.policy = "fixed_on_fixed" -> IsFixed(u) = IsFixed(v) /\ SameFixedBlock(u, v)

Penalty(a, b) ==
  LET product == IF input.penalty = "multiplicative" THEN a * b ELSE 1
  IN  IF product = 0 THEN Max({a, b, 1}) ELSE product

RatedNets(s, u) == {e \in s.nets[u] : Cardinality(s.pins[e]) <= input.sizeThreshold}
Score(s, w, e) == w[e] * (Unit \div (Cardinality(s.pins[e]) - 1))
Value(s, w, u, v) ==
  LET shared == {e \in RatedNets(s, u) : v \in s.pins[e]}
  IN  Sum([e \in shared |-> Score(s, w, e)]) \div Penalty(s.weight[u], s.weight[v])

Candidates(s, u) ==
  {v \in UNION {s.pins[e] : e \in RatedNets(s, u)} \ {u} :
     /\ s.weight[u] + s.weight[v] <= input.maxNodeWeight
     /\ part[u] = part[v]
     /\ communities[u] = communities[v]
     /\ Accepts(s, u, v)}

\* rate(u): the greatest value, or 0 if there is no partner, and the partners it
\* may be returned with; `matched` are those the multilevel coarsener avoids.
Rating(s, w, u, matched) ==
  LET value == [v \in Candidates(s, u) |-> Value(s, w, u, v)]
      best == Max({value[v] : v \in DOMAIN value} \cup {0})
      winners == {v \in DOMAIN value : value[v] = best /\ best > 0}
  IN  [value |-> best, targets |-> IF winners \ matched # {} THEN winners \ matched ELSE winners]
-----------------------------------------------------------------------------
(* performContraction, with the pruner.                                      *)

WithoutSingleNets(s, u) ==
  FoldSet(LAMBDA e, t : I!Removed(t, e), s, {e \in s.nets[u] : Cardinality(s.pins[e]) = 1})

\* The net that stays for net e of u.
Representative(s, u, e) == Min({f \in s.nets[u] : s.pins[f] = s.pins[e]})
MergedWeights(s, w, u) ==
  [e \in Hyperedge |-> IF e \notin s.nets[u] THEN w[e]
                       ELSE IF Representative(s, u, e) # e THEN w[e]
                       ELSE SumOver(w, {f \in s.nets[u] : Representative(s, u, f) = e})]
WithoutParallelNets(s, u) ==
  FoldSet(LAMBDA e, t : I!Removed(t, e), s, {e \in s.nets[u] : Representative(s, u, e) # e})

PerformContraction(u, v) ==
  LET s == WithoutSingleNets(I!Contracted(hg, u, v), u)
  IN  /\ hg' = WithoutParallelNets(s, u)
      /\ edgeWeight' = MergedWeights(s, edgeWeight, u)
      /\ levels' = Append(levels, [hg |-> hg, edgeWeight |-> edgeWeight, u |-> u, v |-> v])

Neighbours(s, u) == UNION {s.pins[e] : e \in s.nets[u]}
-----------------------------------------------------------------------------
(* The queue of the full and the lazy coarsener.                             *)

\* The queue q after the hypernodes R have been rated again, in the hypergraph s
\* with the weights w: an invalid rating takes a hypernode out, and what is not in
\* the queue (V-cycles) stays outside.
Rate(q, t, R, s, w) ==
  LET rating == [v \in R |-> Rating(s, w, v, {})]
      valid == {v \in R \cap DOMAIN q : rating[v].value > 0}
      choice == FoldSet(LAMBDA v, C : {(v :> x) @@ c : x \in rating[v].targets, c \in C},
                        {<< >>}, valid)
  IN  /\ key' = [v \in (DOMAIN q \ R) \cup valid |-> IF v \in R THEN rating[v].value ELSE q[v]]
      /\ \E c \in choice : target' = [v \in Hypernode |-> IF v \in valid THEN c[v] ELSE t[v]]

Top == {v \in DOMAIN key : \A x \in DOMAIN key : key[x] <= key[v]}
Goes == Cardinality(FreeNodesOf(hg)) > input.limit

BeginCoarsening ==
  /\ phase = "detect"
  /\ louvain \in {"off", "done"}
  /\ louvain = "off" => ~ input.detect
  /\ phase' = "coarsen"
  /\ IF input.coarsener = "ml"
     THEN UNCHANGED <<key, target>>
     ELSE Rate([v \in hg.nodes |-> 0], target, hg.nodes, hg, edgeWeight)
  /\ flags' = IF input.coarsener = "lazy" THEN flags ELSE {}
  /\ todo' = << >> /\ contracted' = TRUE
  /\ UNCHANGED <<hg, edgeWeight, part, levels>>

\* What a contraction with representative u makes outdated.  (The variant leaves
\* out those that are only in nets which contain u since the contraction.)
OutdatedByOldNets(u, s) == UNION {s.pins[e] : e \in s.nets[u] \cap hg.nets[u]}
OutdatedBy(u, s) == Neighbours(s, u)

\* The lazy coarsener: what is on top is rated again, or contracted.
RateTop ==
  /\ phase = "coarsen" /\ Goes
  /\ input.coarsener \in {"lazy", "full"}
  /\ \E u \in Top :
       /\ u \in flags \/ ~ Accepts(hg, u, target[u])
       /\ Rate(key, target, {u}, hg, edgeWeight)
       /\ flags' = IF input.coarsener = "lazy" THEN flags \ {u}
                   ELSE flags \cup ({u} \ DOMAIN key')
  /\ UNCHANGED <<hg, edgeWeight, phase, part, todo, contracted, levels>>

ContractLazily ==
  /\ phase = "coarsen" /\ Goes
  /\ input.coarsener = "lazy"
  /\ \E u \in Top :
       /\ u \notin flags /\ Accepts(hg, u, target[u])
       /\ PerformContraction(u, target[u])
       /\ Rate([v \in DOMAIN key \ {target[u]} |-> key[v]], target, {u}, hg', edgeWeight')
       /\ flags' = (flags \cup OutdatedBy(u, hg')) \ {u}
  /\ UNCHANGED <<phase, part, todo, contracted>>

\* ASSERT(_pq.contains(...)) of the full coarsener, before it takes the target v
\* out of the queue and before it updates the key of a hypernode of R.
QueueContains(v, R) ==
  /\ v \in DOMAIN key
  /\ \A x \in R \ DOMAIN key : Rating(hg', edgeWeight', x, {}).targets = {}

\* The full coarsener rates the representative and, unless they are marked as
\* invalid, its neighbours.  It ends where one of its assertions fails: what
\* the queue does without them is not defined.
ContractFully ==
  /\ phase = "coarsen" /\ Goes
  /\ input.coarsener = "full"
  /\ \E u \in Top :
       LET rerated == {u} \cup (OutdatedBy(u, hg') \ flags)
       IN  /\ Accepts(hg, u, target[u])
           /\ PerformContraction(u, target[u])
           /\ Rate([v \in DOMAIN key \ {target[u]} |-> key[v]], target, rerated, hg', edgeWeight')
           /\ flags' = flags \cup ((rerated \cap DOMAIN key) \ DOMAIN key')
           /\ phase' = IF QueueContains(target[u], rerated) THEN phase ELSE "aborted"
  /\ UNCHANGED <<part, todo, contracted>>
-----------------------------------------------------------------------------
(* The multilevel coarsener.                                                 *)

BeginCoarseningPass ==
  /\ phase = "coarsen" /\ Goes
  /\ input.coarsener = "ml"
  /\ todo = << >> /\ contracted
  /\ \E o \in NodeOrders(Cardinality(hg.nodes)) :
       todo' = [i \in DOMAIN o |-> Ascending(hg.nodes)[o[i]]]
  /\ flags' = {} /\ contracted' = FALSE
  /\ UNCHANGED <<hg, edgeWeight, phase, part, key, target, levels>>

VisitHypernode ==
  LET u == Head(todo)
      partners == IF u \in hg.nodes THEN Rating(hg, edgeWeight, u, flags).targets ELSE {}
  IN  /\ phase = "coarsen" /\ Goes
      /\ todo # << >>
      /\ todo' = Tail(todo)
      /\ IF partners = {}
         THEN UNCHANGED <<hg, edgeWeight, levels, flags, contracted>>
         ELSE \E v \in partners : /\ PerformContraction(u, v)
                                  /\ flags' = flags \cup {u, v}
                                  /\ contracted' = TRUE
      /\ UNCHANGED <<phase, part, key, target>>

EndCoarsening ==
  /\ phase = "coarsen"
  /\ Goes => IF input.coarsener = "ml" THEN todo = << >> /\ ~ contracted ELSE DOMAIN key = {}
  /\ phase' = "coarsest"
  /\ key' = << >> /\ todo' = << >>
  /\ UNCHANGED <<hg, edgeWeight, part, target, flags, contracted, levels>>
-----------------------------------------------------------------------------
CoarseningInit ==
  /\ hg = [nodes |-> Hypernode, edges |-> Hyperedge, pins |-> input.pins,
           cutOff |-> [e \in Hyperedge |-> << >>],
           nets |-> [v \in Hypernode |-> {e \in Hyperedge : v \in input.pins[e]}],
           weight |-> input.weight, numPins |-> Sum([e \in Hyperedge |-> Cardinality(input.pins[e])])]
  /\ edgeWeight = input.netWeight
  /\ part = input.part
  /\ communities = [v \in Hypernode |-> 0]
  /\ phase = "detect"
  /\ key = << >> /\ target = [v \in Hypernode |-> v] /\ flags = {} /\ todo = << >>
  /\ contracted = FALSE /\ levels = << >>

NoneFixed == \A v \in Hypernode : ~ IsFixed(v)
AllNetsRated == \A e \in Hyperedge : Cardinality(input.pins[e]) <= input.sizeThreshold

\* The assertions of the two coarseners about the top of the queue, for all of it:
\* a rating that counts as current is the one the rater would give now, for one
\* of the targets it would give.  "In the presence of fixed vertices the top
\* rating might be outdated": then only of pairs of free hypernodes.
RatingsCurrent ==
  phase = "coarsen" /\ input.coarsener # "ml" =>
    \A u \in DOMAIN key \ flags :
      LET rating == Rating(hg, edgeWeight, u, {})
      IN  \/ IsFixed(u) \/ \E v \in rating.targets : IsFixed(v)
          \/ key[u] = rating.value /\ target[u] \in rating.targets

\* The assertions of the full coarsener about what its queue contains (see
\* QueueContains): every target is in the queue, and so is every hypernode that is
\* rated again and finds a partner.  They hold where hypernodes can only lose
\* partners: without fixed vertices, and if no net is too large to be rated, as nets
\* shrink.  Outside the queue there is then nothing that could be rated.
QueueComplete ==
  input.coarsener = "full" /\ NoneFixed /\ AllNetsRated =>
    /\ phase # "aborted"
    /\ phase = "coarsen" => \A u \in hg.nodes \ DOMAIN key : Rating(hg, edgeWeight, u, {}).targets = {}

\* If no net is too large to be rated, coarsening stops above the contraction
\* limit only if nothing can be contracted any more, although a hypernode never
\* comes back into the queue.
Exhausted ==
  phase = "coarsest" /\ Goes /\ AllNetsRated =>
    \A u \in FreeNodesOf(hg) : Rating(hg, edgeWeight, u, {}).targets = {}

\* The comment in acceptFixedVertexImbalance: if the fixed vertices of the input
\* are balanced, they are after coarsening, whatever has been added to them.
FixedStayBalanced ==
  \A b \in {input.fixed[v] : v \in Hypernode} \ {Unassigned} : FixedWeight(hg, b) <= MaxFixedWeight(hg)

CoarseningExact == RatingsCurrent /\ QueueComplete /\ Exhausted /\ FixedStayBalanced
=============================================================================
