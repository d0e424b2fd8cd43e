------------------------- MODULE RecursiveBisection -------------------------
(***************************************************************************)
(* Recursive bisection (kahypar/partition/recursive_bisection.h), with the *)
(* repetitions of multilevel::partitionRepeatedOnInfeasible.               *)
(*                                                                         *)
(* A stack of hypergraphs to bisect; each is extracted from a block of the *)
(* one below it, and a stack of vectors maps its hypernodes back.  The     *)
(* hypergraph at the bottom of the stack is the input without its fixed    *)
(* vertices, and leaves write their block numbers into the partition of    *)
(* that very hypergraph, while its block 0 is still to be extracted.       *)
(*                                                                         *)
(* The multilevel algorithm may end with any bisection that leaves the     *)
(* prepacked hypernodes in their blocks.  Weights are integers; the roots  *)
(* and quotients that the code computes in floating point are exact here.  *)
(***************************************************************************)
EXTENDS Extraction, BinPacking

CONSTANTS Inputs,          \* the inputs, see InputType
          EpsNum, EpsDen   \* context.partition.epsilon

ASSUME EpsAssumption == EpsNum \in Nat \ {0} /\ EpsDen \in Nat \ {0}

VARIABLES input,      \* the input hypergraph, k, objective and options
          part,       \* the partition of the input without fixed vertices
          stack,      \* hypergraph_stack
          mappings,   \* mapping_stack
          bisected    \* for the properties: the last bisection of each range of blocks

rbVars == <<input, part, stack, mappings, bisected>>

Ceil(x, y) == (x + y - 1) \div y
Blocks == 0 .. input.k - 1
Free == WithoutFixedVertices(input.h)[1]
FreeToInput == WithoutFixedVertices(input.h)[2]
HasFixed == FixedVertices(input.h) # {}
FixedWeight(b) == SumFunctionOnSet(input.h.weight, {v \in NodesOf(input.h) : input.h.fixed[v] = b})
\* max_part_weights of rb_context
MaxPart(b) == input.maxPart[b] - FixedWeight(b)
Individual == input.individual \/ HasFixed
RestartIfImbalanced == input.early \/ input.late
-----------------------------------------------------------------------------
(***************************************************************************)
(* createCurrentBisectionContext.                                          *)
(***************************************************************************)
CeilLog2(k) == CHOOSE c \in 0 .. k : 2 ^ c >= k /\ (c > 0 => 2 ^ (c - 1) < k)

\* (1 + epsilon) * x, where 1 + epsilon is the c-th root of num / den, bounded
\* by 1 and 1.99
Scaled(x, num, den, k) ==
  LET c == CeilLog2(k)
      inBounds == {y \in x .. (199 * x) \div 100 : y ^ c * den <= num * x ^ c}
  IN  Max({x} \cup inBounds)

\* max_part_weights of a block with `perfect` weight, for a hypergraph of weight W
\* that k blocks of an input share, whose blocks have `average` weight.  (The
\* variant allows the epsilon of the input whatever it left to this hypergraph.)
RelaxedAnew(perfect, average, W, k) == Scaled(perfect, EpsDen + EpsNum, EpsDen, k)
Relaxed(perfect, average, W, k) ==
  Scaled(perfect, average * (EpsDen + EpsNum), Max({1, Ceil(W, k)}) * EpsDen, k)

\* diff_to_max: what each bin has too much if the total allowed is reduced to
\* (1 + epsilon) times the weight there is
DiffToMax(allowed, weight, k) ==
  LET c == CeilLog2(k)
      Suffices(y) == \/ 100 * y >= 199 * weight
                     \/ y >= weight /\ y ^ c >= allowed * weight ^ (c - 1)
  IN  Max({d \in -weight .. allowed : Suffices(allowed - k * d)})

\* Integer division, which rounds toward zero.
Quotient(a, b) == IF a < 0 THEN -((-a) \div b) ELSE a \div b

\* The fields of the context for the bisection of hypergraph h into the blocks
\* lower .. upper (limits: max_part_weights).
BisectionContext(h, lower, upper) ==
  LET k == upper - lower + 1
      km == k \div 2
      bins == << km, k - km >>
      W == TotalWeight(h)
      blocksOf(i) == IF i = 1 THEN lower .. lower + km - 1 ELSE lower + km .. upper
      allowed == [i \in 1 .. 2 |-> SumFunctionOnSet([b \in Blocks |-> MaxPart(b)], blocksOf(i))]
      total == allowed[1] + allowed[2]
      toPerfect == Quotient(total - W, k)
      toMax == DiffToMax(total, W, k)
      average == Ceil(TotalWeight(Free), input.k)
      \* the packing of the bins as it would be now
      perfectBins == [j \in 1 .. k |-> IF Individual THEN MaxPart(lower + j - 1) - toPerfect ELSE Ceil(W, k)]
      maxPart == IF Individual THEN Max({MaxPart(b) : b \in lower .. upper})
                 ELSE (average * (EpsDen + EpsNum)) \div EpsDen
      currentBin == Largest(perfectBins) + CurrentBinImbalance(h.weight, perfectBins)
      maxBin == Scaled(currentBin, maxPart, currentBin, k)
      perfect == [i \in 1 .. 2 |-> IF Individual THEN allowed[i] - bins[i] * toPerfect ELSE Ceil(bins[i] * W, k)]
      limits == [i \in 1 .. 2 |-> IF Individual THEN allowed[i] - bins[i] * toMax
                                  ELSE Relaxed(perfect[i], average, W, k)]
  IN  [bins       |-> bins,
       perfect    |-> perfect,
       limits     |-> limits,
       upper      |-> IF Individual THEN perfect ELSE limits,
       individual |-> Individual,
       currentBin |-> currentBin,
       maxBin     |-> maxBin,
       maxBins    |-> [j \in 1 .. k |-> MaxPart(lower + j - 1) - (maxPart - maxBin)]]

-----------------------------------------------------------------------------
(***************************************************************************)
(* The stack.                                                              *)
(***************************************************************************)
Top == Last(stack)
NumBlocks(f) == f.upper - f.lower + 1
AtTop(f) == [stack EXCEPT ![Len(stack)] = f]
MaxBinWeights(f) == [j \in 1 .. NumBlocks(f) |-> MaxPart(f.lower + j - 1)]

\* RBState's constructor.  `ctx`, `tried` and `packed` are the context, the level
\* and the prepacking of the bisection in progress; its states between
\* unpartitioned and partitionedAndPart1Extracted are "setUp" and "prepacked".
Frame(h, lower, upper) ==
  [hg |-> h, part |-> [v \in NodesOf(h) |-> Unassigned], state |-> "unpartitioned", level |-> "none",
   feasible |-> TRUE, lower |-> lower, upper |-> upper, ctx |-> << >>, tried |-> "none", packed |-> << >>]

\* The partition of the top hypergraph: that of the bottom is `part`.
PartOfTop == IF Len(stack) = 1 THEN part ELSE Top.part

\* originalHypernode.
OriginalHypernode(v) == FoldLeft(LAMBDA u, m : m[u], v, Reverse(mappings))

Init ==
  /\ input \in Inputs
  /\ part = [v \in NodesOf(Free) |-> Unassigned]
  /\ stack = << Frame(Free, 0, input.k - 1) >>
  /\ mappings = << >>
  /\ bisected = << >>

IsLeaf(f) == f.lower = f.upper

\* A range of one block: its hypernodes get the block in the input.
Leaf ==
  /\ stack # << >>
  /\ IsLeaf(Top)
  /\ LET mine == {OriginalHypernode(v) : v \in NodesOf(Top.hg)}
     IN  part' = [v \in DOMAIN part |-> IF v \in mine THEN Top.lower ELSE part[v]]
  /\ stack' = Front(stack)
  /\ mappings' = Front(mappings)
  /\ UNCHANGED <<input, bisected>>

\* Whether partitionRepeatedOnInfeasible is called instead of partition.
Repeats(f) == NodesOf(f.hg) # {} /\ RestartIfImbalanced /\ NumBlocks(f) > 2
Feasible(f) == CurrentBinImbalance(f.hg.weight, MaxBinWeights(f)) <= 0

InState(state) == stack # << >> /\ ~ IsLeaf(Top) /\ Top.state = state

\* A bisection begins with its context.
CreateContext ==
  /\ InState("unpartitioned")
  /\ stack' = AtTop([Top EXCEPT !.state = "setUp", !.tried = Top.level,
                                !.ctx = BisectionContext(Top.hg, Top.lower, Top.upper),
                                !.feasible = IF Repeats(Top) THEN Feasible(Top) ELSE @])
  /\ UNCHANGED <<input, part, mappings, bisected>>

Prepack ==
  /\ InState("setUp")
  /\ stack' = AtTop([Top EXCEPT !.state = "prepacked",
                                !.packed = IF Repeats(Top) THEN Prepacked(Top.hg.weight, Top.ctx, Top.tried)
                                           ELSE [v \in NodesOf(Top.hg) |-> 0]])
  /\ UNCHANGED <<input, part, mappings, bisected>>

\* What the multilevel algorithm may return: prepacked hypernodes are fixed.
Bisections(f) ==
  {q \in [NodesOf(f.hg) -> {0, 1}] : \A v \in NodesOf(f.hg) : f.packed[v] # 0 => q[v] = f.packed[v] - 1}

\* It is repeated at the next level of prepacking if its blocks cannot be
\* packed into their bins.
RepeatsAgain(f, q) ==
  /\ Repeats(f) /\ input.early /\ f.feasible
  /\ NextLevel(f.tried, input.heuristic) # "STOP"
  /\ ~ DeeplyBalanced(f.hg.weight, [v \in DOMAIN q |-> q[v] + 1], f.ctx.bins, MaxBinWeights(f))

Retry ==
  /\ InState("prepacked")
  /\ \E q \in Bisections(Top) : RepeatsAgain(Top, q)
  /\ stack' = AtTop([Top EXCEPT !.state = "setUp", !.tried = NextLevel(@, input.heuristic)])
  /\ UNCHANGED <<input, part, mappings, bisected>>

Bisection(f, q) ==
  [cut |-> Objective(f.hg, q, input.objective),
   within |-> \A i \in 1 .. 2 : BlockWeight(f.hg, q, i - 1) <= f.ctx.limits[i]]

\* Block b (0 or 1) of the top hypergraph, partitioned by q, goes on the stacks.
Pushed(f, q, b) ==
  LET km == NumBlocks(f) \div 2
      lower == IF b = 0 THEN f.lower ELSE f.lower + km
      upper == IF b = 0 THEN f.lower + km - 1 ELSE f.upper
  IN  Append(AtTop([f EXCEPT !.part = IF Len(stack) = 1 THEN @ ELSE q,
                             !.state = IF @ = "part1Extracted" THEN "finished" ELSE "part1Extracted",
                             !.ctx = << >>, !.packed = << >>]),
             Frame(ExtractedPart(f.hg, q, b, input.objective)[1], lower, upper))

Accepted(q) ==
  /\ part' = IF Len(stack) = 1 THEN q ELSE part
  /\ bisected' = [r \in DOMAIN bisected \cup {<<Top.lower, Top.upper>>} |->
                    IF r = <<Top.lower, Top.upper>> THEN Bisection(Top, q) ELSE bisected[r]]
  /\ UNCHANGED input

\* The bisection is accepted and block 1 of it extracted.
Bisect ==
  /\ InState("prepacked")
  /\ \E q \in Bisections(Top) :
       /\ ~ RepeatsAgain(Top, q)
       /\ Accepted(q)
       /\ stack' = Pushed(Top, q, 1)
       /\ mappings' = Append(mappings, ExtractedPart(Top.hg, q, 1, input.objective)[2])

\* The other block is extracted from what the partition is by now.
ExtractPart0 ==
  /\ InState("part1Extracted")
  /\ stack' = Pushed(Top, PartOfTop, 0)
  /\ mappings' = Append(mappings, ExtractedPart(Top.hg, PartOfTop, 0, input.objective)[2])
  /\ UNCHANGED <<input, part, bisected>>

\* The block weights of the late restart are those of the input hypergraph,
\* which has no partition yet if fixed vertices were removed from it.
LateImbalance(f) ==
  \E b \in f.lower .. f.upper : ~ HasFixed /\ BlockWeight(Free, part, b) > MaxPart(b)

ConsidersLateRestart(f) == input.late /\ NumBlocks(f) > 2

\* (The variant forgets to raise the level.)
RaisedLevelForgotten(f) == f.level
RaisedLevel(f) == IF ConsidersLateRestart(f) THEN NextLevel(f.level, input.heuristic) ELSE f.level

LateRestarts(f) ==
  /\ ConsidersLateRestart(f)
  /\ LateImbalance(f)
  /\ f.feasible
  /\ RaisedLevel(f) # "STOP"

LateRestart ==
  /\ InState("finished")
  /\ LateRestarts(Top)
  /\ stack' = AtTop([Top EXCEPT !.state = "unpartitioned", !.level = RaisedLevel(Top),
                                !.part = [v \in DOMAIN @ |-> Unassigned]])
  /\ part' = IF Len(stack) = 1 THEN [v \in DOMAIN part |-> Unassigned] ELSE part
  /\ UNCHANGED <<input, mappings, bisected>>

Finish ==
  /\ InState("finished")
  /\ ~ LateRestarts(Top)
  /\ stack' = Front(stack)
  /\ mappings' = IF mappings = << >> THEN << >> ELSE Front(mappings)
  /\ UNCHANGED <<input, part, bisected>>

Done == stack = << >>

Next == \/ Leaf \/ CreateContext \/ Prepack \/ Retry \/ Bisect \/ ExtractPart0
        \/ LateRestart \/ Finish

Spec == Init /\ [][Next]_rbVars
-----------------------------------------------------------------------------
(***************************************************************************)
(* The objective of the final partition is the sum of those of the         *)
(* bisections it was made of: no net is lost, counted twice or charged to  *)
(* the wrong hypernodes by the extractions, the renumberings and the       *)
(* restarts (recursive_bisection.h:354-458).                               *)
(***************************************************************************)
ObjectiveAdds ==
  Done => Objective(Free, part, input.objective) = SumFunction([r \in DOMAIN bisected |-> bisected[r].cut])

(***************************************************************************)
(* The weight limits of the bisections are tight enough: if every last     *)
(* bisection respected its own, no block exceeds its limit.  (A hypergraph *)
(* heavier than all blocks together has no balanced partition.)            *)
(***************************************************************************)
BalancedBisectionsSuffice ==
  /\ Done
  /\ TotalWeight(Free) <= SumFunction([b \in Blocks |-> MaxPart(b)])
  /\ \A r \in DOMAIN bisected : bisected[r].within
  => \A b \in Blocks : BlockWeight(Free, part, b) <= MaxPart(b)

(***************************************************************************)
(* The guarantee of the exact prepacking (prepacking.h): every bisection   *)
(* that leaves the prepacked hypernodes alone and stays below the weights  *)
(* it was computed for can be packed into the bins of its blocks.          *)
(***************************************************************************)
PrepackingGuarantee ==
  (InState("prepacked") /\ Repeats(Top) /\ Top.tried = "guaranteed") =>
    LET ctx == Top.ctx
        fill(b) == IF ctx.individual THEN ctx.maxBin - ctx.maxBins[b] ELSE 0
        filled == [b \in 1 .. NumBlocks(Top) |-> fill(b)]
        upper == AdjustedUpper(ctx)
    IN  \A q \in Bisections(Top) :
          (\A i \in 1 .. 2 : BlockWeight(Top.hg, q, i - 1) + SumFunctionOnSet(filled, BinRange(ctx.bins, i)) <= upper[i])
          => DeeplyBalanced(Top.hg.weight, [v \in DOMAIN q |-> q[v] + 1], ctx.bins,
                            [b \in DOMAIN filled |-> ctx.maxBin - filled[b]])

\* Both: what the bisections are told keeps the blocks within their limits.
BalanceGuaranteed == BalancedBisectionsSuffice /\ PrepackingGuarantee

(***************************************************************************)
(* Recursive bisection ends, whatever is restarted early or late           *)
(* (multilevel.h:145-167, recursive_bisection.h:300-326): every step makes *)
(* the work that can still be left less.  Cost bounds the steps that a     *)
(* range of k blocks takes, Round those between two late restarts.         *)
(***************************************************************************)
LevelsLeft(level) == CASE level = "none" -> 3 [] level = "heuristic" -> 2 [] level = "guaranteed" -> 1 [] OTHER -> 0
Cost[k \in 1 .. 8] == IF k = 1 THEN 1 ELSE 3 * (9 + Cost[k \div 2] + Cost[k - k \div 2])
Round(k) == Cost[k] \div 3
WorkLeft(f) ==
  LET k == NumBlocks(f)
      both == Cost[k \div 2] + Cost[k - k \div 2]
  IN  IF k = 1 THEN 1
      ELSE (LevelsLeft(f.level) - 1) * Round(k)
           + CASE f.state = "unpartitioned" -> Round(k)
               [] f.state = "setUp" -> 2 * LevelsLeft(f.tried) + 2 + both
               [] f.state = "prepacked" -> 2 * LevelsLeft(f.tried) + 1 + both
               [] f.state = "part1Extracted" -> 2 + Cost[k \div 2]
               [] f.state = "finished" -> 1
AllWork == SumFunction([i \in DOMAIN stack |-> WorkLeft(stack[i])])

WorkDecreases == stack' # stack => AllWork' < AllWork

=============================================================================
