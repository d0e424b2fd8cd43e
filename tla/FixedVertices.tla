--------------------------- MODULE FixedVertices ---------------------------
(***************************************************************************)
(* Fixed vertices (kahypar/partition/fixed_vertices.h).  Recursive         *)
(* bisection leaves them out; when it is done, the blocks it found are     *)
(* renumbered, such that the fixed vertices, which now join their blocks,  *)
(* add as little as possible to the objective: a maximum weighted matching *)
(* of fixed blocks (rows) to free blocks (columns), by the Hungarian       *)
(* method.                                                                 *)
(***************************************************************************)
EXTENDS RecursiveBisection

VARIABLES assigned,   \* the partition of the input
          matcher     \* the state of the matching, see NoMatcher

fvVars == <<assigned, matcher>>
vars == <<rbVars, fvVars>>

\* label and colabel: the weighted cover u, v
NoMatcher == [phase |-> "none", graph |-> << >>, label |-> << >>, colabel |-> << >>, matching |-> {}]
FixedIn(b) == {v \in FixedVertices(input.h) : input.h.fixed[v] = b}
FixedPart == [v \in NodesOf(input.h) |-> input.h.fixed[v]]

\* The blocks of a net that fixed vertices will add.
FixedConnectivity(e) == {input.h.fixed[v] : v \in input.h.pins[e] \cap FixedVertices(input.h)}

\* setupWeightedBipartiteMatchingGraph: what is saved if fixed block i gets the
\* free block j.  (The variant counts a net once for each of its fixed vertices.)
SavedPerVertex(p, i, j) ==
  LET counts(e) == /\ j \in ConnectivitySet(input.h, p, e)
                   /\ input.objective = "cut" => /\ Cardinality(ConnectivitySet(input.h, p, e)) = 1
                                                 /\ Cardinality(FixedConnectivity(e)) = 1
  IN  SumFunction([e \in EdgesOf(input.h) |->
        IF counts(e) THEN input.h.netWeight[e] * Cardinality(input.h.pins[e] \cap FixedIn(i)) ELSE 0])

Saved(p, i, j) ==
  LET counts(e) == /\ i \in FixedConnectivity(e) /\ j \in ConnectivitySet(input.h, p, e)
                   /\ input.objective = "cut" => /\ Cardinality(ConnectivitySet(input.h, p, e)) = 1
                                                 /\ Cardinality(FixedConnectivity(e)) = 1
  IN  SumFunctionOnSet(input.h.netWeight, {e \in EdgesOf(input.h) : counts(e)})

\* Block j is too heavy for the fixed vertices of i.
TooHeavy(p, i, j) == FixedWeight(i) + BlockWeight(input.h, p, j) > input.maxPart[i]

MatchingGraph(p) ==
  [i \in Blocks |-> [j \in Blocks |-> IF TooHeavy(p, i, j) THEN -Sum(input.h.netWeight) ELSE Saved(p, i, j)]]

FVInit == Init /\ assigned = << >> /\ matcher = NoMatcher

\* After the bisections: the free vertices are assigned, and every row is
\* covered by its largest entry.
SetUpMatching ==
  /\ Done
  /\ matcher.phase = "none"
  /\ HasFixed
  /\ LET p == [v \in NodesOf(input.h) |->
                 IF v \in Range(FreeToInput) THEN part[CHOOSE u \in DOMAIN FreeToInput : FreeToInput[u] = v] ELSE Unassigned]
         graph == MatchingGraph(p)
     IN  /\ assigned' = p
         /\ matcher' = [phase |-> "matching", graph |-> graph,
                        label |-> [i \in Blocks |-> Max(Range(graph[i]))],
                        colabel |-> [j \in Blocks |-> 0],
                        matching |-> {}]
  /\ UNCHANGED rbVars

\* construct_matching_graph: the edges that the cover just covers
Tight == {e \in Blocks \X Blocks : matcher.label[e[1]] + matcher.colabel[e[2]] = matcher.graph[e[1]][e[2]]}
Rows(M) == {e[1] : e \in M}
Columns(M) == {e[2] : e \in M}
IsMatching(M) == Cardinality(Rows(M)) = Cardinality(M) /\ Cardinality(Columns(M)) = Cardinality(M)

\* augment: what a flow along a path from the source to the sink makes of the
\* matching; matched blocks stay matched.
Augmented(M) ==
  {N \in SUBSET Tight : /\ Cardinality(N) = Cardinality(M) + 1
                        /\ IsMatching(N)
                        /\ Rows(M) \subseteq Rows(N) /\ Columns(M) \subseteq Columns(N)}

Augment ==
  /\ matcher.phase = "matching"
  /\ \E N \in Augmented(matcher.matching) : matcher' = [matcher EXCEPT !.matching = N]
  /\ UNCHANGED <<rbVars, assigned>>

\* findMinimumBipartiteVertexCover: the rows reachable from unmatched rows over
\* paths that alternate between edges outside and inside the matching
ReachedColumns(rows) == {j \in Blocks : \E i \in rows : <<i, j>> \in Tight \ matcher.matching}
ReachedRows ==
  LET grow(rows) == rows \cup {e[1] : e \in {e \in matcher.matching : e[2] \in ReachedColumns(rows)}}
  IN  FoldSet(LAMBDA i, rows : grow(rows), Blocks \ Rows(matcher.matching), Blocks)

\* The cover is relaxed by the smallest excess outside the vertex cover.
MinExcess ==
  Min({matcher.label[i] + matcher.colabel[j] - matcher.graph[i][j] :
         i \in ReachedRows, j \in Blocks \ ReachedColumns(ReachedRows)})

AdjustCover ==
  /\ matcher.phase = "matching"
  /\ Cardinality(matcher.matching) < input.k
  /\ Augmented(matcher.matching) = {}
  /\ matcher' = [matcher EXCEPT
       !.label = [i \in Blocks |-> IF i \in ReachedRows THEN @[i] - MinExcess ELSE @[i]],
       !.colabel = [j \in Blocks |-> IF j \in ReachedColumns(ReachedRows) THEN @[j] + MinExcess ELSE @[j]],
       !.matching = {}]
  /\ UNCHANGED <<rbVars, assigned>>

\* A perfect matching renumbers the blocks.
Permuted(p, M) ==
  [v \in DOMAIN p |-> IF input.h.fixed[v] # Unassigned THEN input.h.fixed[v]
                      ELSE (CHOOSE e \in M : e[2] = p[v])[1]]

ApplyMatching ==
  /\ matcher.phase = "matching"
  /\ Cardinality(matcher.matching) = input.k
  /\ assigned' = Permuted(assigned, matcher.matching)
  /\ matcher' = [matcher EXCEPT !.phase = "done"]
  /\ UNCHANGED rbVars

Ended == Done /\ (HasFixed => matcher.phase = "done")

FVNext == \/ Leaf /\ UNCHANGED fvVars
          \/ CreateContext /\ UNCHANGED fvVars
          \/ Prepack /\ UNCHANGED fvVars
          \/ Retry /\ UNCHANGED fvVars
          \/ Bisect /\ UNCHANGED fvVars
          \/ ExtractPart0 /\ UNCHANGED fvVars
          \/ LateRestart /\ UNCHANGED fvVars
          \/ Finish /\ UNCHANGED fvVars
          \/ SetUpMatching \/ Augment \/ AdjustCover \/ ApplyMatching
          \/ Ended /\ UNCHANGED vars

FVSpec == FVInit /\ [][FVNext]_vars
-----------------------------------------------------------------------------
\* The free part of the final partition with its blocks renumbered by f.
Renumbered(f) == [v \in NodesOf(input.h) |-> IF input.h.fixed[v] # Unassigned THEN input.h.fixed[v] ELSE f[assigned[v]]]
WithinLimits(p) == \A b \in Blocks : BlockWeight(input.h, p, b) <= input.maxPart[b]

(***************************************************************************)
(* "the assignment of the fixed vertices is optimal among all possible     *)
(* permutations" (fixed_vertices.h:664): no way to renumber the blocks     *)
(* that keeps to the weight limits has a lower objective.                  *)
(***************************************************************************)
AssignmentOptimal ==
  (matcher.phase = "done") =>
    \A f \in Bijection(Blocks, Blocks) :
      WithinLimits(Renumbered(f)) =>
        Objective(input.h, assigned, input.objective) <= Objective(input.h, Renumbered(f), input.objective)

\* The Hungarian method ends: every new cover is smaller (fixed_vertices.h:540).
CoverSize == SumFunction(matcher.label) + SumFunction(matcher.colabel)
CoverShrinks ==
  matcher.phase = "matching" /\ matcher'.phase = "matching" /\ matcher'.matching = {} => CoverSize' < CoverSize

\* Recursive bisection and the assignment of the fixed vertices end.
Terminates == [][WorkDecreases /\ CoverShrinks]_<<stack, matcher>>
=============================================================================
