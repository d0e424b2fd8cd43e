------------------------------ MODULE Evolution ------------------------------
(***************************************************************************)
(* The evolutionary driver of the partitioner (partition/evo_partitioner.h *)
(* and partition/evolutionary/): a population of partitions of the input,  *)
(* each the result of one call of Partitioner::partition.  It is filled    *)
(* with partitions from nothing; after that individuals are mutated or     *)
(* combined, and the offspring replaces an individual, or is discarded.    *)
(*                                                                         *)
(* What steers the search only (edge frequencies, contraction limits,      *)
(* diversification, chances) is left open.                                 *)
(***************************************************************************)
EXTENDS Pipeline

CONSTANTS PopulationSize,  \* evolutionary.population_size
          MaxOffspring     \* bound: individuals after the population is full

\* A tournament needs two individuals.
ASSUME PopulationSizeAssumption == PopulationSize \in Nat /\ PopulationSize >= 2

\* evolutionary.replace_strategy
ASSUME ReplaceAssumption == \A i \in Inputs : i.replace \in {"worst", "diverse", "strong_diverse"}

VARIABLES population     \* the partition of each individual

evoVars == <<vars, population>>

Positions == DOMAIN population
Fitness(i) == Quality(population[i])

\* The first individual of the best, and of the worst fitness.
Best == Min({i \in Positions : \A j \in Positions : Fitness(i) <= Fitness(j)})
Worst == Min({i \in Positions : \A j \in Positions : Fitness(i) >= Fitness(j)})

\* difference: the symmetric difference of the lists of cut nets, in which a strong
\* one has a net once for every block but one that it connects.
Copies(p, e, strong) ==
  LET lambda == Cardinality(ConnectivitySet(Original, p, e))
  IN  IF strong THEN lambda - 1 ELSE IF lambda > 1 THEN 1 ELSE 0
Difference(p, i, strong) ==
  SumFunction([e \in Hyperedge |-> Max({Copies(p, e, strong) - Copies(population[i], e, strong),
                                        Copies(population[i], e, strong) - Copies(p, e, strong)})])

\* replaceDiverse: the most similar individual among those that are no better.
\* (The variant looks at all individuals.)
MostSimilarOfAll(p, strong) ==
  Min({i \in Positions : \A j \in Positions : Difference(p, i, strong) <= Difference(p, j, strong)})
MostSimilar(p, strong) ==
  LET noBetter == {i \in Positions : Fitness(i) >= Quality(p)}
  IN  Min({i \in noBetter : \A j \in noBetter : Difference(p, i, strong) <= Difference(p, j, strong)})

\* insert.  Only the strategy `worst` replaces whatever the new individual is like.
Replaced(p) ==
  CASE input.replace = "worst"          -> Worst
    [] input.replace = "diverse"        -> MostSimilar(p, FALSE)
    [] input.replace = "strong_diverse" -> MostSimilar(p, TRUE)
Inserted(p) ==
  IF input.replace # "worst" /\ Quality(p) > Fitness(Worst) THEN population
  ELSE [population EXCEPT ![Replaced(p)] = p]

\* tournamentSelect: the winners of two tournaments.  If the second one is as fit
\* as the first one, the loser is taken in its place.
Others(i) == Positions \ {i}
Selected ==
  LET winner(i, j) == IF Fitness(i) < Fitness(j) THEN i ELSE j
      loser(i, j)  == IF Fitness(i) < Fitness(j) THEN j ELSE i
      second(w, i, j) == IF Fitness(winner(i, j)) = Fitness(w) THEN loser(i, j) ELSE winner(i, j)
      duels == {d \in Positions \X Positions : d[1] # d[2]}
  IN  {<<winner(d[1], d[2]), second(winner(d[1], d[2]), f[1], f[2])>> : d, f \in duels}
-----------------------------------------------------------------------------
EvoInit == Init /\ population = << >>

\* The new individual.  best.quality is a history variable here: the fitness of the
\* best individual ever made.
Insert ==
  /\ pc = "partitioned" /\ input.evolutionary
  /\ pc' = "decide"
  /\ population' = IF Len(population) < PopulationSize THEN Append(population, part) ELSE Inserted(part)
  /\ best' = [best EXCEPT !.quality = Min({@, Quality(part)})]
  /\ iteration' = iteration + 1
  /\ UNCHANGED <<inputVars, partitionVars, hg, edgeWeight, removed, lsh, sparsify, weighting>>

\* The next call of the partitioner; start is the partition it finds.
Call(decision, parents, start) ==
  /\ pc = "decide" /\ iteration < PopulationSize + MaxOffspring
  /\ pc' = "configure"
  /\ action' = [decision |-> decision, parents |-> parents]
  /\ part' = start
  /\ UNCHANGED <<log, input, best, iteration, hg, edgeWeight, removed, lsh, sparsify, weighting, communities,
                 partitioned, population>>

Full == Len(population) = PopulationSize

GenerateIndividual == ~ Full /\ Call("normal", << >>, NoPart)

UsingTournamentSelection ==
  Full /\ \E s \in Selected : Call("combine", <<population[s[1]], population[s[2]]>>, NoPart)
EdgeFrequency == Full /\ Call("edge_frequency", << >>, NoPart)

\* The individual only guides the coarsening, its partition is dropped before the
\* initial partitioning.
VCycleWithNewInitialPartitioning ==
  Full /\ \E i \in Positions : Call("new_initial_partitioning_vcycle", << >>, population[i])
VCycle == Full /\ \E i \in Positions : Call("vcycle", <<population[i]>>, population[i])

\* The time may be over after any individual.
Deliver ==
  /\ pc = "decide" /\ pc' = "done"
  /\ part' = population[Best]
  /\ UNCHANGED <<runVars, hg, edgeWeight, removed, lsh, sparsify, weighting, communities, partitioned,
                 population>>

EvoNext == \/ Next /\ UNCHANGED population
           \/ Insert
           \/ GenerateIndividual
           \/ UsingTournamentSelection
           \/ EdgeFrequency
           \/ VCycleWithNewInitialPartitioning
           \/ VCycle
           \/ Deliver

EvoSpec == EvoInit /\ [][EvoNext]_evoVars
-----------------------------------------------------------------------------
\* The result of repeated and of evolutionary partitioning is the best of all of its
\* partitionings, although offspring replaces individuals whatever its fitness.
BestOfAll ==
  /\ pc = "done" /\ input.repeated =>
       /\ \A r \in best.all : Quality(part) < r[1] \/ (Quality(part) = r[1] /\ Imbalance(part) <= r[2])
       /\ << Quality(part), Imbalance(part) >> \in best.all
  /\ pc = "done" /\ input.evolutionary => Quality(part) = best.quality

\* The assertion on combinations (combine.h:79) as far as the code keeps it, and its
\* counterpart for V-cycles: offspring is no worse than the individuals it is made
\* from, on the input, though it was improved on the hypergraph without redundancy.
\* This is not so for individuals beyond the weight limit, and if large nets were
\* put aside.
Ancestors == IF action.decision \in {"combine", "vcycle"} THEN ToSet(action.parents) ELSE {}
OffspringNotWorse ==
  pc = "partitioned" /\ removed.large = << >> /\ (\A p \in Ancestors : Within(Original, p)) =>
    \A p \in Ancestors : Quality(part) <= Quality(p)

\* What is delivered is what was optimized, with the fixed vertices in their blocks,
\* and an improvement of what it was made from.
ResultDelivered == ResultProjected /\ FixedUnlessDeduplicated /\ OffspringNotWorse
=============================================================================
