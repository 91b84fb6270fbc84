------------------------------ MODULE Searchers -----------------------------
(***************************************************************************)
(* What the adaptive searchers learn (tuning/searchers/algorithms.py) and  *)
(* how a study selects its trial (tuning/objectives.py).  The runner asks  *)
(* for a batch, evaluates it and hands all of it to observe; a batch may   *)
(* have any size up to MaxBatch and any of its trials may fail.            *)
(*                                                                         *)
(* Coordinates are never computed: a suggestion names the results it is    *)
(* drawn from, and the position of a particle is its generation.           *)
(***************************************************************************)
EXTENDS Integers, FiniteSets

CONSTANTS Algorithms,     \* "tpe", "cma_es", "nsga_ii", "pso", "genetic", "annealing"
          Values,         \* finite objective values
          Lowest,         \* the utility of a trial that did not complete
          PopulationSize, MaxBatch, MaxTrials

VARIABLES algorithm, directions,
          observed,       \* every result the searcher has seen
          memory,         \* what the algorithm keeps besides
          batch,          \* the trials under evaluation, and the particle of each
          crowded         \* NSGA-II has once had to cut its first front

searchVars == <<algorithm, directions, observed, memory, batch, crowded>>

\* the bounds of the schemas; a failed trial is worse than every other
SearchAssumption ==
  /\ Algorithms \subseteq {"tpe", "cma_es", "nsga_ii", "pso", "genetic", "annealing"}
  /\ Values \subseteq Int /\ Lowest \in Int
  /\ \A v \in Values : Lowest < v /\ Lowest < -v
  /\ PopulationSize \in Nat \ {0} /\ {MaxBatch, MaxTrials} \subseteq Nat

Particles == 1..PopulationSize
Completed(results) == {r \in results : r.completed}

Signed(value, direction) == IF direction = "maximize" THEN value ELSE -value
Utility(r) == IF r.completed THEN Signed(r.objectives[1], directions[1]) ELSE Lowest

Dominates(p, q) ==
  /\ \A i \in DOMAIN directions :
       Signed(p.objectives[i], directions[i]) >= Signed(q.objectives[i], directions[i])
  /\ \E i \in DOMAIN directions :
       Signed(p.objectives[i], directions[i]) > Signed(q.objectives[i], directions[i])

Nondominated(S) == {r \in S : \A other \in S : ~Dominates(other, r)}

\* the n best; the sort is stable, so that of equals the earlier trial comes first
Ahead(q, r) == Utility(q) > Utility(r) \/ (Utility(q) = Utility(r) /\ q.trial < r.trial)
Best(results, n) == {r \in results : Cardinality({q \in results : Ahead(q, r)}) < n}

(***************************************************************************)
(* Learning.                                                               *)
(***************************************************************************)
NothingLearned ==
  [population |-> {}, elite |-> {}, current |-> {},
   generation |-> 0, issued |-> {}, scored |-> {},
   personal |-> [p \in Particles |-> [score |-> Lowest, position |-> 0]],
   global |-> <<1, 0>>]

\* Mutant: what the last batch did not confirm is forgotten.
NewestOnly(results) == Completed(results)
Elitists(results) == memory.population \cup Completed(results)
LearnGenetic(results) ==
  [memory EXCEPT !.population = Best(Elitists(results), PopulationSize),
                 !.generation = @ + 1]

\* the better half of the last batch and of nothing else
LearnCma(results) ==
  LET ok == Completed(results)
      half == Cardinality(ok) \div 2
  IN  IF ok = {} THEN memory
      ELSE [memory EXCEPT !.elite = Best(ok, IF half = 0 THEN 1 ELSE half), !.generation = @ + 1]

\* what is left of the candidates when the first k fronts are taken away
Remaining(candidates) ==
  LET left[k \in Nat] == IF k = 0 THEN candidates ELSE left[k - 1] \ Nondominated(left[k - 1])
  IN  left

\* whole fronts as long as there is room; which members of the first front that
\* does not fit stay depends on distances between numbers and is left open
Selections(candidates, room) ==
  {kept \in SUBSET candidates :
     /\ Cardinality(kept) = IF Cardinality(candidates) <= room THEN Cardinality(candidates) ELSE room
     /\ \E k \in 0..Cardinality(candidates) :
          /\ candidates \ Remaining(candidates)[k] \subseteq kept
          /\ kept \cap Remaining(candidates)[k + 1] = {}}

LearnNsga(results) ==
  {[memory EXCEPT !.population = kept, !.generation = @ + 1] :
     kept \in Selections(Elitists(results), PopulationSize)}

\* scores follow their particle; a full generation moves the swarm
LearnSwarm(results) ==
  LET better(p) == {r \in results : batch[r.trial] = p /\ Utility(r) > memory.personal[p].score}
      personal == [p \in Particles |->
        IF better(p) = {} THEN memory.personal[p]
        ELSE [score |-> Utility(CHOOSE r \in better(p) : TRUE), position |-> memory.generation]]
      leader == CHOOSE p \in Particles :
        \A q \in Particles : \/ personal[p].score > personal[q].score
                             \/ personal[p].score = personal[q].score /\ p <= q
      scored == memory.scored \cup {batch[r.trial] : r \in results}
      moved == [memory EXCEPT !.personal = personal, !.scored = scored]
  IN  IF scored # Particles THEN moved
      ELSE [moved EXCEPT !.global = <<leader, personal[leader].position>>,
                         !.issued = {}, !.scored = {}, !.generation = @ + 1]

\* Metropolis over the batch in trial order: a score that is no worse is accepted,
\* a worse one may be, a failure never, unless it is the first link; so the chain
\* ends at a link that all later scores are worse than
Links(results) ==
  LET chain == memory.current \cup results
  IN  {r \in chain : /\ r.completed \/ \A q \in chain : r.trial <= q.trial
                     /\ \A q \in Completed(chain) : q.trial > r.trial => Utility(q) < Utility(r)}

Learned(results) ==
  CASE algorithm = "tpe" -> {memory}
    [] algorithm = "genetic" -> {LearnGenetic(results)}
    [] algorithm = "cma_es" -> {LearnCma(results)}
    [] algorithm = "nsga_ii" -> LearnNsga(results)
    [] algorithm = "pso" -> {LearnSwarm(results)}
    [] algorithm = "annealing" -> {[memory EXCEPT !.current = {r}] : r \in Links(results)}

(***************************************************************************)
(* What the next suggestion is drawn from; {} is a uniform draw.           *)
(***************************************************************************)
TpeGood(results, startup) ==
  LET n == (Cardinality(results) + 3) \div 4
  IN  IF Cardinality(results) < startup THEN {} ELSE Best(results, IF n < 2 THEN 2 ELSE n)

Basis ==
  CASE algorithm = "tpe" -> TpeGood(Completed(observed), 2)
    [] algorithm = "cma_es" -> memory.elite
    [] algorithm \in {"genetic", "nsga_ii"} ->
         IF Cardinality(memory.population) < 2 THEN {} ELSE memory.population
    [] algorithm = "annealing" -> memory.current
    [] algorithm = "pso" -> {}

Init ==
  /\ algorithm \in Algorithms
  /\ directions \in {<<d, "minimize">> : d \in {"maximize", "minimize"}}
  /\ observed = {} /\ batch = <<>> /\ crowded = FALSE
  /\ memory = NothingLearned

\* a swarm issues its particles in their order, once in a generation; 1 stands for none
Free == Particles \ memory.issued
NthFree(i) == CHOOSE p \in Free : Cardinality({f \in Free : f < p}) = i - 1
Suggest(n) ==
  LET seen == Cardinality(observed)
      size == IF algorithm = "pso" /\ Cardinality(Free) < n THEN Cardinality(Free) ELSE n
  IN  /\ DOMAIN batch = {} /\ n <= MaxTrials - seen
      /\ batch' = [t \in (seen + 1)..(seen + size) |-> IF algorithm = "pso" THEN NthFree(t - seen) ELSE 1]
      /\ memory' = IF algorithm # "pso" THEN memory
                   ELSE [memory EXCEPT !.issued = @ \cup {NthFree(i) : i \in 1..size}]
      /\ UNCHANGED <<algorithm, directions, observed, crowded>>

\* scalar studies have one objective; the second value matters to NSGA-II
Outcomes == [completed : {TRUE},
             objectives : Values \X (IF algorithm = "nsga_ii" THEN Values ELSE {0})]
            \cup [completed : {FALSE}, objectives : {<<>>}]

Observe ==
  \E outcome \in [DOMAIN batch -> Outcomes] :
    LET results == {[trial |-> t, completed |-> outcome[t].completed,
                     objectives |-> outcome[t].objectives] : t \in DOMAIN batch}
    IN  /\ DOMAIN batch # {}
        /\ observed' = observed \cup results
        /\ memory' \in Learned(results)
        /\ crowded' = (crowded \/ Cardinality(Nondominated(Elitists(results))) > PopulationSize)
        /\ batch' = <<>>
        /\ UNCHANGED <<algorithm, directions>>

Next == Observe \/ \E n \in 1..MaxBatch : Suggest(n)

Spec == Init /\ [][Next]_searchVars

(***************************************************************************)
(* Selection of the trial a study locks.                                   *)
(***************************************************************************)
Candidates == Completed(observed)
First(S) == CHOOSE r \in S : \A q \in S : r.trial <= q.trial
ParetoFirst == First(Nondominated(Candidates))
Primary == First({r \in Candidates : \A q \in Candidates : Utility(r) >= Utility(q)})

\* the weighted sum of the normalised utilities, times the two ranges
Weighted(weights) ==
  LET u(r, i) == Signed(r.objectives[i], directions[i])
      low(i) == u(CHOOSE r \in Candidates : \A q \in Candidates : u(r, i) <= u(q, i), i)
      high(i) == u(CHOOSE r \in Candidates : \A q \in Candidates : u(r, i) >= u(q, i), i)
      range(i) == IF high(i) = low(i) THEN 1 ELSE high(i) - low(i)
      score(r) == weights[1] * (u(r, 1) - low(1)) * range(2)
                  + weights[2] * (u(r, 2) - low(2)) * range(1)
  IN  First({r \in Candidates : \A q \in Candidates : score(r) >= score(q)})

(***************************************************************************)
(* Properties.                                                             *)
(***************************************************************************)
TypeOK ==
  /\ algorithm \in Algorithms /\ crowded \in BOOLEAN
  /\ {r.trial : r \in observed} = 1..Cardinality(observed)
  /\ Cardinality(memory.population) <= PopulationSize
  /\ memory.scored \subseteq memory.issued /\ memory.issued \subseteq Particles

\* However the results are cut into batches and whichever trials fail, a searcher
\* that claims to keep its best has the best of all it has ever observed: in the
\* population of the elitists, in the good set of TPE, in the memories of the
\* swarm, and the whole Pareto front as long as that has fitted into NSGA-II.
Incumbents == {r \in Candidates : \A q \in Candidates : Utility(r) >= Utility(q)}

IncumbentKept ==
  Candidates # {} =>
    /\ algorithm = "genetic" => Incumbents \cap memory.population # {}
    /\ algorithm = "tpe" /\ Basis # {} => Incumbents \cap Basis # {}
    /\ algorithm = "nsga_ii" /\ ~crowded => Nondominated(Candidates) \subseteq memory.population
    /\ algorithm = "pso" =>
         \E p \in Particles : \A r \in Candidates : memory.personal[p].score >= Utility(r)

\* The leader of a swarm that has just moved is the best particle of all its
\* generations, and stands where that particle stood when it was best.
LeaderTrue ==
  (algorithm = "pso" /\ memory.scored = {} /\ memory.generation > 0 /\ DOMAIN batch = {}) =>
    /\ \A p \in Particles : memory.personal[memory.global[1]].score >= memory.personal[p].score
    /\ memory.global[2] = memory.personal[memory.global[1]].position

\* A chain with a score never goes back to a failed trial, and whatever a
\* suggestion is drawn from had completed - except the first link of a chain.
BasisCompleted ==
  \A r \in Basis : r.completed \/ (algorithm = "annealing" /\ r.trial = 1)

\* The locked trial is beaten by no other in the objectives that selected it:
\* on the Pareto front, and for "primary" best in the first objective.
SelectedOnFront ==
  (Candidates # {} /\ DOMAIN batch = {}) =>
    /\ ParetoFirst \in Nondominated(Candidates)
    /\ \A w \in {<<1, 1>>, <<1, 2>>} : Weighted(w) \in Nondominated(Candidates)
    /\ Primary \in Incumbents

SearchersSound == IncumbentKept /\ LeaderTrue /\ BasisCompleted /\ SelectedOnFront
=============================================================================
