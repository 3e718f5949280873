----------------------------- MODULE Discovery -----------------------------
(***************************************************************************)
(* One run of the genetic strategy search (DiscoveryPipeline.run): the     *)
(* population is scored by a pool of processes that may break, evolved by  *)
(* tournaments or by crowding, refreshed with random immigrants; then the  *)
(* best different chromosomes ever scored are selected, pass the           *)
(* guardrails, are measured out of sample and filtered.                    *)
(*                                                                         *)
(* A chromosome is a genome (genes, stop loss, take profit) with a trade   *)
(* direction.  Its back-test is deterministic: Score gives the adjusted    *)
(* score, 0 when a hard gate rejects it.  Crossover and mutation may reach *)
(* any genome; what they do to genes is abstracted.                        *)
(***************************************************************************)
EXTENDS Integers, Sequences, FiniteSets

CONSTANTS
  Genomes, Dirs,
  Score,         \* [Chrom -> Nat]
  Near,          \* pairs closer than min_diversity_distance
  Seeds,         \* seed chromosomes of a warm start, in order
  Constraint,    \* cfg.direction, or NoDir
  NoDir,
  PopSize,       \* population_size
  EliteCount,    \* elite_count
  MaxGen,        \* max_generations
  ConvGens,      \* convergence_generations
  TopK,          \* top_k
  NReplace       \* immigrants per injection: max(1, int(PopSize * fraction))

Chrom   == [g : Genomes, d : Dirs]
Slots   == 1 .. PopSize
Pending == -1

ASSUME ScoreAssumption == Score \in [Chrom -> Nat]
ASSUME NearAssumption  ==
  /\ Near \in SUBSET (Chrom \X Chrom)
  /\ \A c, e \in Chrom : <<c, c>> \in Near /\ (<<c, e>> \in Near => <<e, c>> \in Near)
ASSUME DirAssumption   == NoDir \notin Dirs /\ Constraint \in Dirs \cup {NoDir}
ASSUME SeedsAssumption == Seeds \in Seq(Chrom)
ASSUME SizeAssumption  ==
  /\ PopSize \in Nat /\ PopSize >= 2
  /\ EliteCount \in Nat /\ EliteCount < PopSize
  /\ MaxGen \in Nat \ {0} /\ ConvGens \in Nat \ {0} /\ TopK \in Nat \ {0}
  /\ NReplace \in Slots

VARIABLES
  conf,      \* use_crowding, and how evaluations run: one process, one pool
             \* for the run, or (when that cannot be made) one per generation
  phase,
  pool,      \* "ok", "broken", or "off" (no workers, or _parallel_broken)
  pop,       \* the population
  res,       \* the scores of this generation as they come in
  scored,    \* all_scored: chromosomes with the scores recorded for them
  best,      \* best_fitness of the generations
  injected,  \* history: immigrants came into this population
  rest,      \* recorded entries selection has not looked at
  top,       \* top_strategies
  holdout, cross, wfa  \* results, parallel to top; each names what it measured

vars == <<conf, phase, pool, pop, res, scored, best, injected, rest, top,
          holdout, cross, wfa>>
searching == <<pop, res, scored, best, injected>>
measured  == <<holdout, cross, wfa>>

Entry   == [c : Chrom, s : Nat]
Outcome == [c : Chrom, ok : BOOLEAN]
Modes   == {"sequential", "shared", "perGeneration"}

TypeOK ==
  /\ conf \in [crowding : BOOLEAN, mode : Modes]
  /\ phase \in {"submit", "collect", "select", "guard", "measure", "filter", "done"}
  /\ pool \in {"ok", "broken", "off"}
  /\ pop \in [Slots -> Chrom]
  /\ res \in [Slots -> Nat \cup {Pending}]
  /\ scored \in SUBSET Entry
  /\ best \in Seq(Nat) /\ Len(best) <= MaxGen
  /\ injected \in BOOLEAN
  /\ rest \in SUBSET Entry
  /\ top \in Seq(Entry) /\ Len(top) <= TopK
  /\ holdout \in Seq(Chrom) /\ cross \in Seq(Outcome) /\ wfa \in Seq(Outcome)

-----------------------------------------------------------------------------
(* Chromosomes *)

\* What _random_chromosome, and an offspring after the assignment of the
\* constraint, can be.
Bred == {c \in Chrom : Constraint # NoDir => c.d = Constraint}

\* A seed chromosome as initialize_population puts it into the population.
Seeded(c) == IF Constraint = NoDir THEN c ELSE [c EXCEPT !.d = Constraint]

Smaller(m, n) == IF m < n THEN m ELSE n

\* Seeds take at most half of the slots, random chromosomes the rest.
InitialPopulations ==
  LET n == Smaller(Len(Seeds), PopSize \div 2)
  IN  {p \in [Slots -> Chrom] :
         \A i \in Slots : IF i <= n THEN p[i] = Seeded(Seeds[i]) ELSE p[i] \in Bred}

Init ==
  /\ conf \in [crowding : BOOLEAN, mode : Modes]
  /\ phase = "submit"
  /\ pool = IF conf.mode = "sequential" THEN "off" ELSE "ok"
  /\ pop \in InitialPopulations
  /\ res = [i \in Slots |-> Pending]
  /\ scored = {} /\ best = <<>>
  /\ injected = FALSE
  /\ rest = {} /\ top = <<>>
  /\ holdout = <<>> /\ cross = <<>> /\ wfa = <<>>

-----------------------------------------------------------------------------
(* evaluate_population *)

\* All chromosomes are submitted; a pool per generation is a new one.
Submit ==
  /\ phase = "submit"
  /\ pool = "ok" \/ (pool = "broken" /\ conf.mode = "perGeneration")
  /\ pool' = "ok"
  /\ phase' = "collect"
  /\ UNCHANGED <<conf, searching, rest, top, measured>>

\* Sequential evaluation: there is no pool, or submit raised, after which this
\* process never uses a pool again.  F: the back-tests that raise score 0.
EvaluateHere ==
  /\ phase = "submit"
  /\ \E F \in SUBSET Slots :
       res' = [i \in Slots |-> IF i \in F THEN 0 ELSE Score[pop[i]]]
  /\ pool' = "off"
  /\ phase' = "collect"
  /\ UNCHANGED <<conf, pop, scored, best, injected, rest, top, measured>>

Unfinished == {i \in Slots : res[i] = Pending}

\* Mutant: results are stored in the order they come in.
IndexOf_InOrder(i) == 1 + PopSize - Cardinality(Unfinished)

\* future_to_idx: where the result of chromosome i goes.
IndexOf(i) == i

\* A future finishes; one that raises scores 0.
Collect(i) ==
  /\ phase = "collect" /\ pool = "ok"
  /\ i \in Unfinished
  /\ \E s \in {0, Score[pop[i]]} : res' = [res EXCEPT ![IndexOf(i)] = s]
  /\ UNCHANGED <<conf, phase, pool, pop, scored, best, injected, rest, top, measured>>

\* Mutant: the futures of a broken pool are not resolved.
Resolved_Dropped == res

\* What as_completed yields once the pool broke: every unfinished future
\* raises, and each exception is caught and scored 0.
Resolved == [i \in Slots |-> IF i \in Unfinished THEN 0 ELSE res[i]]

\* A worker process dies.
PoolBreaks ==
  /\ phase = "collect" /\ pool = "ok" /\ Unfinished # {}
  /\ pool' = "broken"
  /\ res' = Resolved
  /\ UNCHANGED <<conf, phase, pop, scored, best, injected, rest, top, measured>>

-----------------------------------------------------------------------------
(* The end of a generation *)

\* Positions by falling score (heapq.nlargest) and by rising score; both
\* orders keep equal scores in place.
Rank(i)      == 1 + Cardinality({j \in Slots : res[j] > res[i] \/ (res[j] = res[i] /\ j < i)})
WorstRank(i) == 1 + Cardinality({j \in Slots : res[j] < res[i] \/ (res[j] = res[i] /\ j < i)})

\* apply_elitism: the k-th best chromosome.
Elite(k) == {pop[i] : i \in {j \in Slots : Rank(j) = k}}

\* _evolve_tournament: elites, then offspring.
TournamentSlots(k) == IF k <= EliteCount THEN Elite(k) ELSE Bred

\* _evolve_crowding: one elite; the others are shuffled and paired.  When the
\* offspring resemble their own parent's partner ("crossed"), crowding_replace
\* compares the scores of the two parents, and the fitter one stays.
OneElite  == Smaller(1, EliteCount)
Pool(b)   == IF OneElite = 1 THEN Slots \ {b} ELSE Slots
Shuffles(b) ==
  {o \in [1 .. Cardinality(Pool(b)) -> Pool(b)] : \A m, n \in DOMAIN o : m # n => o[m] # o[n]}

CrowdingSlots(b, o, crossed, k) ==
  LET n       == k - OneElite
      partner == IF n % 2 = 1 THEN n + 1 ELSE n - 1
  IN  IF n = 0 THEN Elite(1)
      ELSE IF n % 2 = 1 /\ n = Len(o) THEN {pop[o[n]]}
      ELSE IF crossed[(n + 1) \div 2] /\ res[o[partner]] < res[o[n]] THEN {pop[o[n]]}
      ELSE Bred

\* The population after evolution, slot by slot: what each slot may hold.
Evolutions(b) ==
  IF conf.crowding
  THEN {[k \in Slots |-> CrowdingSlots(b, o, crossed, k)] :
          o \in Shuffles(b), crossed \in [1 .. PopSize \div 2 + 1 -> BOOLEAN]}
  ELSE {[k \in Slots |-> TournamentSlots(k)]}

\* inject_random_immigrants takes the scores of the population before
\* evolution for those of the new one.
Immigrated(slots) == [k \in Slots |-> IF WorstRank(k) <= NReplace THEN Bred ELSE slots[k]]

\* The slots of the next population; immigrants come when the entropy is low.
NextSlots(b, low) == {IF low THEN Immigrated(e) ELSE e : e \in Evolutions(b)}

\* _check_convergence.
Converged(bs) ==
  LET n == Len(bs) - ConvGens
  IN  /\ Len(bs) >= 2 * ConvGens
      /\ \A k \in n + 1 .. Len(bs) : \E m \in 1 .. n : bs[k] <= bs[m]

\* all_scored after this generation: scores of 0 are skipped.
Recorded == scored \cup {[c |-> pop[i], s |-> res[i]] : i \in {j \in Slots : res[j] > 0}}

\* The loop ends by its range or by the break.
Ended == Len(best') >= MaxGen \/ Converged(best')

\* The body of the loop after evaluation.  b is the first of the best.  (After
\* the last generation the code evolves once more, into a population that only
\* a debug line reads: left out.)
EndGeneration(b) ==
  /\ phase = "collect" /\ Unfinished = {}
  /\ Rank(b) = 1
  /\ scored' = Recorded
  /\ best' = Append(best, res[b])
  /\ res' = [i \in Slots |-> Pending]
  /\ \/ /\ Ended
        /\ phase' = "select" /\ rest' = Recorded
        /\ injected' = FALSE
        /\ UNCHANGED pop
     \/ /\ ~ Ended
        /\ phase' = "submit"
        /\ \E low \in BOOLEAN : \E slots \in NextSlots(b, low) :
             /\ pop' \in {p \in [Slots -> UNION {slots[k] : k \in Slots}] :
                            \A k \in Slots : p[k] \in slots[k]}
             /\ injected' = low
        /\ UNCHANGED rest
  /\ UNCHANGED <<conf, pool, top, measured>>

-----------------------------------------------------------------------------
(* _select_diverse_top_k *)

\* is_diverse: not too near to any selected chromosome.
Diverse(c) == \A i \in DOMAIN top : <<c, top[i].c>> \notin Near

\* One turn of the loop over the entries sorted by score.
SelectNext(e) ==
  /\ phase = "select" /\ Len(top) < TopK
  /\ e \in rest /\ \A r \in rest : r.s <= e.s
  /\ rest' = rest \ {e}
  /\ top' = IF Diverse(e.c) THEN Append(top, e) ELSE top
  /\ UNCHANGED <<conf, phase, pool, searching, measured>>

SelectEnd ==
  /\ phase = "select" /\ (Len(top) = TopK \/ rest = {})
  /\ phase' = "guard"
  /\ UNCHANGED <<conf, pool, searching, rest, top, measured>>

-----------------------------------------------------------------------------
(* Guardrails and out-of-sample measurements *)

\* The elements of s at the indices of K, in order; every increasing
\* enumeration of K is the same.
Enumerations(K) ==
  {f \in [1 .. Cardinality(K) -> K] : \A m, n \in DOMAIN f : m < n => f[m] < f[n]}
At(s, f) == [m \in DOMAIN f |-> s[f[m]]]

\* What _validate_top_strategies keeps, for the verdicts v: those that passed;
\* if none did, nothing after a hard failure, and else all.
Validated(v) ==
  LET passed == {i \in DOMAIN top : v[i] = "pass"}
  IN  IF passed # {} THEN passed
      ELSE IF \E i \in DOMAIN top : v[i] = "hard" THEN {} ELSE DOMAIN top

Guardrails ==
  /\ phase = "guard"
  /\ \E v \in [DOMAIN top -> {"pass", "soft", "hard"}] :
       \E f \in Enumerations(Validated(v)) : top' = At(top, f)
  /\ phase' = "measure"
  /\ UNCHANGED <<conf, pool, searching, rest, measured>>

\* One result for each strategy, or none: the stage is switched off, there
\* are no strategies, or (walk-forward) no window fits.  Walk-forward needs
\* the dates of the holdout.
Outcomes == {[i \in DOMAIN top |-> [c |-> top[i].c, ok |-> ok[i]]] : ok \in [DOMAIN top -> BOOLEAN]}

Measure ==
  /\ phase = "measure"
  /\ holdout' \in {<<>>, [i \in DOMAIN top |-> top[i].c]}
  /\ cross' \in {<<>>} \cup Outcomes
  /\ wfa' \in {<<>>} \cup (IF holdout' = <<>> THEN {} ELSE Outcomes)
  /\ phase' = "filter"
  /\ UNCHANGED <<conf, pool, searching, rest, top>>

\* keep: the strategies that passed every validation that was made.
Kept ==
  {i \in DOMAIN top : (i \in DOMAIN cross => cross[i].ok) /\ (i \in DOMAIN wfa => wfa[i].ok)}

\* A result list under the filter; empty lists stay empty.
Filtered(s, f) == IF s = <<>> THEN <<>> ELSE At(s, f)

\* All lists are filtered together, unless nothing or everything passed.
Filter ==
  /\ phase = "filter"
  /\ IF Kept = {} \/ Kept = DOMAIN top
     THEN UNCHANGED <<top, measured>>
     ELSE \E f \in Enumerations(Kept) :
            /\ top' = At(top, f)
            /\ holdout' = Filtered(holdout, f)
            /\ cross' = Filtered(cross, f)
            /\ wfa' = Filtered(wfa, f)
  /\ phase' = "done"
  /\ UNCHANGED <<conf, pool, searching, rest>>

-----------------------------------------------------------------------------
Next ==
  \/ Submit
  \/ EvaluateHere
  \/ \E i \in Slots : Collect(i)
  \/ PoolBreaks
  \/ \E b \in Slots : EndGeneration(b)
  \/ \E e \in rest : SelectNext(e)
  \/ SelectEnd
  \/ Guardrails
  \/ Measure
  \/ Filter

Spec == Init /\ [][Next]_vars

\* The pipeline goes on, and each back-test ends: the pool's processes work
\* on their own.
FairSpec == Spec /\ WF_vars(Next)

-----------------------------------------------------------------------------
(* Properties *)

\* A direction constraint reaches every chromosome that is ever bred, seeded
\* or immigrated, and so every strategy the run reports.
DirectionKept ==
  Constraint # NoDir =>
    /\ \A i \in Slots : pop[i].d = Constraint
    /\ \A i \in DOMAIN top : top[i].c.d = Constraint

\* The first selected strategy really is as good as the best of any
\* generation: results reach the chromosome they belong to, and later
\* generations never displace an earlier best.
TopIsBest ==
  phase = "guard" =>
    \A k \in DOMAIN best : best[k] > 0 => top # <<>> /\ best[k] <= Score[top[1].c]

\* No two reported strategies are nearer than min_diversity_distance.
TopDiverse ==
  \A i, j \in DOMAIN top : i # j => <<top[i].c, top[j].c>> \notin Near

\* Every result list that is not empty is parallel to top_strategies, after
\* the filter too: what is reported for a strategy was measured on it.
ResultsAligned ==
  phase \in {"filter", "done"} =>
    /\ holdout # <<>> => holdout = [i \in DOMAIN top |-> top[i].c]
    /\ \A s \in {cross, wfa} :
         s # <<>> => [i \in DOMAIN s |-> s[i].c] = [i \in DOMAIN top |-> top[i].c]

\* The run ends, whatever breaks.
RunEnds == <>(phase = "done")
=============================================================================
