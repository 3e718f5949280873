------------------------------ MODULE Breeding ------------------------------
(***************************************************************************)
(* How a generation is bred (the two loops of discovery/pipeline.py):      *)
(* elites are kept, parents picked by tournament or in crowding pairs,     *)
(* crossed, mutated, tried again when invalid and replaced by a random     *)
(* chromosome when they stay so.  Elites, crossed genes, mutated children  *)
(* and what is remembered of a generation are clones, so a chromosome is   *)
(* its content here.                                                       *)
(***************************************************************************)
EXTENDS Genome

CONSTANTS
    Firsts,           \* the populations a run may start with
    EliteCounts,      \* elite_count, at most one (bound)
    MaxRetries,       \* _MAX_OFFSPRING_RETRIES
    MaxMutations,     \* bound: changes made by mutations
    MaxBreedings      \* bound: generations bred

\* A population is a list, of random chromosomes and of what an earlier run bred
\* within the same ranges.
ASSUME FirstsAssumption == \A first \in Firsts : first \in Seq(ToSet(first)) /\ \A c \in ToSet(first) : Fit(c)

VARIABLES
    folk,             \* the population
    crowding,         \* cfg.use_crowding
    elites,           \* cfg.elite_count
    brood,            \* new_pop
    waiting,          \* indices of the parents still to be paired (crowding)
    pair,             \* <<i, j>>, the parents at work
    crossed,          \* do they cross over?
    kids,             \* their offspring so far
    child,            \* the offspring a mutation starts from
    cand,             \* valid_child, the mutated one
    attempt, spent, bred, at
gvars == <<folk, crowding, elites, brood, waiting, pair, crossed, kids, child, cand, attempt, spent, bred, at>>

Size == Len(folk)
Nobody == <<>>
BreedInit ==
    /\ folk \in Firsts /\ crowding \in BOOLEAN /\ elites \in EliteCounts
    /\ brood = <<>> /\ waiting = {} /\ pair = <<>> /\ crossed = FALSE /\ kids = <<>>
    /\ child = Nobody /\ cand = Nobody
    /\ attempt = 0 /\ spent = 0 /\ bred = 0 /\ at = "score"

\* The population is scored; the elite, whoever is best, is kept and, in crowding,
\* takes no part in the pairing.
ScoreAndKeepElite(i) ==
    /\ at = "score" /\ bred < MaxBreedings
    /\ IF elites = 0 THEN brood' = <<>> /\ waiting' = DOMAIN folk
       ELSE brood' = <<folk[i]>> /\ waiting' = DOMAIN folk \ {i}
    /\ at' = "pair"
    /\ UNCHANGED <<folk, crowding, elites, pair, crossed, kids, child, cand, attempt, spent, bred>>

PickParents(i, j, cross) ==
    /\ at = "pair" /\ Len(brood) < Size
    /\ crowding => i # j /\ {i, j} \subseteq waiting
    /\ pair' = <<i, j>> /\ crossed' = cross
    /\ waiting' = waiting \ {i, j} /\ at' = "child"
    /\ UNCHANGED <<folk, crowding, elites, brood, kids, child, cand, attempt, spent, bred>>

\* The next child of the pair, and the clone mutate() works on.
Conceive ==
    /\ at = "child"
    /\ LET mine  == folk[pair[1 + Len(kids)]]
           other == folk[pair[2 - Len(kids)]]
       IN child' \in IF crossed THEN Crossover(mine, other) ELSE {mine}
    /\ cand' = child'
    /\ attempt' = 0 /\ at' = "change"
    /\ UNCHANGED <<folk, crowding, elites, brood, waiting, pair, crossed, kids, spent, bred>>

\* The changes of a mutation follow one by one; the direction is set when they are
\* done.
Genes(p) == cand.genes[p]
Change(content) ==
    /\ at = "change" /\ spent < MaxMutations /\ spent' = spent + 1
    /\ cand' = content
    /\ UNCHANGED <<folk, crowding, elites, brood, waiting, pair, crossed, kids, child, attempt, bred, at>>

\* _mutate_genes and _mutate_ma_genes.
ChangeGene(p, n) ==
    /\ at = "change" /\ n \in DOMAIN Genes(p)
    /\ \E g \in MutateSingleGene(Genes(p)[n], p) \ {Genes(p)[n]} : Change([cand EXCEPT !.genes[p][n] = g])

AddGene(p) ==
    /\ at = "change" /\ Len(Genes(p)) < MaxGenes[p]
    /\ \E g \in RandomGenes(p) : Change([cand EXCEPT !.genes[p] = Append(@, g)])

RemoveGene(p, n) ==
    /\ at = "change" /\ n \in DOMAIN Genes(p) /\ Len(Genes(p)) > MinGenes[p]
    /\ Change([cand EXCEPT !.genes[p] = RemoveAt(@, n)])

ChangeStop(n) ==
    /\ at = "change"
    /\ \E v \in Perturb(cand.stops[n], StopRanges[n]) \ {cand.stops[n]} : Change([cand EXCEPT !.stops[n] = v])

\* The candidate, with the direction of the run.
Ready == IF OnlyDirection = "any" THEN cand ELSE [cand EXCEPT !.dir = OnlyDirection]

Bear(content) ==
    /\ kids' = Append(kids, content) /\ child' = Nobody /\ cand' = Nobody
    /\ at' = IF Len(kids) = 1 \/ (~crowding /\ Len(brood) + 1 = Size) THEN "family" ELSE "child"
    /\ UNCHANGED <<folk, crowding, elites, brood, waiting, pair, crossed, attempt, spent, bred>>

Accept == at = "change" /\ IsValidChromosome(cand) /\ Bear(Ready)

\* Invalid: mutated again from the child, which has been mutated once.
Retry ==
    /\ at = "change" /\ ~IsValidChromosome(cand) /\ attempt < MaxRetries
    /\ child' = IF attempt = 0 THEN Ready ELSE child
    /\ cand' = child'
    /\ attempt' = attempt + 1
    /\ UNCHANGED <<folk, crowding, elites, brood, waiting, pair, crossed, kids, spent, bred, at>>

GiveUp ==
    /\ at = "change" /\ ~IsValidChromosome(cand) /\ attempt = MaxRetries
    /\ \E c \in RandomChromosomes : Bear(c)

\* crowding_replace: each offspring faces the parent it is more like, with the
\* score of the parent it was conceived for; which of the two is higher is open.
CrowdingReplace(a, b) ==
    LET D(x, y) == ChromosomeDistance(x, y)
    IN IF D(a, kids[1]) + D(b, kids[2]) <= D(a, kids[2]) + D(b, kids[1]) THEN {kids}
       ELSE {<<kids[2], kids[1]>>, <<a, kids[1]>>, <<kids[2], b>>}

Family ==
    /\ at = "family"
    /\ \E s \in (IF crowding THEN CrowdingReplace(folk[pair[1]], folk[pair[2]]) ELSE {kids}) :
          brood' = brood \o s
    /\ kids' = <<>> /\ pair' = <<>> /\ at' = "pair"
    /\ UNCHANGED <<folk, crowding, elites, waiting, crossed, child, cand, attempt, spent, bred>>

\* The last of an odd pool.
Leftover(i) ==
    /\ at = "pair" /\ crowding /\ waiting = {i}
    /\ brood' = Append(brood, folk[i])
    /\ waiting' = {}
    /\ UNCHANGED <<folk, crowding, elites, pair, crossed, kids, child, cand, attempt, spent, bred, at>>

Replace ==
    /\ at = "pair" /\ Len(brood) = Size
    /\ folk' = brood /\ brood' = <<>> /\ waiting' = {}
    /\ bred' = bred + 1 /\ at' = "score"
    /\ UNCHANGED <<crowding, elites, pair, crossed, kids, child, cand, attempt, spent>>

BreedNext ==
    \/ \E i \in DOMAIN folk : ScoreAndKeepElite(i) \/ Leftover(i)
    \/ \E i, j \in DOMAIN folk, cross \in BOOLEAN : PickParents(i, j, cross)
    \/ Conceive \/ Accept \/ Retry \/ GiveUp \/ Family \/ Replace
    \/ \E p \in Lists : \/ AddGene(p)
                        \/ \E n \in 1 .. MaxGenes[p] : ChangeGene(p, n) \/ RemoveGene(p, n)
    \/ \E n \in DOMAIN StopRanges : ChangeStop(n)

BreedSpec == BreedInit /\ [][BreedNext]_gvars

-----------------------------------------------------------------------------
\* Whatever the parents, a chromosome that is bred is one genome.validate_chromosome
\* accepts, although the check made on it (is_valid_chromosome) ignores the
\* parameters of its indicators; and with a restricted pool no removed indicator
\* comes back: only a seed that is carried over unchanged may still use one
\* (operators.py:398, pipeline.py:1262).
BredValidates ==
    LET seeds == UNION {ToSet(first) : first \in Firsts}
    IN \A c \in ToSet(brood) \cup ToSet(kids) : ValidateChromosome(c) \/ c \in seeds
=============================================================================
