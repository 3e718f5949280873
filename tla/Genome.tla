------------------------------- MODULE Genome -------------------------------
(***************************************************************************)
(* What the genetic operators do to the contents of a chromosome           *)
(* (discovery/operators.py, distance.py and the validator of genome.py).   *)
(* Where the code draws a random value an operator gives the set of all    *)
(* values it may draw.  Numbers are grid points of their ranges; the       *)
(* operator of a condition, which every step keeps valid, and names are    *)
(* left out.                                                               *)
(***************************************************************************)
EXTENDS Integers, Sequences, FiniteSets, SequencesExt

CONSTANTS
    Allowed,          \* INDICATOR_POOL after the filter of the run
    Averages,         \* MA_POOL
    ParamRanges,      \* indicator -> parameter -> <<lo, hi>>
    ThresholdRanges,  \* indicator -> <<lo, hi>>, the filter does not shrink it
    StopRanges,       \* stop loss and take profit -> <<lo, hi>>
    MinGenes, MaxGenes,  \* of each list of genes
    DrawnGenes,       \* bound: at most so many in a random chromosome
    Directions,
    OnlyDirection     \* cfg.direction, or "any"

Scalar == {"entry", "exit"}
Lists  == Scalar \cup {"ma_entry", "ma_exit"}
PoolOf(p) == IF p \in Scalar THEN Allowed ELSE Averages
Macd == "MACD"

IsRange(r) == r \in Int \X Int /\ r[1] <= r[2]

\* Every indicator of a pool has its ranges, as discovery/genome.py builds them;
\* Enforce relies on how the two of MACD lie (dsl/indicators.py:616).
ASSUME RangesAssumption ==
    /\ Allowed \cup Averages \subseteq DOMAIN ParamRanges
    /\ \A i \in DOMAIN ParamRanges :
          IsRange(ThresholdRanges[i]) /\ \A n \in DOMAIN ParamRanges[i] : IsRange(ParamRanges[i][n])
    /\ Macd \in DOMAIN ParamRanges =>
          LET r == ParamRanges[Macd]
          IN {"fast", "slow"} \subseteq DOMAIN r /\ r.fast[1] <= r.slow[1] /\ r.fast[2] < r.slow[2]
    /\ \A n \in DOMAIN StopRanges : IsRange(StopRanges[n])
    /\ \A p \in Lists : /\ MinGenes[p] \in Nat /\ MaxGenes[p] \in Nat /\ MinGenes[p] <= MaxGenes[p]
                        /\ DrawnGenes[p] \in Nat /\ DrawnGenes[p] <= MaxGenes[p]

-----------------------------------------------------------------------------
(* Contents: a gene is [ind, params, thr], a chromosome [genes, stops, dir]. *)

InRange(v, r) == r[1] <= v /\ v <= r[2]
Clamp(v, r) == IF v < r[1] THEN r[1] ELSE IF v > r[2] THEN r[2] ELSE v
\* The functions whose value at n is in sets[n].
Picks(sets) ==
    {f \in [DOMAIN sets -> UNION {sets[n] : n \in DOMAIN sets}] : \A n \in DOMAIN sets : f[n] \in sets[n]}
\* The same for the four lists.
PickLists(sets) ==
    [entry : sets["entry"], exit : sets["exit"], ma_entry : sets["ma_entry"], ma_exit : sets["ma_exit"]]
\* The lists of places that rise and leave out none of those that are due.
Rising(places, due) ==
    {q \in SeqOf(places, Cardinality(places)) :
        /\ \A i, j \in DOMAIN q : i < j => q[i] < q[j]
        /\ due \subseteq {q[i] : i \in DOMAIN q}}
Interval(R) == [n \in DOMAIN R |-> R[n][1] .. R[n][2]]

\* _enforce_param_constraints.
Enforce(ind, params) ==
    IF ind = Macd /\ params.fast >= params.slow
    THEN [params EXCEPT !.fast = params.slow, !.slow = params.fast + 1]
    ELSE params

RandomParams(ind) ==
    {Enforce(ind, f) : f \in Picks(Interval(ParamRanges[ind]))}

RandomGenes(p) ==
    UNION {[ind : {i}, params : RandomParams(i), thr : ThresholdRanges[i][1] .. ThresholdRanges[i][2]]
            : i \in PoolOf(p)}

\* One to three genes more often than five, an MA gene now and then.
RandomChromosomes ==
    LET lists == PickLists([p \in Lists |-> {s \in SeqOf(RandomGenes(p), DrawnGenes[p]) : Len(s) >= MinGenes[p]}])
    IN [genes : lists,
        stops : Picks(Interval(StopRanges)),
        dir : IF OnlyDirection = "any" THEN Directions ELSE {OnlyDirection}]

\* Mutant: a step may leave the range.
Perturb_Free(v, r) == {v - 1, v, v + 1}

\* _perturb: a step up or down, within the bounds given.
Perturb(v, r) == {Clamp(v + d, r) : d \in {-1, 0, 1}}

\* An indicator the filter removed has no ranges any more, so nothing bounds its
\* parameters.
PerturbParams(g, p) ==
    LET Step(n) == IF g.ind \in PoolOf(p) THEN Perturb(g.params[n], ParamRanges[g.ind][n])
                   ELSE {g.params[n] - 1, g.params[n], g.params[n] + 1}
    IN {Enforce(g.ind, f) : f \in Picks([n \in DOMAIN g.params |-> Step(n)])}

\* _mutate_single_gene and _mutate_single_ma_gene: another indicator, other
\* parameters, another threshold.
MutateSingleGene(g, p) ==
    RandomGenes(p) \cup {[g EXCEPT !.params = f] : f \in PerturbParams(g, p)}
                   \cup {[g EXCEPT !.thr = t] : t \in Perturb(g.thr, ThresholdRanges[g.ind])}

\* _clamp_genes: too few are filled up with random ones, too many cut off.
ClampGenes(s, p) ==
    IF Len(s) < MinGenes[p] THEN {s \o fill : fill \in {f \in SeqOf(RandomGenes(p), MinGenes[p]) : Len(f) = MinGenes[p] - Len(s)}}
    ELSE {SubSeq(s, 1, IF Len(s) > MaxGenes[p] THEN MaxGenes[p] ELSE Len(s))}

\* Place by place: a gene of either parent where both have one, else that of the
\* longer parent or none.
CrossoverGenes(a, b, p) ==
    LET both == IF Len(a) < Len(b) THEN Len(a) ELSE Len(b)
        longer == IF Len(a) < Len(b) THEN b ELSE a
        At(n) == IF n <= both THEN {a[n], b[n]} ELSE {longer[n]}
        children == UNION {Picks([k \in DOMAIN q |-> At(q[k])]) : q \in Rising(DOMAIN longer, 1 .. both)}
    IN UNION {ClampGenes(s, p) : s \in children}

\* _repair_chromosome: thresholds drawn again, MACD periods, stops and parameters
\* of averages brought back, averages that are no longer known dropped.
RepairGene(g, p) ==
    LET r == ThresholdRanges[g.ind]
        params == IF p \in Scalar THEN Enforce(g.ind, g.params)
                  ELSE [n \in DOMAIN g.params |-> Clamp(g.params[n], ParamRanges[g.ind][n])]
    IN [ind : {g.ind}, params : {params}, thr : IF InRange(g.thr, r) THEN {g.thr} ELSE r[1] .. r[2]]
RepairGenes(s, p) ==
    LET known == {n \in DOMAIN s : p \in Scalar \/ s[n].ind \in Averages}
    IN UNION {Picks([k \in DOMAIN q |-> RepairGene(s[q[k]], p)]) : q \in Rising(known, known)}

Crossover(a, b) ==
    [genes : PickLists([p \in Lists |-> UNION {RepairGenes(s, p) : s \in CrossoverGenes(a.genes[p], b.genes[p], p)}]),
     stops : Picks([n \in DOMAIN StopRanges |-> {Clamp(a.stops[n], StopRanges[n]), Clamp(b.stops[n], StopRanges[n])}]),
     dir : {a.dir, b.dir}]

\* What parents bring: the parameters of each gene are those of its indicator, and in
\* their ranges if it is in the pool.
FitGene(g, p) ==
    /\ g = [ind |-> g.ind, params |-> g.params, thr |-> g.thr]
    /\ g.ind \in DOMAIN ParamRanges /\ g.thr \in Int
    /\ g.params \in [DOMAIN ParamRanges[g.ind] -> Int]
    /\ g.ind \in PoolOf(p) => \A n \in DOMAIN g.params : InRange(g.params[n], ParamRanges[g.ind][n])
Fit(c) ==
    /\ c = [genes |-> c.genes, stops |-> c.stops, dir |-> c.dir] /\ DOMAIN c.genes = Lists
    /\ \A p \in Lists : c.genes[p] \in Seq(ToSet(c.genes[p])) /\ \A g \in ToSet(c.genes[p]) : FitGene(g, p)

\* is_valid_chromosome, which does not look at the parameters of scalar genes.
IsValidGene(g, p) ==
    /\ g.ind \in PoolOf(p)
    /\ g.ind = Macd => g.params.fast < g.params.slow
    /\ IF p \in Scalar THEN InRange(g.thr, ThresholdRanges[g.ind])
       ELSE \A n \in DOMAIN g.params : InRange(g.params[n], ParamRanges[g.ind][n])
IsValidChromosome(c) ==
    /\ \A p \in Lists : /\ Len(c.genes[p]) \in MinGenes[p] .. MaxGenes[p]
                        /\ \A n \in DOMAIN c.genes[p] : IsValidGene(c.genes[p][n], p)
    /\ \A n \in DOMAIN StopRanges : InRange(c.stops[n], StopRanges[n])

\* genome.validate_chromosome, which does.
ValidateChromosome(c) ==
    /\ IsValidChromosome(c)
    /\ \A p \in Lists : \A n \in DOMAIN c.genes[p] : LET g == c.genes[p][n]
          IN /\ DOMAIN g.params = DOMAIN ParamRanges[g.ind]
             /\ \A x \in DOMAIN g.params : InRange(g.params[x], ParamRanges[g.ind][x])

-----------------------------------------------------------------------------
(* Distance (discovery/distance.py) in thousandths.                        *)

Far == 1000
Gap(v, w, r) == IF r[1] = r[2] THEN 0 ELSE (Far * (IF v > w THEN v - w ELSE w - v)) \div (r[2] - r[1])
Mean(f) == IF DOMAIN f = {} THEN 0 ELSE FoldFunction(+, 0, f) \div Cardinality(DOMAIN f)

\* Indicator twice, condition (left out), threshold and parameters once each; the
\* parameters of a removed indicator count as half apart.
GeneDistance(g, h) ==
    IF g.ind # h.ind THEN Far
    ELSE LET params == IF g.ind \notin Allowed THEN Far \div 2
                       ELSE Mean([n \in DOMAIN g.params |-> Gap(g.params[n], h.params[n], ParamRanges[g.ind][n])])
         IN (Gap(g.thr, h.thr, ThresholdRanges[g.ind]) + params) \div 5

DirectionDistance(d, e) == IF d = e THEN 0 ELSE IF "both" \in {d, e} THEN Far \div 2 ELSE Far

\* Genes by place, a missing one as far as can be; direction; stops.  MA genes do
\* not count.
ChromosomeDistance(c, d) ==
    LET Places(p) == {<<p, n>> : n \in DOMAIN c.genes[p] \cup DOMAIN d.genes[p]}
        At(x) == LET p == x[1]  n == x[2]
                 IN IF n \in DOMAIN c.genes[p] \cap DOMAIN d.genes[p] THEN GeneDistance(c.genes[p][n], d.genes[p][n]) ELSE Far
    IN (6 * Mean([x \in Places("entry") \cup Places("exit") |-> At(x)]) + 2 * DirectionDistance(c.dir, d.dir)
          + 2 * Mean([n \in DOMAIN StopRanges |-> Gap(c.stops[n], d.stops[n], StopRanges[n])])) \div 10

=============================================================================
