-------------------------- MODULE Discovery_proof --------------------------
(***************************************************************************)
(* The strategy search, for every population, scoring, distance, limit and *)
(* number of strategies.  What selection needs from the search is that a   *)
(* score in all_scored is the score of its own chromosome (or a lost 0 was *)
(* never recorded) and that the best of each generation is recorded; then  *)
(* the first entry taken from the sorted list is the best ever.            *)
(* The last part is about breeding: what is bred is sound although the     *)
(* check on it is not complete.                                            *)
(***************************************************************************)
EXTENDS Discovery, Breeding, FiniteSetTheorems, SequenceTheorems, TLAPS

Searching == phase \in {"submit", "collect"}

\* A stored result is pending, lost or the score of the chromosome of its slot.
ResultsOwn == \A i \in Slots : res[i] \in {Pending, 0, Score[pop[i]]}

ScoredOwn == \A e \in scored : e \in Entry /\ e.s = Score[e.c] /\ e.c \in Bred

BestScored == \A k \in DOMAIN best : best[k] > 0 => \E e \in scored : e.s = best[k]

\* While the search goes on nothing is selected; while selection goes on, its
\* first choice is the best of everything recorded.
NotYetSelected == Searching => Len(best) < MaxGen /\ top = <<>>

Leader ==
  phase \in {"select", "guard"} =>
    IF top = <<>>
    THEN rest = scored /\ (phase = "guard" => scored = {})
    ELSE \A e \in scored : e.s <= top[1].s

TopScored == (\A i \in DOMAIN top : top[i] \in scored) /\ rest \in SUBSET scored

IInv ==
  /\ TypeOK
  /\ pop \in [Slots -> Bred]
  /\ ResultsOwn
  /\ ScoredOwn
  /\ BestScored
  /\ NotYetSelected
  /\ Leader
  /\ TopScored
  /\ TopDiverse
  /\ ResultsAligned

-----------------------------------------------------------------------------
(* Lists that are filtered by an enumeration of indices *)

LEMMA UpTo ==
  ASSUME NEW n \in Nat PROVE IsFiniteSet(1 .. n) /\ Cardinality(1 .. n) = n
<1>1. 1 \in Int /\ n \in Int
  OBVIOUS
<1>2. IsFiniteSet(1 .. n) /\ Cardinality(1 .. n) = IF 1 > n THEN 0 ELSE n - 1 + 1
  BY <1>1, FS_Interval, Zenon
<1> QED
  BY <1>2

LEMMA IndicesFinite ==
  ASSUME NEW S, NEW s \in Seq(S), NEW K \in SUBSET DOMAIN s
  PROVE  Cardinality(K) \in Nat /\ Cardinality(K) <= Len(s)
<1>1. DOMAIN s = 1 .. Len(s) /\ Len(s) \in Nat
  OBVIOUS
<1>2. IsFiniteSet(1 .. Len(s)) /\ Cardinality(1 .. Len(s)) = Len(s)
  BY <1>1, UpTo
<1>3. IsFiniteSet(K) /\ Cardinality(K) <= Cardinality(1 .. Len(s))
  BY <1>1, <1>2, FS_Subset, Zenon
<1> QED
  BY <1>2, <1>3, FS_CardinalityType

LEMMA Selection ==
  ASSUME NEW S, NEW s \in Seq(S), NEW K \in SUBSET DOMAIN s, NEW f \in Enumerations(K)
  PROVE  /\ At(s, f) \in Seq(S)
         /\ Len(At(s, f)) <= Len(s)
         /\ DOMAIN At(s, f) = DOMAIN f
         /\ \A m \in DOMAIN f : f[m] \in K /\ At(s, f)[m] = s[f[m]]
         /\ \A m, n \in DOMAIN f : m # n => f[m] # f[n]
<1>1. Cardinality(K) \in Nat /\ Cardinality(K) <= Len(s)
  BY IndicesFinite
<1>2. /\ DOMAIN f = 1 .. Cardinality(K)
      /\ \A m \in DOMAIN f : f[m] \in K
      /\ \A m, n \in DOMAIN f : m < n => f[m] < f[n]
  BY DEF Enumerations
<1>3. At(s, f) = [m \in 1 .. Cardinality(K) |-> s[f[m]]]
  BY <1>2 DEF At
<1>4. \A m \in 1 .. Cardinality(K) : s[f[m]] \in S
  BY <1>2
<1>5. At(s, f) \in Seq(S) /\ Len(At(s, f)) = Cardinality(K)
  BY <1>1, <1>3, <1>4
<1>6. \A m, n \in DOMAIN f : m # n => f[m] # f[n]
  <2> SUFFICES ASSUME NEW m \in DOMAIN f, NEW n \in DOMAIN f, m # n
               PROVE  f[m] # f[n]
    OBVIOUS
  <2>1. f[m] \in Int /\ f[n] \in Int
    BY <1>2
  <2>2. m < n \/ n < m
    BY <1>1, <1>2
  <2> QED
    BY <2>1, <2>2, <1>2
<1> QED
  BY <1>1, <1>2, <1>3, <1>5, <1>6

\* A filtered list of strategies is still diverse and from the same entries.
LEMMA SelectionKeeps ==
  ASSUME TypeOK, TopDiverse, TopScored,
         NEW K \in SUBSET DOMAIN top, NEW f \in Enumerations(K), top' = At(top, f),
         scored' = scored, rest' = rest
  PROVE  /\ top' \in Seq(Entry) /\ Len(top') <= TopK
         /\ TopDiverse' /\ TopScored'
<1>1. top \in Seq(Entry) /\ Len(top) <= TopK /\ TopK \in Nat /\ Len(top) \in Nat
  BY SizeAssumption DEF TypeOK
<1>2. /\ top' \in Seq(Entry) /\ Len(top') <= Len(top)
      /\ DOMAIN top' = DOMAIN f
      /\ \A m \in DOMAIN f : f[m] \in DOMAIN top /\ top'[m] = top[f[m]]
      /\ \A m, n \in DOMAIN f : m # n => f[m] # f[n]
  BY <1>1, Selection
<1>3. Len(top') <= TopK
  BY <1>1, <1>2
<1>4. TopDiverse'
  BY <1>2 DEF TopDiverse
<1>5. TopScored'
  BY <1>2 DEF TopScored
<1> QED
  BY <1>2, <1>3, <1>4, <1>5

-----------------------------------------------------------------------------
(* Evolution breeds within the constraint *)

LEMMA SlotsFinite == IsFiniteSet(Slots) /\ Cardinality(Slots) = PopSize
  BY SizeAssumption, UpTo DEF Slots

LEMMA PoolSize ==
  ASSUME NEW b \in Slots
  PROVE  /\ OneElite \in {0, 1}
         /\ Cardinality(Pool(b)) = PopSize - OneElite
         /\ Pool(b) \in SUBSET Slots
<1>1. OneElite \in {0, 1}
  BY SizeAssumption DEF OneElite, Smaller
<1>2. CASE OneElite = 1
  BY <1>2, SlotsFinite, FS_RemoveElement DEF Pool
<1>3. CASE OneElite # 1
  BY <1>1, <1>3, SlotsFinite, SizeAssumption DEF Pool
<1> QED
  BY <1>1, <1>2, <1>3

LEMMA EliteBred ==
  ASSUME pop \in [Slots -> Bred], NEW k
  PROVE  Elite(k) \in SUBSET Bred
  BY DEF Elite

LEMMA CrowdingBred ==
  ASSUME pop \in [Slots -> Bred], NEW b \in Slots, NEW o \in Shuffles(b), NEW mated,
         NEW k \in Slots
  PROVE  CrowdingSlots(b, o, mated, k) \in SUBSET Bred
<1> DEFINE n == k - OneElite
           partner == IF n % 2 = 1 THEN n + 1 ELSE n - 1
<1>1. /\ DOMAIN o = 1 .. PopSize - OneElite
      /\ \A m \in DOMAIN o : o[m] \in Slots
  BY PoolSize DEF Shuffles
<1>2. n = 0 \/ n \in DOMAIN o
  BY <1>1, PoolSize, SizeAssumption DEF Slots
<1>3. Elite(1) \in SUBSET Bred
  BY EliteBred
<1>4. n \in DOMAIN o => {pop[o[n]]} \in SUBSET Bred
  BY <1>1
<1>5. \/ CrowdingSlots(b, o, mated, k) = Elite(1)
      \/ n # 0 /\ CrowdingSlots(b, o, mated, k) = {pop[o[n]]}
      \/ CrowdingSlots(b, o, mated, k) = Bred
  BY Zenon DEF CrowdingSlots
<1> QED
  BY <1>2, <1>3, <1>4, <1>5

\* Whatever slots the next population is drawn from, it is bred.
LEMMA NextBred ==
  ASSUME pop \in [Slots -> Bred], NEW b \in Slots, NEW low \in BOOLEAN,
         NEW slots \in NextSlots(b, low),
         NEW p \in [Slots -> UNION {slots[k] : k \in Slots}],
         \A k \in Slots : p[k] \in slots[k]
  PROVE  p \in [Slots -> Bred]
<1>1. \A e \in Evolutions(b) : \A k \in Slots : e[k] \in SUBSET Bred
  <2>1. CASE conf.crowding
    <3> SUFFICES ASSUME NEW o \in Shuffles(b), NEW mated, NEW k \in Slots
                 PROVE  [j \in Slots |-> CrowdingSlots(b, o, mated, j)][k] \in SUBSET Bred
      BY <2>1 DEF Evolutions
    <3> QED
      BY CrowdingBred
  <2>2. CASE ~ conf.crowding
    <3> SUFFICES ASSUME NEW k \in Slots PROVE TournamentSlots(k) \in SUBSET Bred
      BY <2>2 DEF Evolutions
    <3> QED
      BY EliteBred DEF TournamentSlots
  <2> QED
    BY <2>1, <2>2
<1>2. PICK e \in Evolutions(b) : slots = IF low THEN Immigrated(e) ELSE e
  BY DEF NextSlots
<1>3. \A k \in Slots : slots[k] \in SUBSET Bred
  BY <1>1, <1>2 DEF Immigrated
<1> QED
  BY <1>3

-----------------------------------------------------------------------------
(* The invariant holds initially and is kept by every step *)

LEMMA InitInv == Init => IInv
<1> SUFFICES ASSUME Init PROVE IInv
  OBVIOUS
<1>1. pop \in [Slots -> Bred]
  <2>1. PICK n : /\ n = Smaller(Len(Seeds), PopSize \div 2)
                 /\ pop \in [Slots -> Chrom]
                 /\ \A i \in Slots : IF i <= n THEN pop[i] = Seeded(Seeds[i]) ELSE pop[i] \in Bred
    BY DEF Init, InitialPopulations
  <2>2. \A c \in Chrom : Seeded(c) \in Chrom /\ (Constraint # NoDir => Seeded(c).d = Constraint)
    BY DirAssumption DEF Seeded, Chrom
  <2>3. \A i \in Slots : i <= n => Seeds[i] \in Chrom
    <3>1. Len(Seeds) \in Nat /\ n <= Len(Seeds)
      BY <2>1, SeedsAssumption, SizeAssumption DEF Smaller
    <3> SUFFICES ASSUME NEW i \in Slots, i <= n PROVE Seeds[i] \in Chrom
      OBVIOUS
    <3>2. i \in 1 .. Len(Seeds)
      BY <3>1, <2>1, SizeAssumption DEF Slots, Smaller
    <3> QED
      BY <3>2, SeedsAssumption
  <2>4. \A i \in Slots : pop[i] \in Bred
    <3> SUFFICES ASSUME NEW i \in Slots PROVE pop[i] \in Bred
      OBVIOUS
    <3>1. CASE i <= n
      BY <3>1, <2>1, <2>2, <2>3 DEF Bred
    <3>2. CASE ~ (i <= n)
      BY <3>2, <2>1
    <3> QED
      BY <3>1, <3>2
  <2> QED
    BY <2>1, <2>4
<1>2. TypeOK
  <2>1. pop \in [Slots -> Chrom]
    BY <1>1 DEF Bred
  <2>2. best = <<>> /\ top = <<>> /\ holdout = <<>> /\ cross = <<>> /\ wfa = <<>>
    BY DEF Init
  <2>3. /\ <<>> \in Seq(Nat) /\ <<>> \in Seq(Entry) /\ <<>> \in Seq(Chrom) /\ <<>> \in Seq(Outcome)
        /\ Len(<<>>) <= MaxGen /\ Len(<<>>) <= TopK
    BY SizeAssumption
  <2>4. /\ conf \in [crowding : BOOLEAN, mode : Modes] /\ phase = "submit"
        /\ pool \in {"ok", "broken", "off"}
    BY DEF Init
  <2>5. res \in [Slots -> Nat \cup {Pending}] /\ scored = {} /\ injected = FALSE /\ rest = {}
    BY DEF Init
  <2> QED
    BY <2>1, <2>2, <2>3, <2>4, <2>5, Zenon DEF TypeOK
<1>3. ResultsOwn /\ ScoredOwn /\ BestScored
  BY DEF Init, ResultsOwn, ScoredOwn, BestScored, Pending
<1>4. NotYetSelected /\ Leader /\ TopScored /\ TopDiverse /\ ResultsAligned
  BY SizeAssumption DEF Init, NotYetSelected, Searching, Leader, TopScored, TopDiverse, ResultsAligned
<1> QED
  BY <1>1, <1>2, <1>3, <1>4 DEF IInv

\* Steps that touch neither the lists nor the records only have to keep types
\* and the scores that came in.
LEMMA EvaluationKeeps ==
  ASSUME IInv, Searching, Searching', TypeOK',
         ResultsOwn', UNCHANGED <<pop, scored, best, rest, top, holdout, cross, wfa>>
  PROVE  IInv'
BY Zenon DEF IInv, ScoredOwn, BestScored, NotYetSelected, Searching, Leader, TopScored, TopDiverse,
   ResultsAligned

LEMMA SubmitInv == IInv /\ Submit => IInv'
<1> SUFFICES ASSUME IInv, Submit PROVE IInv'
  OBVIOUS
<1>1. TypeOK'
  BY DEF IInv, TypeOK, Submit, searching, measured, Modes
<1>2. ResultsOwn'
  BY DEF IInv, ResultsOwn, Submit, searching
<1> QED
  BY <1>1, <1>2, EvaluationKeeps DEF Submit, searching, measured, Searching

LEMMA ScoreTyped == \A c \in Bred : c \in Chrom /\ Score[c] \in Nat
  BY ScoreAssumption DEF Bred

LEMMA EvaluateHereInv == IInv /\ EvaluateHere => IInv'
<1> SUFFICES ASSUME IInv, EvaluateHere PROVE IInv'
  OBVIOUS
<1>1. PICK F \in SUBSET Slots : res' = [i \in Slots |-> IF i \in F THEN 0 ELSE Score[pop[i]]]
  BY DEF EvaluateHere
<1>2. \A i \in Slots : Score[pop[i]] \in Nat
  BY ScoreTyped DEF IInv
<1>3. res' \in [Slots -> Nat \cup {Pending}]
  BY <1>1, <1>2
<1>4. TypeOK'
  BY <1>3 DEF IInv, TypeOK, EvaluateHere, measured
<1>5. ResultsOwn'
  BY <1>1 DEF EvaluateHere, ResultsOwn
<1> QED
  BY <1>4, <1>5, EvaluationKeeps DEF EvaluateHere, measured, Searching

LEMMA CollectInv == ASSUME NEW i \in Slots PROVE IInv /\ Collect(i) => IInv'
<1> SUFFICES ASSUME IInv, Collect(i) PROVE IInv'
  OBVIOUS
<1>1. PICK s \in {0, Score[pop[i]]} : res' = [res EXCEPT ![i] = s]
  BY DEF Collect, IndexOf
<1>2. s \in Nat
  BY ScoreTyped DEF IInv
<1>3. res \in [Slots -> Nat \cup {Pending}]
  BY DEF IInv, TypeOK
<1>4. res' \in [Slots -> Nat \cup {Pending}]
  BY <1>1, <1>2, <1>3
<1>5. TypeOK'
  BY <1>4 DEF IInv, TypeOK, Collect, measured
<1>6. ResultsOwn'
  BY <1>1, <1>3 DEF IInv, Collect, ResultsOwn
<1> QED
  BY <1>5, <1>6, EvaluationKeeps DEF Collect, measured, Searching

LEMMA PoolBreaksInv == IInv /\ PoolBreaks => IInv'
<1> SUFFICES ASSUME IInv, PoolBreaks PROVE IInv'
  OBVIOUS
<1>1. res' = [i \in Slots |-> IF i \in Unfinished THEN 0 ELSE res[i]]
  BY DEF PoolBreaks, Resolved
<1>2. res' \in [Slots -> Nat \cup {Pending}]
  BY <1>1 DEF IInv, TypeOK
<1>3. TypeOK'
  BY <1>2 DEF IInv, TypeOK, PoolBreaks, measured
<1>4. ResultsOwn'
  BY <1>1 DEF IInv, PoolBreaks, ResultsOwn
<1> QED
  BY <1>3, <1>4, EvaluationKeeps DEF PoolBreaks, measured, Searching

LEMMA EndGenerationInv == ASSUME NEW b \in Slots PROVE IInv /\ EndGeneration(b) => IInv'
<1> SUFFICES ASSUME IInv, EndGeneration(b) PROVE IInv'
  OBVIOUS
<1>0. /\ Searching /\ top = <<>> /\ Len(best) < MaxGen /\ best \in Seq(Nat) /\ Len(best) \in Nat
      /\ MaxGen \in Nat
  BY SizeAssumption DEF IInv, TypeOK, NotYetSelected, Searching, EndGeneration
<1>1. \A i \in Slots : res[i] \in Nat /\ res[i] \in {0, Score[pop[i]]}
  BY DEF IInv, TypeOK, ResultsOwn, EndGeneration, Unfinished
<1>2. /\ scored \in SUBSET Recorded
      /\ scored' = Recorded
      /\ \A e \in Recorded : e \in Entry /\ e.s = Score[e.c] /\ e.c \in Bred
      /\ \A i \in Slots : res[i] > 0 => \E e \in Recorded : e.s = res[i]
  <2>1. \A i \in Slots : pop[i] \in Bred /\ pop[i] \in Chrom
    BY DEF IInv, TypeOK
  <2>2. \A i \in Slots : res[i] > 0 =>
          LET e == [c |-> pop[i], s |-> res[i]]
          IN  e \in Entry /\ e.s = Score[e.c] /\ e.c \in Bred /\ e.s = res[i]
    BY <1>1, <2>1 DEF Entry
  <2>3. \A e \in scored : e \in Entry /\ e.s = Score[e.c] /\ e.c \in Bred
    BY DEF IInv, ScoredOwn
  <2>4. scored' = Recorded
    BY DEF EndGeneration
  <2>5. \A i \in Slots : res[i] > 0 => [c |-> pop[i], s |-> res[i]] \in Recorded
    BY DEF Recorded
  <2>6. \A e \in Recorded :
          e \in scored \/ \E i \in Slots : res[i] > 0 /\ e = [c |-> pop[i], s |-> res[i]]
    BY DEF Recorded
  <2>7. \A e \in Recorded : e \in Entry /\ e.s = Score[e.c] /\ e.c \in Bred
    BY <2>2, <2>3, <2>6
  <2>8. \A i \in Slots : res[i] > 0 => \E e \in Recorded : e.s = res[i]
    BY <2>2, <2>5
  <2>9. scored \in SUBSET Recorded
    BY DEF Recorded
  <2> QED
    BY <2>4, <2>7, <2>8, <2>9
<1>3. /\ best' \in Seq(Nat) /\ Len(best') = Len(best) + 1 /\ Len(best') <= MaxGen
      /\ \A k \in DOMAIN best : k \in DOMAIN best' /\ best'[k] = best[k]
      /\ \A k \in DOMAIN best' : k \in DOMAIN best \/ best'[k] = res[b]
  <2>1. best' = Append(best, res[b])
    BY DEF EndGeneration
  <2>0. res[b] \in Nat
    BY <1>1
  <2>2. best' \in Seq(Nat) /\ Len(best') = Len(best) + 1 /\ Len(best') <= MaxGen
    BY <1>0, <2>0, <2>1
  <2>3. /\ \A k \in DOMAIN best : k \in DOMAIN best' /\ best'[k] = best[k]
        /\ \A k \in DOMAIN best' : k \in DOMAIN best \/ best'[k] = res[b]
    BY <1>0, <2>1
  <2> QED
    BY <2>2, <2>3
<1>4. pop' \in [Slots -> Bred] /\ pop' \in [Slots -> Chrom]
  <2>1. CASE Ended
    BY <2>1 DEF EndGeneration, IInv, TypeOK
  <2>2. CASE ~ Ended
    <3>1. PICK low \in BOOLEAN : \E slots \in NextSlots(b, low) :
            /\ pop' \in [Slots -> UNION {slots[k] : k \in Slots}]
            /\ \A k \in Slots : pop'[k] \in slots[k]
      BY <2>2 DEF EndGeneration
    <3>2. PICK slots \in NextSlots(b, low) :
            /\ pop' \in [Slots -> UNION {slots[k] : k \in Slots}]
            /\ \A k \in Slots : pop'[k] \in slots[k]
      BY <3>1
    <3>3. pop' \in [Slots -> Bred]
      BY <3>2, NextBred DEF IInv
    <3> QED
      BY <3>3 DEF Bred
  <2> QED
    BY <2>1, <2>2
<1>5. \/ phase' = "select" /\ rest' = Recorded
      \/ phase' = "submit" /\ rest' = rest /\ Len(best') < MaxGen
  BY <1>0, <1>3 DEF EndGeneration, Ended
<1>6. injected' \in BOOLEAN
  BY DEF EndGeneration
<1>7. res' = [i \in Slots |-> Pending] /\ UNCHANGED <<conf, pool, top, holdout, cross, wfa>>
  BY DEF EndGeneration, measured
<1>8. rest' \in SUBSET scored'
  BY <1>2, <1>5 DEF IInv, TopScored
<1>9. scored' \in SUBSET Entry /\ rest' \in SUBSET Entry
  BY <1>2, <1>8
<1>10. res' \in [Slots -> Nat \cup {Pending}]
  BY <1>7
<1>11. TypeOK'
  BY <1>3, <1>4, <1>5, <1>6, <1>7, <1>9, <1>10 DEF IInv, TypeOK
<1>12. ResultsOwn'
  BY <1>7 DEF ResultsOwn
<1>13. ScoredOwn'
  BY <1>2 DEF ScoredOwn
<1>14. BestScored'
  BY <1>2, <1>3 DEF BestScored, IInv
<1>15. NotYetSelected' /\ Leader' /\ ResultsAligned'
  BY <1>0, <1>2, <1>5, <1>7 DEF NotYetSelected, Searching, Leader, ResultsAligned
<1>16. TopScored' /\ TopDiverse'
  BY <1>0, <1>7, <1>8 DEF TopScored, TopDiverse
<1> QED
  BY <1>4, <1>11, <1>12, <1>13, <1>14, <1>15, <1>16 DEF IInv

\* Steps after the search leave population and records alone.
LEMMA SelectionStep ==
  ASSUME IInv, UNCHANGED <<conf, pool, pop, res, scored, best, injected>>,
         phase' \in {"select", "guard", "measure", "filter", "done"},
         rest' \in SUBSET scored,
         top' \in Seq(Entry), Len(top') <= TopK, TopDiverse', TopScored', Leader', ResultsAligned',
         holdout' \in Seq(Chrom), cross' \in Seq(Outcome), wfa' \in Seq(Outcome)
  PROVE  IInv'
<1>1. rest' \in SUBSET Entry
  BY DEF IInv, TypeOK
<1>2. TypeOK'
  BY <1>1 DEF IInv, TypeOK
<1>3. ResultsOwn' /\ ScoredOwn' /\ BestScored' /\ NotYetSelected'
  BY DEF IInv, ResultsOwn, ScoredOwn, BestScored, NotYetSelected, Searching
<1> QED
  BY <1>2, <1>3 DEF IInv

LEMMA SelectNextInv == ASSUME NEW e PROVE IInv /\ e \in rest /\ SelectNext(e) => IInv'
<1> SUFFICES ASSUME IInv, e \in rest, SelectNext(e) PROVE IInv'
  OBVIOUS
<1>0. /\ top \in Seq(Entry) /\ Len(top) \in Nat /\ Len(top) < TopK /\ TopK \in Nat
      /\ DOMAIN top = 1 .. Len(top)
  BY SizeAssumption DEF IInv, TypeOK, SelectNext
<1>1. e \in scored /\ e \in Entry /\ \A r \in rest : r.s <= e.s
  BY DEF IInv, TopScored, ScoredOwn, SelectNext
<1>2. \/ top' = top
      \/ Diverse(e.c) /\ top' = Append(top, e)
  BY DEF SelectNext
<1>3. top = <<>> => top' = Append(top, e)
  BY DEF SelectNext, Diverse
<1>4. top' \in Seq(Entry) /\ Len(top') <= TopK
  BY <1>0, <1>1, <1>2
<1>5. \A i \in DOMAIN top' : top'[i] \in scored
  BY <1>0, <1>1, <1>2 DEF IInv, TopScored
<1>6. rest' \in SUBSET scored /\ scored' = scored
  BY DEF IInv, TopScored, SelectNext, searching
<1>7. TopScored'
  BY <1>5, <1>6 DEF TopScored
<1>8. TopDiverse'
  <2>1. CASE top' = top
    BY <2>1 DEF IInv, TopDiverse
  <2>2. CASE Diverse(e.c) /\ top' = Append(top, e)
    <3> SUFFICES ASSUME NEW i \in DOMAIN top', NEW j \in DOMAIN top', i # j
                 PROVE  <<top'[i].c, top'[j].c>> \notin Near
      BY DEF TopDiverse
    <3>1. \A k \in DOMAIN top' : (k \in DOMAIN top /\ top'[k] = top[k])
                                 \/ (k = Len(top) + 1 /\ top'[k] = e)
      BY <2>2, <1>0, <1>1
    <3>0. \A k \in DOMAIN top : top[k] \in Entry
      BY <1>0
    <3>2. \A k \in DOMAIN top : /\ top[k].c \in Chrom
                                /\ <<e.c, top[k].c>> \notin Near
      BY <2>2, <3>0 DEF Diverse, Entry
    <3>3. e.c \in Chrom
      BY <1>1 DEF Entry
    <3>4. \A k \in DOMAIN top : <<top[k].c, e.c>> \notin Near
      BY <3>2, <3>3, NearAssumption
    <3> QED
      BY <3>1, <3>2, <3>4 DEF IInv, TopDiverse
  <2> QED
    BY <2>1, <2>2, <1>2
<1>9. Leader'
  <2>1. phase = "select" /\ phase' = "select"
    BY DEF SelectNext
  <2>2. CASE top = <<>>
    <3>1. rest = scored
      BY <2>1, <2>2 DEF IInv, Leader
    <3>2. top' = <<e>>
      BY <2>2, <1>3
    <3>3. top' # <<>> /\ top'[1] = e
      BY <3>2
    <3> QED
      BY <3>1, <3>3, <1>1, <1>6 DEF Leader
  <2>3. CASE top # <<>>
    <3>1. \A r \in scored : r.s <= top[1].s
      BY <2>1, <2>3 DEF IInv, Leader
    <3>2. top' # <<>> /\ top'[1] = top[1]
      BY <2>3, <1>0, <1>1, <1>2
    <3> QED
      BY <3>1, <3>2, <1>6 DEF Leader
  <2> QED
    BY <2>2, <2>3
<1>10. ResultsAligned' /\ phase' = "select"
  BY DEF SelectNext, ResultsAligned
<1> QED
  BY <1>4, <1>6, <1>7, <1>8, <1>9, <1>10, SelectionStep
     DEF IInv, TypeOK, SelectNext, searching, measured

LEMMA SelectEndInv == IInv /\ SelectEnd => IInv'
<1> SUFFICES ASSUME IInv, SelectEnd PROVE IInv'
  OBVIOUS
<1>1. /\ phase = "select" /\ phase' = "guard"
      /\ UNCHANGED <<conf, pool, pop, res, scored, best, injected, rest, top, holdout, cross, wfa>>
  BY DEF SelectEnd, searching, measured
<1>2. Leader'
  <2>1. top = <<>> => rest = scored /\ rest = {}
    BY <1>1, SizeAssumption DEF IInv, Leader, SelectEnd
  <2> QED
    BY <1>1, <2>1 DEF IInv, Leader
<1>3. ResultsAligned' /\ TopDiverse' /\ TopScored'
  BY <1>1 DEF IInv, ResultsAligned, TopDiverse, TopScored
<1> QED
  BY <1>1, <1>2, <1>3, SelectionStep DEF IInv, TypeOK, TopScored

LEMMA GuardrailsInv == IInv /\ Guardrails => IInv'
<1> SUFFICES ASSUME IInv, Guardrails PROVE IInv'
  OBVIOUS
<1>1. PICK v \in [DOMAIN top -> {"pass", "soft", "hard"}] :
        \E f \in Enumerations(Validated(v)) : top' = At(top, f)
  BY DEF Guardrails
<1>2. PICK f \in Enumerations(Validated(v)) : top' = At(top, f)
  BY <1>1
<1>3. Validated(v) \in SUBSET DOMAIN top
  BY DEF Validated
<1>4. /\ phase' = "measure"
      /\ UNCHANGED <<conf, pool, pop, res, scored, best, injected, rest, holdout, cross, wfa>>
  BY DEF Guardrails, searching, measured
<1>5. TypeOK /\ TopDiverse /\ TopScored
  BY DEF IInv
<1>6. /\ top' \in Seq(Entry) /\ Len(top') <= TopK
      /\ TopDiverse' /\ TopScored'
  BY <1>2, <1>3, <1>4, <1>5, SelectionKeeps
<1>7. Leader' /\ ResultsAligned'
  BY <1>4 DEF Leader, ResultsAligned
<1> QED
  BY <1>4, <1>5, <1>6, <1>7, SelectionStep DEF TypeOK, TopScored

LEMMA MeasureInv == IInv /\ Measure => IInv'
<1> SUFFICES ASSUME IInv, Measure PROVE IInv'
  OBVIOUS
<1>1. /\ phase' = "filter"
      /\ UNCHANGED <<conf, pool, pop, res, scored, best, injected, rest, top>>
  BY DEF Measure, searching
<1>2. /\ top \in Seq(Entry) /\ Len(top) \in Nat /\ DOMAIN top = 1 .. Len(top)
      /\ \A i \in DOMAIN top : top[i].c \in Chrom
  <2>1. top \in Seq(Entry)
    BY DEF IInv, TypeOK
  <2>2. \A i \in DOMAIN top : top[i] \in Entry
    BY <2>1
  <2> QED
    BY <2>1, <2>2 DEF Entry
<1>3. holdout' \in {<<>>, [i \in DOMAIN top |-> top[i].c]}
  BY DEF Measure
<1>4. \A s \in {cross', wfa'} : s = <<>> \/ s \in Outcomes
  BY DEF Measure
<1>5. holdout' \in Seq(Chrom)
  <2>1. [i \in DOMAIN top |-> top[i].c] \in Seq(Chrom)
    BY <1>2
  <2>2. <<>> \in Seq(Chrom)
    OBVIOUS
  <2> QED
    BY <1>3, <2>1, <2>2
<1>6. \A s \in Outcomes : /\ s \in Seq(Outcome)
                          /\ [i \in DOMAIN s |-> s[i].c] = [i \in DOMAIN top |-> top[i].c]
  <2> SUFFICES ASSUME NEW ok \in [DOMAIN top -> BOOLEAN],
                      NEW s, s = [i \in DOMAIN top |-> [c |-> top[i].c, ok |-> ok[i]]]
               PROVE  /\ s \in Seq(Outcome)
                      /\ [i \in DOMAIN s |-> s[i].c] = [i \in DOMAIN top |-> top[i].c]
    BY DEF Outcomes
  <2>1. \A i \in DOMAIN top : s[i] \in Outcome
    BY <1>2 DEF Outcome
  <2>2. s \in Seq(Outcome)
    BY <1>2, <2>1
  <2> QED
    BY <2>2
<1>7. cross' \in Seq(Outcome) /\ wfa' \in Seq(Outcome)
  <2>1. <<>> \in Seq(Outcome)
    OBVIOUS
  <2> QED
    BY <1>4, <1>6, <2>1
<1>8. ResultsAligned'
  BY <1>1, <1>3, <1>4, <1>6 DEF ResultsAligned
<1>9. Leader' /\ TopDiverse' /\ TopScored'
  BY <1>1 DEF IInv, Leader, TopDiverse, TopScored
<1> QED
  BY <1>1, <1>5, <1>7, <1>8, <1>9, SelectionStep DEF IInv, TypeOK, TopScored

\* A list of results under the filter of the strategies.
LEMMA FilteredKeeps ==
  ASSUME NEW S, NEW s \in Seq(S), NEW K \in SUBSET DOMAIN top, NEW f \in Enumerations(K),
         s # <<>> => DOMAIN s = DOMAIN top
  PROVE  /\ Filtered(s, f) \in Seq(S)
         /\ Filtered(s, f) # <<>> => /\ s # <<>>
                                   /\ DOMAIN Filtered(s, f) = DOMAIN f
                                   /\ \A m \in DOMAIN f : Filtered(s, f)[m] = s[f[m]]
<1>1. CASE s = <<>>
  BY <1>1 DEF Filtered
<1>2. CASE s # <<>>
  BY <1>2, Selection DEF Filtered
<1> QED
  BY <1>1, <1>2

LEMMA FilterInv == IInv /\ Filter => IInv'
<1> SUFFICES ASSUME IInv, Filter PROVE IInv'
  OBVIOUS
<1>1. /\ phase = "filter" /\ phase' = "done"
      /\ UNCHANGED <<conf, pool, pop, res, scored, best, injected, rest>>
  BY DEF Filter, searching
<1>2. CASE UNCHANGED <<top, measured>>
  <2>1. ResultsAligned' /\ Leader' /\ TopDiverse' /\ TopScored'
    BY <1>1, <1>2 DEF IInv, ResultsAligned, Leader, TopDiverse, TopScored, measured
  <2> QED
    BY <1>1, <1>2, <2>1, SelectionStep DEF IInv, TypeOK, TopScored, measured
<1>3. ASSUME NEW f \in Enumerations(Kept),
             top' = At(top, f), holdout' = Filtered(holdout, f),
             cross' = Filtered(cross, f), wfa' = Filtered(wfa, f)
      PROVE  IInv'
  <2>1. /\ TypeOK /\ TopDiverse /\ TopScored
        /\ top \in Seq(Entry) /\ holdout \in Seq(Chrom)
        /\ cross \in Seq(Outcome) /\ wfa \in Seq(Outcome)
    BY DEF IInv, TypeOK
  <2>2. Kept \in SUBSET DOMAIN top
    BY DEF Kept
  <2>3. /\ top' \in Seq(Entry) /\ Len(top') <= TopK
        /\ TopDiverse' /\ TopScored'
    BY <1>1, <1>3, <2>1, <2>2, SelectionKeeps
  <2>4. /\ DOMAIN top' = DOMAIN f
        /\ \A m \in DOMAIN f : f[m] \in DOMAIN top /\ top'[m] = top[f[m]]
    <3>1. /\ DOMAIN At(top, f) = DOMAIN f
          /\ \A m \in DOMAIN f : f[m] \in Kept /\ At(top, f)[m] = top[f[m]]
      <4> DEFINE K == Kept
      <4>1. K \in SUBSET DOMAIN top /\ f \in Enumerations(K) /\ top \in Seq(Entry)
        BY <1>3, <2>1, <2>2
      <4> HIDE DEF K
      <4>2. /\ DOMAIN At(top, f) = DOMAIN f
            /\ \A m \in DOMAIN f : f[m] \in K /\ At(top, f)[m] = top[f[m]]
        BY <4>1, Selection
      <4> QED
        BY <4>2 DEF K
    <3> QED
      BY <1>3, <2>2, <3>1
  <2>5. /\ holdout # <<>> => holdout = [i \in DOMAIN top |-> top[i].c]
        /\ \A s \in {cross, wfa} :
             s # <<>> => [i \in DOMAIN s |-> s[i].c] = [i \in DOMAIN top |-> top[i].c]
    BY <1>1 DEF IInv, ResultsAligned
  <2>6. /\ holdout # <<>> => /\ DOMAIN holdout = DOMAIN top
                            /\ \A i \in DOMAIN top : holdout[i] = top[i].c
        /\ \A s \in {cross, wfa} :
             s # <<>> => DOMAIN s = DOMAIN top /\ \A i \in DOMAIN top : s[i].c = top[i].c
    BY <2>5
  <2>7. holdout' \in Seq(Chrom) /\ cross' \in Seq(Outcome) /\ wfa' \in Seq(Outcome)
    BY <1>3, <2>1, <2>2, <2>6, FilteredKeeps
  <2>8. holdout' # <<>> => holdout' = [i \in DOMAIN top' |-> top'[i].c]
    <3> SUFFICES ASSUME holdout' # <<>> PROVE holdout' = [i \in DOMAIN top' |-> top'[i].c]
      OBVIOUS
    <3>1. /\ holdout # <<>> /\ DOMAIN holdout' = DOMAIN f
          /\ \A m \in DOMAIN f : holdout'[m] = holdout[f[m]]
      BY <1>3, <2>1, <2>2, <2>6, FilteredKeeps
    <3>2. \A m \in DOMAIN top' : holdout'[m] = top'[m].c
      BY <2>4, <2>6, <3>1
    <3>3. holdout' = [m \in DOMAIN holdout' |-> holdout'[m]]
      BY <2>7
    <3> QED
      BY <2>4, <3>1, <3>2, <3>3
  <2>9. \A s \in {cross', wfa'} :
          s # <<>> => [i \in DOMAIN s |-> s[i].c] = [i \in DOMAIN top' |-> top'[i].c]
    <3>1. ASSUME NEW s \in {cross, wfa}, Filtered(s, f) # <<>>
          PROVE  [i \in DOMAIN Filtered(s, f) |-> Filtered(s, f)[i].c]
                   = [i \in DOMAIN top' |-> top'[i].c]
      <4>1. s \in Seq(Outcome) /\ (s # <<>> => DOMAIN s = DOMAIN top)
        BY <2>1, <2>6, <3>1
      <4>2. /\ s # <<>> /\ DOMAIN Filtered(s, f) = DOMAIN f
            /\ \A m \in DOMAIN f : Filtered(s, f)[m] = s[f[m]]
        BY <2>2, <3>1, <4>1, FilteredKeeps
      <4>3. \A m \in DOMAIN top' : Filtered(s, f)[m].c = top'[m].c
        BY <2>4, <2>6, <4>2
      <4> QED
        BY <2>4, <4>2, <4>3
    <3> QED
      BY <1>3, <3>1
  <2>10. ResultsAligned' /\ Leader'
    BY <1>1, <2>8, <2>9 DEF ResultsAligned, Leader
  <2> QED
    BY <1>1, <2>1, <2>3, <2>7, <2>10, SelectionStep DEF TopScored
<1> QED
  BY <1>2, <1>3 DEF Filter

LEMMA Inductive == IInv /\ [Next]_vars => IInv'
<1> SUFFICES ASSUME IInv, [Next]_vars PROVE IInv'
  OBVIOUS
<1>1. CASE Submit
  BY <1>1, SubmitInv
<1>2. CASE EvaluateHere
  BY <1>2, EvaluateHereInv
<1>3. CASE \E i \in Slots : Collect(i)
  BY <1>3, CollectInv
<1>4. CASE PoolBreaks
  BY <1>4, PoolBreaksInv
<1>5. CASE \E b \in Slots : EndGeneration(b)
  BY <1>5, EndGenerationInv
<1>6. CASE \E e \in rest : SelectNext(e)
  BY <1>6, SelectNextInv
<1>7. CASE SelectEnd
  BY <1>7, SelectEndInv
<1>8. CASE Guardrails
  BY <1>8, GuardrailsInv
<1>9. CASE Measure
  BY <1>9, MeasureInv
<1>10. CASE Filter
  BY <1>10, FilterInv
<1>11. CASE UNCHANGED vars
  BY <1>11 DEF vars, searching, measured, IInv, TypeOK, ResultsOwn, ScoredOwn, BestScored,
     NotYetSelected, Searching, Leader, TopScored, TopDiverse, ResultsAligned
<1> QED
  BY <1>1, <1>2, <1>3, <1>4, <1>5, <1>6, <1>7, <1>8, <1>9, <1>10, <1>11 DEF Next

LEMMA Always == Spec => []IInv
  BY InitInv, Inductive, PTL DEF Spec

-----------------------------------------------------------------------------
(* Theorems *)

\* Every field keeps its type: in particular best_fitness never has more
\* entries than generations, and at most top_k strategies are selected.
THEOREM TypeCorrect == Spec => []TypeOK
<1>1. IInv => TypeOK
  BY DEF IInv
<1> QED
  BY <1>1, Always, PTL

\* With a direction constraint the search never holds, records or reports a
\* chromosome of another direction (initialize_population, crossover and
\* mutation in both kinds of evolution, and random immigrants).
THEOREM DirectionHolds == Spec => []DirectionKept
<1>1. IInv => DirectionKept
  <2> SUFFICES ASSUME IInv, Constraint # NoDir PROVE DirectionKept
    BY DEF DirectionKept
  <2>1. \A i \in Slots : pop[i].d = Constraint
    BY DEF IInv, Bred
  <2>2. \A i \in DOMAIN top : top[i].c.d = Constraint
    BY DEF IInv, TopScored, ScoredOwn, Bred
  <2> QED
    BY <2>1, <2>2 DEF DirectionKept
<1> QED
  BY <1>1, Always, PTL

\* Selection, the guardrails and the filter leave no two strategies nearer
\* than the minimum distance (_select_diverse_top_k).
THEOREM ReportedDiffer == Spec => []TopDiverse
<1>1. IInv => TopDiverse
  BY DEF IInv
<1> QED
  BY <1>1, Always, PTL

\* Whatever stages ran and whatever they rejected, the result lists of a run
\* stay parallel to its strategies (the filter in DiscoveryPipeline.run).
THEOREM ReportedOwn == Spec => []ResultsAligned
<1>1. IInv => ResultsAligned
  BY DEF IInv
<1> QED
  BY <1>1, Always, PTL

\* The first strategy selected is as good as the best of every generation,
\* though pools break, results are lost and come in any order, and later
\* generations lose the best chromosome.
THEOREM BestReported == Spec => []TopIsBest
<1>1. IInv => TopIsBest
  <2> SUFFICES ASSUME IInv, phase = "guard", NEW k \in DOMAIN best, best[k] > 0
               PROVE  top # <<>> /\ best[k] <= Score[top[1].c]
    BY DEF TopIsBest
  <2>1. PICK e \in scored : e.s = best[k]
    BY DEF IInv, BestScored
  <2>2. top # <<>> /\ e.s <= top[1].s
    BY <2>1 DEF IInv, Leader
  <2>3. top[1] \in scored
    <3>1. top \in Seq(Entry)
      BY DEF IInv, TypeOK
    <3>2. 1 \in DOMAIN top
      BY <2>2, <3>1
    <3> QED
      BY <3>2 DEF IInv, TopScored
  <2>4. top[1].s = Score[top[1].c]
    BY <2>3 DEF IInv, ScoredOwn
  <2> QED
    BY <2>1, <2>2, <2>4
<1> QED
  BY <1>1, Always, PTL

-----------------------------------------------------------------------------
(* What breeding leaves of a genome.  A chromosome that fits (Fit) stays   *)
(* one whatever an operator does; if is_valid_chromosome accepts it as     *)
(* well, so does the full validator.                                       *)

IsList(s) == s \in Seq(ToSet(s))

FitList(s, p) == IsList(s) /\ \A g \in ToSet(s) : FitGene(g, p)

LEMMA ListOf ==
  ASSUME NEW S, NEW s \in Seq(S)
  PROVE  IsList(s) /\ ToSet(s) \subseteq S
  <1>1. Len(s) \in Nat /\ DOMAIN s = 1 .. Len(s) /\ \A i \in DOMAIN s : s[i] \in S
    OBVIOUS
  <1>2. s = [i \in 1 .. Len(s) |-> s[i]]
    OBVIOUS
  <1>3. \A i \in 1 .. Len(s) : s[i] \in ToSet(s)
    BY <1>1 DEF ToSet
  <1>4. s \in [1 .. Len(s) -> ToSet(s)]
    BY <1>2, <1>3
  <1>5. s \in Seq(ToSet(s))
    BY <1>1, <1>4
  <1>6. ToSet(s) \subseteq S
    BY <1>1 DEF ToSet
  <1> QED BY <1>5, <1>6 DEF IsList

LEMMA FitElements ==
  ASSUME NEW p, NEW S, NEW s \in Seq(S), \A g \in S : FitGene(g, p)
  PROVE  FitList(s, p)
  BY ListOf DEF FitList

LEMMA FitParts ==
  ASSUME NEW c
  PROVE  Fit(c) <=> /\ c = [genes |-> c.genes, stops |-> c.stops, dir |-> c.dir] /\ DOMAIN c.genes = Lists
                    /\ \A p \in Lists : FitList(c.genes[p], p)
  BY DEF Fit, FitList, IsList

LEMMA PicksIs ==
  ASSUME NEW sets, NEW f \in Picks(sets)
  PROVE  DOMAIN f = DOMAIN sets /\ f = [n \in DOMAIN sets |-> f[n]] /\ \A n \in DOMAIN sets : f[n] \in sets[n]
  BY DEF Picks

LEMMA ListsPicked ==
  ASSUME NEW sets, NEW f \in PickLists(sets)
  PROVE  DOMAIN f = Lists /\ \A p \in Lists : f[p] \in sets[p]
  <1>1. DOMAIN f = {"entry", "exit", "ma_entry", "ma_exit"}
    BY DEF PickLists
  <1>2. /\ f["entry"] \in sets["entry"] /\ f["exit"] \in sets["exit"]
        /\ f["ma_entry"] \in sets["ma_entry"] /\ f["ma_exit"] \in sets["ma_exit"]
    BY DEF PickLists
  <1> QED BY <1>1, <1>2 DEF Lists, Scalar

LEMMA PoolKnown ==
  ASSUME NEW p
  PROVE  PoolOf(p) \subseteq DOMAIN ParamRanges
  BY RangesAssumption DEF PoolOf

LEMMA RangesTyped ==
  ASSUME NEW i \in DOMAIN ParamRanges
  PROVE  /\ IsRange(ThresholdRanges[i])
         /\ \A n \in DOMAIN ParamRanges[i] : IsRange(ParamRanges[i][n])
  BY RangesAssumption

LEMMA ClampIn ==
  ASSUME NEW v \in Int, NEW r, IsRange(r)
  PROVE  Clamp(v, r) \in Int /\ InRange(Clamp(v, r), r)
  <1>1. r[1] \in Int /\ r[2] \in Int /\ r[1] <= r[2]
    BY DEF IsRange
  <1> QED BY <1>1 DEF Clamp, InRange

LEMMA PerturbIn ==
  ASSUME NEW v \in Int, NEW r, IsRange(r), NEW x \in Perturb(v, r)
  PROVE  x \in Int /\ InRange(x, r)
  <1>1. PICK d \in {-1, 0, 1} : x = Clamp(v + d, r)
    BY DEF Perturb
  <1>2. v + d \in Int
    BY <1>1
  <1> QED BY <1>1, <1>2, ClampIn

\* MACD stays in its ranges, and its periods come in order.
LEMMA EnforceFits ==
  ASSUME NEW i \in DOMAIN ParamRanges, NEW f \in [DOMAIN ParamRanges[i] -> Int]
  PROVE  LET e == Enforce(i, f)
             r == ParamRanges[i]
         IN  /\ e \in [DOMAIN r -> Int]
             /\ (\A n \in DOMAIN r : InRange(f[n], r[n])) => \A n \in DOMAIN r : InRange(e[n], r[n])
             /\ i = Macd => e.fast < e.slow
  <1> DEFINE e == Enforce(i, f)
             r == ParamRanges[i]
             D == DOMAIN r
  <1>1. CASE i = Macd /\ f.fast >= f.slow
    <2>1. /\ "fast" \in D /\ "slow" \in D /\ IsRange(r["fast"]) /\ IsRange(r["slow"])
          /\ r["fast"][1] <= r["slow"][1] /\ r["fast"][2] < r["slow"][2]
      <3>1. /\ {"fast", "slow"} \subseteq D
            /\ r.fast[1] <= r.slow[1] /\ r.fast[2] < r.slow[2]
        BY <1>1, RangesAssumption
      <3> QED BY <3>1, RangesTyped
    <2> HIDE DEF D
    <2>2. f["fast"] \in Int /\ f["slow"] \in Int /\ f["fast"] >= f["slow"] /\ f \in [D -> Int]
      BY <1>1, <2>1 DEF D
    <2>3. e = [f EXCEPT !["fast"] = f["slow"], !["slow"] = f["fast"] + 1]
      BY <1>1 DEF Enforce
    <2> HIDE DEF e
    <2>4. /\ e \in [D -> Int] /\ e["fast"] = f["slow"] /\ e["slow"] = f["fast"] + 1
          /\ \A n \in D : n # "fast" /\ n # "slow" => e[n] = f[n]
      BY <2>1, <2>2, <2>3
    <2>5. e["fast"] < e["slow"]
      BY <2>2, <2>4
    <2>6. ASSUME \A n \in D : InRange(f[n], r[n]) PROVE \A n \in D : InRange(e[n], r[n])
      <3>1. /\ r["fast"][1] \in Int /\ r["fast"][2] \in Int /\ r["slow"][1] \in Int /\ r["slow"][2] \in Int
        BY <2>1 DEF IsRange
      <3>2. /\ r["fast"][1] <= f["fast"] /\ f["fast"] <= r["fast"][2]
            /\ r["slow"][1] <= f["slow"] /\ f["slow"] <= r["slow"][2]
        BY <2>1, <2>6 DEF InRange
      <3>3. r["fast"][1] <= f["slow"] /\ f["slow"] <= r["fast"][2]
        BY <2>1, <2>2, <3>1, <3>2
      <3>4. r["slow"][1] <= f["fast"] + 1 /\ f["fast"] + 1 <= r["slow"][2]
        BY <2>1, <2>2, <3>1, <3>2
      <3>5. InRange(e["fast"], r["fast"]) /\ InRange(e["slow"], r["slow"])
        BY <2>4, <3>3, <3>4 DEF InRange
      <3> QED BY <2>4, <2>6, <3>5
    <2> QED BY <2>4, <2>5, <2>6 DEF D, e
  <1>2. CASE ~ (i = Macd /\ f.fast >= f.slow)
    <2>1. e = f
      BY <1>2 DEF Enforce
    <2>2. i = Macd => f["fast"] \in Int /\ f["slow"] \in Int
      <3>1. i = Macd => {"fast", "slow"} \subseteq D
        BY RangesAssumption
      <3> QED BY <3>1
    <2>3. i = Macd => f.fast < f.slow
      BY <1>2, <2>2
    <2> QED BY <2>1, <2>3
  <1> QED BY <1>1, <1>2

LEMMA RandomParamsFit ==
  ASSUME NEW i \in DOMAIN ParamRanges, NEW f \in RandomParams(i)
  PROVE  /\ f \in [DOMAIN ParamRanges[i] -> Int] /\ (i = Macd => f.fast < f.slow)
         /\ \A n \in DOMAIN ParamRanges[i] : InRange(f[n], ParamRanges[i][n])
  <1> DEFINE r == ParamRanges[i]
  <1>1. PICK h \in Picks(Interval(r)) : f = Enforce(i, h)
    BY DEF RandomParams
  <1>2. DOMAIN Interval(r) = DOMAIN r /\ \A n \in DOMAIN r : Interval(r)[n] = r[n][1] .. r[n][2]
    BY DEF Interval
  <1> HIDE DEF r
  <1>3. /\ h = [n \in DOMAIN r |-> h[n]] /\ \A n \in DOMAIN r : h[n] \in r[n][1] .. r[n][2]
    BY <1>2, PicksIs
  <1>4. \A n \in DOMAIN r : IsRange(r[n])
    BY RangesTyped DEF r
  <1>5. \A n \in DOMAIN r : h[n] \in Int /\ InRange(h[n], r[n])
    BY <1>3, <1>4 DEF IsRange, InRange
  <1>6. h \in [DOMAIN r -> Int]
    BY <1>3, <1>5
  <1> QED BY <1>1, <1>5, <1>6, EnforceFits DEF r

LEMMA RandomGeneFits ==
  ASSUME NEW p, NEW g \in RandomGenes(p)
  PROVE  FitGene(g, p) /\ IsValidGene(g, p)
  <1>1. PICK i \in PoolOf(p) :
          g \in [ind : {i}, params : RandomParams(i), thr : ThresholdRanges[i][1] .. ThresholdRanges[i][2]]
    BY DEF RandomGenes
  <1>2. i \in DOMAIN ParamRanges
    BY <1>1, PoolKnown
  <1>3. /\ g = [ind |-> i, params |-> g.params, thr |-> g.thr] /\ g.params \in RandomParams(i)
        /\ g.ind = i /\ g.thr \in ThresholdRanges[i][1] .. ThresholdRanges[i][2]
    BY <1>1
  <1>4. g.thr \in Int /\ InRange(g.thr, ThresholdRanges[i])
    BY <1>2, <1>3, RangesTyped DEF IsRange, InRange
  <1>5. /\ g.params \in [DOMAIN ParamRanges[i] -> Int] /\ (i = Macd => g.params.fast < g.params.slow)
        /\ \A n \in DOMAIN ParamRanges[i] : InRange(g.params[n], ParamRanges[i][n])
    BY <1>2, <1>3, RandomParamsFit
  <1>6. DOMAIN g.params = DOMAIN ParamRanges[i]
    BY <1>5
  <1>7. FitGene(g, p)
    BY <1>2, <1>3, <1>4, <1>5, <1>6 DEF FitGene
  <1>8. IsValidGene(g, p)
    BY <1>1, <1>3, <1>4, <1>5, <1>6 DEF IsValidGene
  <1> QED BY <1>7, <1>8

\* Another indicator, other parameters or another threshold.
LEMMA PerturbParamsFit ==
  ASSUME NEW p, NEW g, FitGene(g, p), NEW f \in PerturbParams(g, p)
  PROVE  /\ f \in [DOMAIN ParamRanges[g.ind] -> Int]
         /\ g.ind \in PoolOf(p) => \A n \in DOMAIN ParamRanges[g.ind] : InRange(f[n], ParamRanges[g.ind][n])
  <1> DEFINE r == ParamRanges[g.ind]
             step(n) == IF g.ind \in PoolOf(p) THEN Perturb(g.params[n], r[n])
                        ELSE {g.params[n] - 1, g.params[n], g.params[n] + 1}
             steps == [n \in DOMAIN g.params |-> step(n)]
  <1>1. PICK h \in Picks(steps) : f = Enforce(g.ind, h)
    BY DEF PerturbParams
  <1>2. g.ind \in DOMAIN ParamRanges /\ g.params \in [DOMAIN r -> Int]
    BY DEF FitGene
  <1>3. \A n \in DOMAIN r : IsRange(r[n])
    BY <1>2, RangesTyped
  <1>4. DOMAIN steps = DOMAIN r /\ \A n \in DOMAIN r : steps[n] = step(n)
    BY <1>2
  <1> HIDE DEF steps, step
  <1>5. h = [n \in DOMAIN r |-> h[n]] /\ \A n \in DOMAIN r : h[n] \in step(n)
    BY <1>4, PicksIs
  <1> HIDE DEF r
  <1>6. ASSUME NEW n \in DOMAIN r PROVE h[n] \in Int /\ (g.ind \in PoolOf(p) => InRange(h[n], r[n]))
    <2>1. g.params[n] \in Int /\ h[n] \in step(n) /\ IsRange(r[n])
      BY <1>2, <1>3, <1>5
    <2>2. CASE g.ind \in PoolOf(p)
      <3>1. h[n] \in Perturb(g.params[n], r[n])
        BY <2>1, <2>2 DEF step, r
      <3> QED BY <2>1, <3>1, PerturbIn
    <2>3. CASE g.ind \notin PoolOf(p)
      <3>1. h[n] \in {g.params[n] - 1, g.params[n], g.params[n] + 1}
        BY <2>1, <2>3 DEF step, r
      <3> QED BY <2>1, <2>3, <3>1
    <2> QED BY <2>2, <2>3
  <1>7. h \in [DOMAIN r -> Int]
    BY <1>5, <1>6
  <1>8. /\ Enforce(g.ind, h) \in [DOMAIN r -> Int]
        /\ (\A n \in DOMAIN r : InRange(h[n], r[n])) => \A n \in DOMAIN r : InRange(Enforce(g.ind, h)[n], r[n])
    BY <1>2, <1>7, EnforceFits DEF r
  <1> QED BY <1>1, <1>6, <1>8 DEF r

LEMMA MutatedFits ==
  ASSUME NEW p, NEW g, FitGene(g, p), NEW h \in MutateSingleGene(g, p)
  PROVE  FitGene(h, p)
  <1>1. /\ g = [ind |-> g.ind, params |-> g.params, thr |-> g.thr] /\ g.ind \in DOMAIN ParamRanges /\ g.thr \in Int
        /\ g.params \in [DOMAIN ParamRanges[g.ind] -> Int]
    BY DEF FitGene
  <1>2. CASE h \in RandomGenes(p)
    BY <1>2, RandomGeneFits
  <1>3. ASSUME NEW f \in PerturbParams(g, p), h = [g EXCEPT !.params = f] PROVE FitGene(h, p)
    <2>1. h.ind = g.ind /\ h.params = f /\ h.thr = g.thr /\ h = [ind |-> g.ind, params |-> f, thr |-> g.thr]
      BY <1>1, <1>3
    <2>2. /\ f \in [DOMAIN ParamRanges[g.ind] -> Int]
          /\ g.ind \in PoolOf(p) => \A n \in DOMAIN ParamRanges[g.ind] : InRange(f[n], ParamRanges[g.ind][n])
      BY PerturbParamsFit
    <2> QED BY <1>1, <2>1, <2>2 DEF FitGene
  <1>4. ASSUME NEW t \in Perturb(g.thr, ThresholdRanges[g.ind]), h = [g EXCEPT !.thr = t] PROVE FitGene(h, p)
    <2>1. h.ind = g.ind /\ h.params = g.params /\ h.thr = t /\ h = [ind |-> g.ind, params |-> g.params, thr |-> t]
      BY <1>1, <1>4
    <2>2. t \in Int
      BY <1>1, RangesTyped, PerturbIn
    <2> QED BY <1>1, <2>1, <2>2 DEF FitGene
  <1> QED BY <1>2, <1>3, <1>4 DEF MutateSingleGene

\* Lists that are filled up or cut off.
LEMMA ClampGenesFit ==
  ASSUME NEW p \in Lists, NEW S, NEW s \in Seq(S), \A g \in S : FitGene(g, p), NEW t \in ClampGenes(s, p)
  PROVE  FitList(t, p)
  <1> DEFINE R == RandomGenes(p)
  <1>1. MinGenes[p] \in Nat /\ MaxGenes[p] \in Nat
    BY RangesAssumption
  <1>2. \A g \in S \cup R : FitGene(g, p)
    BY RandomGeneFits
  <1> HIDE DEF R
  <1>3. CASE Len(s) < MinGenes[p]
    <2>1. PICK fill \in SeqOf(R, MinGenes[p]) : t = s \o fill
      BY <1>3 DEF ClampGenes, R
    <2>2. PICK m \in 0 .. MinGenes[p] : fill \in [1 .. m -> R]
      BY DEF SeqOf
    <2>3. fill \in Seq(R)
      BY <1>1, <2>2
    <2>4. fill \in Seq(S \cup R) /\ s \in Seq(S \cup R)
      BY <2>3
    <2>5. t \in Seq(S \cup R)
      BY <2>1, <2>4
    <2> QED BY <1>2, <2>5, FitElements
  <1>4. CASE ~ (Len(s) < MinGenes[p])
    <2> DEFINE m == IF Len(s) > MaxGenes[p] THEN MaxGenes[p] ELSE Len(s)
    <2>1. t = SubSeq(s, 1, m)
      BY <1>4 DEF ClampGenes
    <2>2. m \in Int /\ \A i \in 1 .. m : s[i] \in S
      BY <1>1
    <2> HIDE DEF m
    <2>3. SubSeq(s, 1, m) \in Seq(S)
      BY <2>2, SubSeqProperties
    <2> QED BY <2>1, <2>3, FitElements
  <1> QED BY <1>3, <1>4

\* What is picked along rising places is a list.
LEMMA RisingPicks ==
  ASSUME NEW S, NEW places, IsFiniteSet(places), NEW due, NEW q \in Rising(places, due),
         NEW sets, DOMAIN sets = DOMAIN q, \A k \in DOMAIN q : sets[k] \subseteq S, NEW f \in Picks(sets)
  PROVE  f \in Seq(S)
  <1>1. Cardinality(places) \in Nat
    BY FS_CardinalityType
  <1>2. PICK m \in 0 .. Cardinality(places) : q \in [1 .. m -> places]
    BY DEF Rising, SeqOf
  <1>3. m \in Nat /\ DOMAIN q = 1 .. m
    BY <1>1, <1>2
  <1>4. f = [k \in 1 .. m |-> f[k]] /\ \A k \in 1 .. m : f[k] \in S
    BY <1>3, PicksIs
  <1>5. f \in [1 .. m -> S]
    BY <1>4
  <1> QED BY <1>3, <1>5

LEMMA RisingPlaces ==
  ASSUME NEW places, IsFiniteSet(places), NEW due, NEW q \in Rising(places, due), NEW k \in DOMAIN q
  PROVE  q[k] \in places
  <1>1. PICK m \in 0 .. Cardinality(places) : q \in [1 .. m -> places]
    BY DEF Rising, SeqOf
  <1> QED BY <1>1

LEMMA CrossoverGenesFit ==
  ASSUME NEW p \in Lists, NEW a, NEW b, FitList(a, p), FitList(b, p), NEW t \in CrossoverGenes(a, b, p)
  PROVE  FitList(t, p)
  <1> DEFINE both == IF Len(a) < Len(b) THEN Len(a) ELSE Len(b)
             longer == IF Len(a) < Len(b) THEN b ELSE a
             here(n) == IF n <= both THEN {a[n], b[n]} ELSE {longer[n]}
             children == UNION {Picks([k \in DOMAIN q |-> here(q[k])]) : q \in Rising(DOMAIN longer, 1 .. both)}
             S == ToSet(a) \cup ToSet(b)
  <1>0. CrossoverGenes(a, b, p) = UNION {ClampGenes(s, p) : s \in children}
    BY DEF CrossoverGenes
  <1> HIDE DEF children
  <1>1. PICK s \in children : t \in ClampGenes(s, p)
    BY <1>0
  <1>2. /\ Len(a) \in Nat /\ DOMAIN a = 1 .. Len(a) /\ Len(b) \in Nat /\ DOMAIN b = 1 .. Len(b)
    BY DEF FitList, IsList
  <1>3. \A n \in DOMAIN longer : here(n) \subseteq S
    <2> SUFFICES ASSUME NEW n \in DOMAIN longer PROVE here(n) \subseteq S
      OBVIOUS
    <2>1. CASE n <= both
      <3>1. n \in DOMAIN a /\ n \in DOMAIN b
        BY <1>2, <2>1
      <3> QED BY <2>1, <3>1 DEF ToSet
    <2>2. CASE ~ (n <= both)
      <3>1. longer[n] \in S
        BY DEF ToSet
      <3> QED BY <2>2, <3>1
    <2> QED BY <2>1, <2>2
  <1>4. IsFiniteSet(DOMAIN longer)
    <2>1. IsFiniteSet(1 .. Len(a)) /\ IsFiniteSet(1 .. Len(b))
      BY <1>2, FS_Interval
    <2> QED BY <1>2, <2>1
  <1>5. \A g \in S : FitGene(g, p)
    BY DEF FitList, IsList
  <1>q. PICK q \in Rising(DOMAIN longer, 1 .. both) : s \in Picks([k \in DOMAIN q |-> here(q[k])])
    BY DEF children
  <1> HIDE DEF S, here, both, longer
  <1> DEFINE sets == [k \in DOMAIN q |-> here(q[k])]
  <1>6. DOMAIN sets = DOMAIN q /\ \A k \in DOMAIN q : sets[k] \subseteq S
    BY <1>3, <1>4, RisingPlaces
  <1>7. s \in Picks(sets)
    BY <1>q
  <1> HIDE DEF sets
  <1>8. s \in Seq(S)
    BY <1>4, <1>6, <1>7, RisingPicks
  <1> QED BY <1>1, <1>5, <1>8, ClampGenesFit

LEMMA RepairGeneFits ==
  ASSUME NEW p, NEW g, FitGene(g, p), p \in Scalar \/ g.ind \in Averages, NEW h \in RepairGene(g, p)
  PROVE  FitGene(h, p)
  <1> DEFINE r == ParamRanges[g.ind]
             params == IF p \in Scalar THEN Enforce(g.ind, g.params)
                       ELSE [n \in DOMAIN g.params |-> Clamp(g.params[n], r[n])]
             thr == ThresholdRanges[g.ind]
             thrs == IF InRange(g.thr, thr) THEN {g.thr} ELSE thr[1] .. thr[2]
  <1>1. /\ g.ind \in DOMAIN ParamRanges /\ g.thr \in Int /\ g.params \in [DOMAIN r -> Int]
        /\ g.ind \in PoolOf(p) => \A n \in DOMAIN r : InRange(g.params[n], r[n])
    BY DEF FitGene
  <1>2. h \in [ind : {g.ind}, params : {params}, thr : thrs]
    BY DEF RepairGene
  <1>3. \A n \in DOMAIN r : IsRange(r[n])
    BY <1>1, RangesTyped
  <1>4. thrs \subseteq Int
    BY <1>1
  <1>5. params \in [DOMAIN r -> Int] /\ (g.ind \in PoolOf(p) => \A n \in DOMAIN r : InRange(params[n], r[n]))
    <2>1. CASE p \in Scalar
      <3>1. params = Enforce(g.ind, g.params)
        BY <2>1
      <3> HIDE DEF params
      <3> QED BY <1>1, <3>1, EnforceFits
    <2>2. CASE p \notin Scalar
      <3>1. params = [n \in DOMAIN r |-> Clamp(g.params[n], r[n])]
        BY <1>1, <2>2
      <3> HIDE DEF params, r
      <3>2. \A n \in DOMAIN r : Clamp(g.params[n], r[n]) \in Int /\ InRange(Clamp(g.params[n], r[n]), r[n])
        BY <1>1, <1>3, ClampIn
      <3> QED BY <3>1, <3>2
    <2> QED BY <2>1, <2>2
  <1> HIDE DEF params, thrs
  <1>6. /\ h = [ind |-> h.ind, params |-> h.params, thr |-> h.thr]
        /\ h.ind = g.ind /\ h.params = params /\ h.thr \in Int
    BY <1>2, <1>4
  <1> QED BY <1>1, <1>5, <1>6 DEF FitGene

LEMMA RepairGenesFit ==
  ASSUME NEW p, NEW s, FitList(s, p), NEW t \in RepairGenes(s, p)
  PROVE  FitList(t, p)
  <1> DEFINE known == {n \in DOMAIN s : p \in Scalar \/ s[n].ind \in Averages}
             S == UNION {RepairGene(s[n], p) : n \in known}
  <1>1. PICK q \in Rising(known, known) : t \in Picks([k \in DOMAIN q |-> RepairGene(s[q[k]], p)])
    BY DEF RepairGenes
  <1>2. IsFiniteSet(known)
    <2>1. Len(s) \in Nat /\ DOMAIN s = 1 .. Len(s)
      BY DEF FitList, IsList
    <2>2. IsFiniteSet(DOMAIN s)
      BY <2>1, FS_Interval
    <2> QED BY <2>2, FS_Subset
  <1>3. \A g \in S : FitGene(g, p)
    <2> SUFFICES ASSUME NEW n \in known, NEW g \in RepairGene(s[n], p) PROVE FitGene(g, p)
      OBVIOUS
    <2>1. FitGene(s[n], p)
      BY DEF FitList, IsList, ToSet
    <2> QED BY <2>1, RepairGeneFits
  <1> DEFINE sets == [k \in DOMAIN q |-> RepairGene(s[q[k]], p)]
  <1> HIDE DEF known
  <1>4. DOMAIN sets = DOMAIN q /\ \A k \in DOMAIN q : sets[k] \subseteq S
    <2>1. \A k \in DOMAIN q : q[k] \in known
      BY <1>2, RisingPlaces
    <2> QED BY <2>1
  <1>5. t \in Picks(sets)
    BY <1>1
  <1> HIDE DEF sets, S
  <1>6. t \in Seq(S)
    BY <1>2, <1>4, <1>5, RisingPicks
  <1> QED BY <1>3, <1>6, FitElements

LEMMA CrossoverFits ==
  ASSUME NEW a, NEW b, Fit(a), Fit(b), NEW c \in Crossover(a, b)
  PROVE  Fit(c)
  <1> DEFINE children(p) == UNION {RepairGenes(s, p) : s \in CrossoverGenes(a.genes[p], b.genes[p], p)}
             lists == [p \in Lists |-> children(p)]
  <1>1. c = [genes |-> c.genes, stops |-> c.stops, dir |-> c.dir] /\ c.genes \in PickLists(lists)
    BY DEF Crossover
  <1>2. \A p \in Lists : lists[p] = children(p)
    OBVIOUS
  <1> HIDE DEF lists
  <1>3. DOMAIN c.genes = Lists /\ \A p \in Lists : c.genes[p] \in children(p)
    BY <1>1, <1>2, ListsPicked
  <1>4. ASSUME NEW p \in Lists PROVE FitList(c.genes[p], p)
    <2>1. PICK s \in CrossoverGenes(a.genes[p], b.genes[p], p) : c.genes[p] \in RepairGenes(s, p)
      BY <1>3
    <2>2. FitList(a.genes[p], p) /\ FitList(b.genes[p], p)
      BY FitParts
    <2>3. FitList(s, p)
      BY <2>2, CrossoverGenesFit
    <2> QED BY <2>1, <2>3, RepairGenesFit
  <1> HIDE DEF children
  <1> QED BY <1>1, <1>3, <1>4, FitParts

LEMMA RandomFits ==
  ASSUME NEW c \in RandomChromosomes
  PROVE  Fit(c) /\ IsValidChromosome(c)
  <1> DEFINE drawn(p) == {s \in SeqOf(RandomGenes(p), DrawnGenes[p]) : Len(s) >= MinGenes[p]}
             lists == [p \in Lists |-> drawn(p)]
  <1>1. /\ c = [genes |-> c.genes, stops |-> c.stops, dir |-> c.dir] /\ c.genes \in PickLists(lists)
        /\ c.stops \in Picks(Interval(StopRanges))
    BY DEF RandomChromosomes
  <1>2. \A p \in Lists : lists[p] = drawn(p)
    OBVIOUS
  <1> HIDE DEF lists
  <1>3. DOMAIN c.genes = Lists /\ \A p \in Lists : c.genes[p] \in drawn(p)
    BY <1>1, <1>2, ListsPicked
  <1>4. ASSUME NEW p \in Lists
        PROVE  /\ FitList(c.genes[p], p) /\ Len(c.genes[p]) \in MinGenes[p] .. MaxGenes[p]
               /\ \A n \in DOMAIN c.genes[p] : IsValidGene(c.genes[p][n], p)
    <2> DEFINE s == c.genes[p]
               R == RandomGenes(p)
    <2>1. /\ MinGenes[p] \in Nat /\ MaxGenes[p] \in Nat /\ DrawnGenes[p] \in Nat /\ DrawnGenes[p] <= MaxGenes[p]
      BY RangesAssumption
    <2>2. s \in SeqOf(R, DrawnGenes[p]) /\ Len(s) >= MinGenes[p]
      BY <1>3
    <2> HIDE DEF s, R
    <2>3. PICK m \in 0 .. DrawnGenes[p] : s \in [1 .. m -> R]
      BY <2>2 DEF SeqOf
    <2>4. m \in Nat /\ s \in Seq(R) /\ Len(s) = m
      BY <2>1, <2>3
    <2>5. \A g \in R : FitGene(g, p) /\ IsValidGene(g, p)
      BY RandomGeneFits DEF R
    <2>6. FitList(s, p)
      BY <2>4, <2>5, FitElements
    <2>7. Len(s) \in MinGenes[p] .. MaxGenes[p]
      BY <2>1, <2>2, <2>3, <2>4
    <2>8. \A n \in DOMAIN s : IsValidGene(s[n], p)
      BY <2>3, <2>5
    <2> QED BY <2>6, <2>7, <2>8 DEF s
  <1>5. \A n \in DOMAIN StopRanges : InRange(c.stops[n], StopRanges[n])
    <2>1. DOMAIN Interval(StopRanges) = DOMAIN StopRanges
      BY DEF Interval
    <2>2. \A n \in DOMAIN StopRanges : c.stops[n] \in Interval(StopRanges)[n]
      BY <1>1, <2>1, PicksIs
    <2>3. \A n \in DOMAIN StopRanges : c.stops[n] \in StopRanges[n][1] .. StopRanges[n][2]
      BY <2>2 DEF Interval
    <2>4. \A n \in DOMAIN StopRanges : IsRange(StopRanges[n])
      BY RangesAssumption
    <2> QED BY <2>3, <2>4 DEF InRange, IsRange
  <1>6. Fit(c)
    BY <1>1, <1>3, <1>4, FitParts
  <1>7. IsValidChromosome(c)
    BY <1>4, <1>5 DEF IsValidChromosome
  <1> QED BY <1>6, <1>7

LEMMA FitValidates ==
  ASSUME NEW c, Fit(c), IsValidChromosome(c)
  PROVE  ValidateChromosome(c)
  <1> SUFFICES ASSUME NEW p \in Lists, NEW n \in DOMAIN c.genes[p]
               PROVE  LET g == c.genes[p][n]
                      IN  /\ DOMAIN g.params = DOMAIN ParamRanges[g.ind]
                          /\ \A x \in DOMAIN g.params : InRange(g.params[x], ParamRanges[g.ind][x])
    BY DEF ValidateChromosome
  <1> DEFINE g == c.genes[p][n]
  <1>1. IsValidGene(g, p)
    BY DEF IsValidChromosome
  <1>2. FitList(c.genes[p], p)
    BY FitParts
  <1>3. FitGene(g, p)
    BY <1>2 DEF FitList, ToSet
  <1> HIDE DEF g
  <1>4. g.ind \in PoolOf(p)
    BY <1>1 DEF IsValidGene
  <1>5. DOMAIN g.params = DOMAIN ParamRanges[g.ind] /\ \A x \in DOMAIN g.params : InRange(g.params[x], ParamRanges[g.ind][x])
    BY <1>3, <1>4 DEF FitGene
  <1> QED BY <1>5 DEF g

\* Nothing is said about the direction and the stops.
LEMMA DirectionFits ==
  ASSUME NEW c, Fit(c), NEW d
  PROVE  Fit([c EXCEPT !.dir = d]) /\ (IsValidChromosome(c) => IsValidChromosome([c EXCEPT !.dir = d]))
  <1> DEFINE e == [c EXCEPT !.dir = d]
  <1>1. c = [genes |-> c.genes, stops |-> c.stops, dir |-> c.dir]
    BY FitParts
  <1>2. e = [genes |-> c.genes, stops |-> c.stops, dir |-> d] /\ e.genes = c.genes /\ e.stops = c.stops /\ e.dir = d
    BY <1>1
  <1>3. DOMAIN c.genes = Lists /\ \A p \in Lists : FitList(c.genes[p], p)
    BY FitParts
  <1> HIDE DEF e
  <1>4. Fit(e)
    BY <1>2, <1>3, FitParts
  <1>5. IsValidChromosome(c) => IsValidChromosome(e)
    BY <1>2 DEF IsValidChromosome
  <1> QED BY <1>4, <1>5 DEF e

LEMMA StopsFit ==
  ASSUME NEW c, Fit(c), NEW n, NEW v
  PROVE  Fit([c EXCEPT !.stops[n] = v])
  <1> DEFINE e == [c EXCEPT !.stops[n] = v]
  <1>1. c = [genes |-> c.genes, stops |-> c.stops, dir |-> c.dir]
    BY FitParts
  <1>2. e = [genes |-> c.genes, stops |-> e.stops, dir |-> c.dir] /\ e.genes = c.genes /\ e.dir = c.dir
    BY <1>1
  <1>3. DOMAIN c.genes = Lists /\ \A p \in Lists : FitList(c.genes[p], p)
    BY FitParts
  <1> HIDE DEF e
  <1>4. Fit(e)
    BY <1>2, <1>3, FitParts
  <1> QED BY <1>4 DEF e

LEMMA ListFits ==
  ASSUME NEW c, Fit(c), NEW p \in Lists, NEW s, FitList(s, p), NEW e, e = [c EXCEPT !.genes[p] = s]
  PROVE  Fit(e)
  <1>1. c = [genes |-> c.genes, stops |-> c.stops, dir |-> c.dir]
    BY FitParts
  <1>2. DOMAIN c.genes = Lists /\ \A x \in Lists : FitList(c.genes[x], x)
    BY FitParts
  <1> DEFINE G == [c.genes EXCEPT ![p] = s]
  <1>3. DOMAIN G = Lists /\ G[p] = s /\ \A x \in Lists : x # p => G[x] = c.genes[x]
    BY <1>2
  <1> HIDE DEF G
  <1>4. e = [genes |-> G, stops |-> c.stops, dir |-> c.dir]
    BY <1>1 DEF G
  <1>5. e.genes = G /\ e = [genes |-> e.genes, stops |-> e.stops, dir |-> e.dir]
    BY ONLY <1>4
  <1>6. \A x \in Lists : FitList(G[x], x)
    BY <1>2, <1>3
  <1> QED BY <1>3, <1>5, <1>6, FitParts

\* A gene changed, added or removed.
LEMMA GeneChangedFits ==
  ASSUME NEW c, Fit(c), NEW p \in Lists, NEW n \in DOMAIN c.genes[p], NEW g, FitGene(g, p)
  PROVE  Fit([c EXCEPT !.genes[p][n] = g])
  <1> DEFINE s == c.genes[p]
             t == [s EXCEPT ![n] = g]
             S == ToSet(s) \cup {g}
  <1>1. s \in Seq(ToSet(s)) /\ \A h \in S : FitGene(h, p)
    BY FitParts DEF FitList, IsList
  <1>2. n \in DOMAIN s /\ [c EXCEPT !.genes[p][n] = g] = [c EXCEPT !.genes[p] = t]
    OBVIOUS
  <1> HIDE DEF s
  <1>3. t \in Seq(S)
    BY <1>1, <1>2
  <1> HIDE DEF t, S
  <1>4. FitList(t, p)
    BY <1>1, <1>3, FitElements
  <1> QED BY <1>2, <1>4, ListFits

LEMMA GeneAddedFits ==
  ASSUME NEW c, Fit(c), NEW p \in Lists, NEW g, FitGene(g, p)
  PROVE  Fit([c EXCEPT !.genes[p] = Append(@, g)])
  <1> DEFINE s == c.genes[p]
             t == Append(s, g)
             S == ToSet(s) \cup {g}
  <1>1. s \in Seq(ToSet(s)) /\ \A h \in S : FitGene(h, p)
    BY FitParts DEF FitList, IsList
  <1>2. [c EXCEPT !.genes[p] = Append(@, g)] = [c EXCEPT !.genes[p] = t]
    OBVIOUS
  <1> HIDE DEF s
  <1>3. t \in Seq(S)
    BY <1>1
  <1> HIDE DEF t, S
  <1>4. FitList(t, p)
    BY <1>1, <1>3, FitElements
  <1> QED BY <1>2, <1>4, ListFits

LEMMA GeneRemovedFits ==
  ASSUME NEW c, Fit(c), NEW p \in Lists, NEW n \in DOMAIN c.genes[p]
  PROVE  Fit([c EXCEPT !.genes[p] = RemoveAt(@, n)])
  <1> DEFINE s == c.genes[p]
             t == RemoveAt(s, n)
             S == ToSet(s)
  <1>1. s \in Seq(S) /\ \A h \in S : FitGene(h, p)
    BY FitParts DEF FitList, IsList
  <1>2. n \in DOMAIN s /\ [c EXCEPT !.genes[p] = RemoveAt(@, n)] = [c EXCEPT !.genes[p] = t]
    OBVIOUS
  <1> HIDE DEF s, S
  <1>3. t \in Seq(S)
    <2>1. Len(s) \in Nat /\ n \in 1 .. Len(s) /\ \A i \in 1 .. Len(s) : s[i] \in S
      BY <1>1, <1>2
    <2>2. n - 1 \in Int /\ n + 1 \in Int /\ 1 \in Int /\ Len(s) \in Int
      BY <2>1
    <2>3. (\A i \in 1 .. (n - 1) : s[i] \in S) /\ \A i \in (n + 1) .. Len(s) : s[i] \in S
      BY <2>1
    <2>4. SubSeq(s, 1, n - 1) \in Seq(S) /\ SubSeq(s, n + 1, Len(s)) \in Seq(S)
      BY <2>2, <2>3, SubSeqProperties
    <2>5. t = SubSeq(s, 1, n - 1) \o SubSeq(s, n + 1, Len(s))
      BY DEF RemoveAt
    <2> HIDE DEF t
    <2> QED BY <2>4, <2>5, ConcatProperties
  <1> HIDE DEF t
  <1>4. FitList(t, p)
    BY <1>1, <1>3, FitElements
  <1> QED BY <1>2, <1>4, ListFits

-----------------------------------------------------------------------------
(* What the search goes on with fits and is a seed or a chromosome the     *)
(* full validator accepts; the child at work only has to fit.              *)

FirstOnes == UNION {ToSet(first) : first \in Firsts}
Good(c) == Fit(c) /\ (ValidateChromosome(c) \/ c \in FirstOnes)

Listed == ToSet(folk) \cup ToSet(brood) \cup ToSet(kids)
ListsInv == IsList(folk) /\ IsList(brood) /\ IsList(kids) /\ \A c \in Listed : Good(c)

PairInv == at \in {"child", "change", "family"} => pair \in (DOMAIN folk) \X (DOMAIN folk)

KidsInv ==
    /\ at \in {"score", "pair"} => kids = << >>
    /\ at \in {"child", "change"} => Len(kids) \in {0, 1}
    /\ at = "family" /\ crowding => Len(kids) = 2

CandidateInv == at = "change" => Fit(child) /\ Fit(cand)

BreedInv == ListsInv /\ PairInv /\ KidsInv /\ CandidateInv

\* Facts about lists.
LEMMA Nothing == IsList(<< >>) /\ ToSet(<< >>) = {}
  <1>1. ASSUME NEW e, e = << >> PROVE ToSet(e) = {} /\ e \in Seq(ToSet(e))
    BY <1>1 DEF ToSet
  <1> QED BY <1>1 DEF IsList

LEMMA Single ==
  ASSUME NEW x
  PROVE  IsList(<<x>>) /\ ToSet(<<x>>) \subseteq {x}
  <1>1. <<x>> \in Seq({x})
    OBVIOUS
  <1> QED BY <1>1, ListOf

LEMMA AppendElements ==
  ASSUME NEW s, IsList(s), NEW x
  PROVE  IsList(Append(s, x)) /\ Len(Append(s, x)) = Len(s) + 1 /\ ToSet(Append(s, x)) \subseteq ToSet(s) \cup {x}
  <1> DEFINE S == ToSet(s) \cup {x}
  <1>1. s \in Seq(ToSet(s))
    BY DEF IsList
  <1>2. s \in Seq(S)
    BY <1>1, SeqMonotonic
  <1>3. x \in S
    OBVIOUS
  <1> HIDE DEF S
  <1>4. Append(s, x) \in Seq(S) /\ Len(Append(s, x)) = Len(s) + 1
    BY <1>2, <1>3, AppendProperties
  <1> QED BY <1>4, ListOf DEF S

LEMMA ConcatElements ==
  ASSUME NEW s, IsList(s), NEW t, IsList(t)
  PROVE  IsList(s \o t) /\ ToSet(s \o t) \subseteq ToSet(s) \cup ToSet(t)
  <1> DEFINE S == ToSet(s) \cup ToSet(t)
  <1>1. s \in Seq(ToSet(s)) /\ t \in Seq(ToSet(t))
    BY DEF IsList
  <1>2. s \in Seq(S)
    BY <1>1, SeqMonotonic
  <1>3. t \in Seq(S)
    BY <1>1, SeqMonotonic
  <1> HIDE DEF S
  <1>4. s \o t \in Seq(S)
    BY <1>2, <1>3, ConcatProperties
  <1> QED BY <1>4, ListOf DEF S

LEMMA BreedInitInv == BreedInit => BreedInv
  <1> SUFFICES ASSUME BreedInit PROVE BreedInv
    OBVIOUS
  <1>1. folk \in Firsts /\ brood = << >> /\ kids = << >> /\ at = "score"
    BY DEF BreedInit
  <1>2. IsList(folk) /\ \A c \in ToSet(folk) : Fit(c) /\ c \in FirstOnes
    BY <1>1, FirstsAssumption DEF IsList, FirstOnes
  <1>3. ListsInv
    BY <1>1, <1>2, Nothing DEF ListsInv, Listed, Good
  <1> QED BY <1>1, <1>3 DEF BreedInv, PairInv, KidsInv, CandidateInv

LEMMA Member ==
  ASSUME BreedInv, NEW i \in DOMAIN folk
  PROVE  Good(folk[i])
  BY DEF BreedInv, ListsInv, Listed, ToSet

\* A step that lists nothing but what is good.
LEMMA ListsStep ==
  ASSUME ListsInv, IsList(folk'), IsList(brood'), IsList(kids'), \A c \in Listed' : c \in Listed \/ Good(c)
  PROVE  ListsInv'
  <1>1. \A c \in Listed' : Good(c)
    BY DEF ListsInv
  <1> QED BY <1>1 DEF ListsInv, IsList, Good, FirstOnes

LEMMA ScoreKeeps ==
  ASSUME BreedInv, NEW i \in DOMAIN folk, ScoreAndKeepElite(i)
  PROVE  BreedInv'
  <1>1. UNCHANGED <<folk, kids, child, cand, crowding>> /\ at = "score" /\ at' = "pair"
    BY DEF ScoreAndKeepElite
  <1>2. brood' = << >> \/ brood' = <<folk[i]>>
    BY DEF ScoreAndKeepElite
  <1>3. Good(folk[i])
    BY Member
  <1>4. IsList(brood') /\ \A c \in ToSet(brood') : Good(c)
    BY <1>2, <1>3, Nothing, Single
  <1>5. \A c \in Listed' : c \in Listed \/ Good(c)
    BY <1>1, <1>4 DEF Listed
  <1>6. IsList(folk') /\ IsList(kids')
    BY <1>1 DEF BreedInv, ListsInv
  <1>7. ListsInv'
    BY <1>4, <1>5, <1>6, ListsStep DEF BreedInv
  <1> QED BY <1>1, <1>7 DEF BreedInv, PairInv, KidsInv, CandidateInv

LEMMA LeftoverKeeps ==
  ASSUME BreedInv, NEW i \in DOMAIN folk, Leftover(i)
  PROVE  BreedInv'
  <1>1. UNCHANGED <<folk, kids, child, cand, crowding, at, pair>> /\ at = "pair" /\ brood' = Append(brood, folk[i])
    BY DEF Leftover
  <1>2. IsList(brood)
    BY DEF BreedInv, ListsInv
  <1>3. IsList(brood') /\ ToSet(brood') \subseteq ToSet(brood) \cup {folk[i]}
    BY <1>1, <1>2, AppendElements
  <1>4. \A c \in Listed' : c \in Listed \/ Good(c)
    BY <1>1, <1>3, Member DEF Listed
  <1>5. IsList(folk') /\ IsList(kids')
    BY <1>1 DEF BreedInv, ListsInv
  <1>6. ListsInv'
    BY <1>3, <1>4, <1>5, ListsStep DEF BreedInv
  <1> QED BY <1>1, <1>6 DEF BreedInv, PairInv, KidsInv, CandidateInv

LEMMA PickKeeps ==
  ASSUME BreedInv, NEW i \in DOMAIN folk, NEW j \in DOMAIN folk, NEW mates \in BOOLEAN, PickParents(i, j, mates)
  PROVE  BreedInv'
  <1>1. UNCHANGED <<folk, brood, kids, child, cand, crowding>> /\ at = "pair" /\ at' = "child" /\ pair' = <<i, j>>
    BY DEF PickParents
  <1>2. ListsInv'
    BY <1>1 DEF BreedInv, ListsInv, Listed
  <1>3. kids = << >>
    BY <1>1 DEF BreedInv, KidsInv
  <1> QED BY <1>1, <1>2, <1>3 DEF BreedInv, PairInv, KidsInv, CandidateInv

LEMMA ConceiveKeeps ==
  ASSUME BreedInv, Conceive
  PROVE  BreedInv'
  <1> DEFINE mine == folk[pair[1 + Len(kids)]]
             other == folk[pair[2 - Len(kids)]]
  <1>1. UNCHANGED <<folk, brood, kids, crowding, pair>> /\ at = "child" /\ at' = "change" /\ cand' = child'
    BY DEF Conceive
  <1>2. Fit(mine) /\ Fit(other)
    <2>1. Len(kids) \in {0, 1} /\ pair \in (DOMAIN folk) \X (DOMAIN folk)
      BY <1>1 DEF BreedInv, KidsInv, PairInv
    <2>2. pair[1] \in DOMAIN folk /\ pair[2] \in DOMAIN folk
      BY <2>1
    <2>3. \A n \in {0, 1} : 1 + n \in {1, 2} /\ 2 - n \in {1, 2}
      OBVIOUS
    <2>4. 1 + Len(kids) \in {1, 2} /\ 2 - Len(kids) \in {1, 2}
      BY <2>1, <2>3
    <2>5. pair[1 + Len(kids)] \in DOMAIN folk /\ pair[2 - Len(kids)] \in DOMAIN folk
      BY <2>2, <2>4
    <2> QED BY <2>5, Member DEF Good
  <1>3. child' \in Crossover(mine, other) \/ child' = mine
    BY DEF Conceive
  <1> HIDE DEF mine, other
  <1>4. Fit(child')
    BY <1>2, <1>3, CrossoverFits
  <1>5. ListsInv'
    BY <1>1 DEF BreedInv, ListsInv, Listed
  <1> QED BY <1>1, <1>4, <1>5 DEF BreedInv, PairInv, KidsInv, CandidateInv, Fit

\* The candidate is not listed, so a change only has to fit.
LEMMA ChangeKeeps ==
  ASSUME BreedInv, NEW content, Change(content), Fit(content)
  PROVE  BreedInv'
  <1>1. UNCHANGED <<folk, brood, kids, child, crowding, pair, at>> /\ at = "change" /\ cand' = content
    BY DEF Change
  <1>2. ListsInv'
    BY <1>1 DEF BreedInv, ListsInv, Listed
  <1>3. Fit(child) /\ Fit(cand')
    BY <1>1 DEF BreedInv, CandidateInv
  <1> QED BY <1>1, <1>2, <1>3 DEF BreedInv, PairInv, KidsInv, CandidateInv, Fit

LEMMA GeneKeeps ==
  ASSUME BreedInv, NEW p \in Lists, at = "change"
  PROVE  /\ AddGene(p) => BreedInv'
         /\ \A n \in 1 .. MaxGenes[p] : ChangeGene(p, n) \/ RemoveGene(p, n) => BreedInv'
  <1>1. Fit(cand)
    BY DEF BreedInv, CandidateInv
  <1>2. Genes(p) = cand.genes[p]
    BY DEF Genes
  <1>3. ASSUME AddGene(p) PROVE BreedInv'
    <2>1. PICK g \in RandomGenes(p) : Change([cand EXCEPT !.genes[p] = Append(@, g)])
      BY <1>3 DEF AddGene
    <2>2. FitGene(g, p)
      BY RandomGeneFits
    <2>3. Fit([cand EXCEPT !.genes[p] = Append(@, g)])
      BY <1>1, <2>2, GeneAddedFits
    <2> QED BY <2>1, <2>3, ChangeKeeps
  <1>4. ASSUME NEW n, ChangeGene(p, n) PROVE BreedInv'
    <2>1. n \in DOMAIN cand.genes[p]
      BY <1>2, <1>4 DEF ChangeGene
    <2>2. PICK g \in MutateSingleGene(cand.genes[p][n], p) : Change([cand EXCEPT !.genes[p][n] = g])
      BY <1>2, <1>4 DEF ChangeGene
    <2>3. FitGene(cand.genes[p][n], p)
      BY <1>1, <2>1, FitParts DEF FitList, ToSet
    <2>4. FitGene(g, p)
      BY <2>3, MutatedFits
    <2>5. Fit([cand EXCEPT !.genes[p][n] = g])
      BY <1>1, <2>1, <2>4, GeneChangedFits
    <2> QED BY <2>2, <2>5, ChangeKeeps
  <1>5. ASSUME NEW n, RemoveGene(p, n) PROVE BreedInv'
    <2>1. n \in DOMAIN cand.genes[p]
      BY <1>2, <1>5 DEF RemoveGene
    <2>2. Change([cand EXCEPT !.genes[p] = RemoveAt(@, n)])
      BY <1>5 DEF RemoveGene
    <2>3. Fit([cand EXCEPT !.genes[p] = RemoveAt(@, n)])
      BY <1>1, <2>1, GeneRemovedFits
    <2> QED BY <2>2, <2>3, ChangeKeeps
  <1> QED BY <1>3, <1>4, <1>5

LEMMA StopKeeps ==
  ASSUME BreedInv, NEW n, ChangeStop(n)
  PROVE  BreedInv'
  <1>1. at = "change"
    BY DEF ChangeStop
  <1>2. PICK v : Change([cand EXCEPT !.stops[n] = v])
    BY DEF ChangeStop
  <1>3. Fit(cand)
    BY <1>1 DEF BreedInv, CandidateInv
  <1>4. Fit([cand EXCEPT !.stops[n] = v])
    BY <1>3, StopsFit
  <1> QED BY <1>2, <1>4, ChangeKeeps

\* The candidate when it is done.
LEMMA ReadyFits ==
  ASSUME BreedInv, at = "change"
  PROVE  Fit(Ready) /\ (IsValidChromosome(cand) => IsValidChromosome(Ready))
  <1>1. Fit(cand)
    BY DEF BreedInv, CandidateInv
  <1>2. Ready = cand \/ Ready = [cand EXCEPT !.dir = OnlyDirection]
    BY DEF Ready
  <1>3. Fit([cand EXCEPT !.dir = OnlyDirection])
        /\ (IsValidChromosome(cand) => IsValidChromosome([cand EXCEPT !.dir = OnlyDirection]))
    BY <1>1, DirectionFits
  <1> QED BY <1>1, <1>2, <1>3

LEMMA BearKeeps ==
  ASSUME BreedInv, at = "change", NEW c, Bear(c), Fit(c), ValidateChromosome(c)
  PROVE  BreedInv'
  <1>1. /\ UNCHANGED <<folk, brood, pair, crowding>> /\ kids' = Append(kids, c)
        /\ at' = IF Len(kids) = 1 \/ (~crowding /\ Len(brood) + 1 = Size) THEN "family" ELSE "child"
    BY DEF Bear
  <1>2. IsList(kids) /\ Len(kids) \in {0, 1}
    BY DEF BreedInv, ListsInv, KidsInv
  <1>3. IsList(kids') /\ Len(kids') = Len(kids) + 1 /\ ToSet(kids') \subseteq ToSet(kids) \cup {c}
    BY <1>1, <1>2, AppendElements
  <1>4. \A x \in Listed' : x \in Listed \/ Good(x)
    BY <1>1, <1>3 DEF Listed, Good
  <1>5. IsList(folk') /\ IsList(brood')
    BY <1>1 DEF BreedInv, ListsInv
  <1>6. ListsInv'
    BY <1>3, <1>4, <1>5, ListsStep DEF BreedInv
  <1>7. PairInv' /\ CandidateInv'
    BY <1>1 DEF BreedInv, PairInv, CandidateInv
  <1>8. KidsInv'
    <2>1. at' \in {"child", "family"} /\ (at' = "child" => Len(kids) # 1)
      BY <1>1
    <2>2. crowding' /\ at' = "family" => Len(kids) = 1
      BY <1>1
    <2>3. Len(kids) = 0 => Len(kids') = 1
      BY <1>3
    <2>4. Len(kids) = 1 => Len(kids') = 2
      BY <1>3
    <2> QED BY <1>2, <2>1, <2>2, <2>3, <2>4 DEF KidsInv
  <1> QED BY <1>6, <1>7, <1>8 DEF BreedInv

LEMMA AcceptKeeps ==
  ASSUME BreedInv, Accept
  PROVE  BreedInv'
  <1>1. at = "change" /\ IsValidChromosome(cand) /\ Bear(Ready)
    BY DEF Accept
  <1>2. Fit(Ready) /\ ValidateChromosome(Ready)
    BY <1>1, ReadyFits, FitValidates
  <1> QED BY <1>1, <1>2, BearKeeps

LEMMA GiveUpKeeps ==
  ASSUME BreedInv, GiveUp
  PROVE  BreedInv'
  <1>1. PICK c \in RandomChromosomes : at = "change" /\ Bear(c)
    BY DEF GiveUp
  <1>2. Fit(c) /\ ValidateChromosome(c)
    BY RandomFits, FitValidates
  <1> QED BY <1>1, <1>2, BearKeeps

LEMMA RetryKeeps ==
  ASSUME BreedInv, Retry
  PROVE  BreedInv'
  <1>1. /\ UNCHANGED <<folk, brood, kids, pair, crowding, at>> /\ at = "change"
        /\ child' \in {Ready, child} /\ cand' = child'
    BY DEF Retry
  <1>2. Fit(child) /\ Fit(Ready)
    BY <1>1, ReadyFits DEF BreedInv, CandidateInv
  <1>3. ASSUME NEW e, e = child' PROVE Fit(e)
    BY <1>1, <1>2, <1>3
  <1>4. ListsInv'
    BY <1>1 DEF BreedInv, ListsInv, Listed
  <1> QED BY <1>1, <1>3, <1>4 DEF BreedInv, PairInv, KidsInv, CandidateInv, Fit

\* The brood takes the children, or in crowding parents in their place.
LEMMA FamilyBrood ==
  ASSUME BreedInv, Family
  PROVE  IsList(brood') /\ ToSet(brood') \subseteq Listed
  <1> DEFINE a == folk[pair[1]]
             b == folk[pair[2]]
  <1>1. PICK s \in (IF crowding THEN CrowdingReplace(a, b) ELSE {kids}) : brood' = brood \o s
    BY DEF Family
  <1>2. at = "family" /\ IsList(kids) /\ IsList(brood) /\ IsList(folk)
    BY DEF Family, BreedInv, ListsInv
  <1>3. a \in Listed /\ b \in Listed
    <2>1. pair[1] \in DOMAIN folk /\ pair[2] \in DOMAIN folk
      BY <1>2 DEF BreedInv, PairInv
    <2> QED BY <2>1 DEF Listed, ToSet
  <1> HIDE DEF a, b
  <1>4. IsList(s) /\ ToSet(s) \subseteq Listed
    <2>1. CASE ~ crowding
      BY <1>1, <1>2, <2>1 DEF Listed
    <2>2. CASE crowding
      <3>1. Len(kids) = 2
        BY <1>2, <2>2 DEF BreedInv, KidsInv
      <3>2. kids[1] \in Listed /\ kids[2] \in Listed
        BY <1>2, <3>1 DEF IsList, Listed, ToSet
      <3>3. s \in {kids, <<kids[2], kids[1]>>, <<a, kids[1]>>, <<kids[2], b>>}
        BY <1>1, <2>2 DEF CrowdingReplace
      <3>4. ToSet(kids) \subseteq Listed
        BY DEF Listed
      <3>5. CASE s = kids
        BY <1>2, <3>4, <3>5
      <3>6. CASE s # kids
        <4>1. PICK u \in Listed, v \in Listed : s = <<u, v>>
          BY <1>3, <3>2, <3>3, <3>6
        <4>2. s \in Seq(Listed)
          BY <4>1
        <4> QED BY <4>2, ListOf
      <3> QED BY <3>5, <3>6
    <2> QED BY <2>1, <2>2
  <1>5. ToSet(brood) \subseteq Listed
    BY DEF Listed
  <1> QED BY <1>1, <1>2, <1>4, <1>5, ConcatElements

LEMMA FamilyKeeps ==
  ASSUME BreedInv, Family
  PROVE  BreedInv'
  <1>1. UNCHANGED <<folk, child, cand, crowding>> /\ at' = "pair" /\ kids' = << >>
    BY DEF Family
  <1>2. IsList(brood') /\ ToSet(brood') \subseteq Listed
    BY FamilyBrood
  <1>3. \A c \in Listed' : c \in Listed
    BY <1>1, <1>2, Nothing DEF Listed
  <1>4. IsList(folk') /\ IsList(kids')
    BY <1>1, Nothing DEF BreedInv, ListsInv
  <1>5. ListsInv'
    BY <1>2, <1>3, <1>4, ListsStep DEF BreedInv
  <1> QED BY <1>1, <1>5 DEF BreedInv, PairInv, KidsInv, CandidateInv

LEMMA ReplaceKeeps ==
  ASSUME BreedInv, Replace
  PROVE  BreedInv'
  <1>1. /\ UNCHANGED <<kids, crowding>> /\ folk' = brood /\ brood' = << >> /\ at = "pair" /\ at' = "score"
    BY DEF Replace
  <1>2. \A c \in Listed' : c \in Listed
    BY <1>1, Nothing DEF Listed
  <1>3. IsList(folk') /\ IsList(brood') /\ IsList(kids')
    BY <1>1, Nothing DEF BreedInv, ListsInv
  <1>4. ListsInv'
    BY <1>2, <1>3, ListsStep DEF BreedInv
  <1>5. kids = << >>
    BY <1>1 DEF BreedInv, KidsInv
  <1> QED BY <1>1, <1>4, <1>5 DEF BreedInv, PairInv, KidsInv, CandidateInv

LEMMA BreedStep == BreedInv /\ [BreedNext]_gvars => BreedInv'
  <1> SUFFICES ASSUME BreedInv, [BreedNext]_gvars PROVE BreedInv'
    OBVIOUS
  <1>1. CASE \E i \in DOMAIN folk : ScoreAndKeepElite(i) \/ Leftover(i)
    BY <1>1, ScoreKeeps, LeftoverKeeps
  <1>2. CASE \E i, j \in DOMAIN folk, mates \in BOOLEAN : PickParents(i, j, mates)
    BY <1>2, PickKeeps
  <1>3. CASE Conceive \/ Accept \/ Retry \/ GiveUp \/ Family \/ Replace
    BY <1>3, ConceiveKeeps, AcceptKeeps, RetryKeeps, GiveUpKeeps, FamilyKeeps, ReplaceKeeps
  <1>4. CASE \E p \in Lists : AddGene(p) \/ \E n \in 1 .. MaxGenes[p] : ChangeGene(p, n) \/ RemoveGene(p, n)
    <2>1. at = "change"
      BY <1>4 DEF AddGene, ChangeGene, RemoveGene
    <2> QED BY <1>4, <2>1, GeneKeeps
  <1>5. CASE \E n \in DOMAIN StopRanges : ChangeStop(n)
    BY <1>5, StopKeeps
  <1>6. CASE UNCHANGED gvars
    BY <1>6 DEF gvars, BreedInv, ListsInv, Listed, IsList, PairInv, KidsInv, CandidateInv
  <1> QED BY <1>1, <1>2, <1>3, <1>4, <1>5, <1>6 DEF BreedNext

\* Whatever the seeds, the ranges, the pool of indicators and the choices of the search,
\* what it breeds is accepted by the full validator or is a seed it carried over, although
\* the check made on an offspring ignores the parameters of its indicators.
THEOREM BredSound == BreedSpec => []BredValidates
  <1>1. BreedInv => BredValidates
    BY DEF BreedInv, ListsInv, Listed, Good, FirstOnes, BredValidates
  <1> QED BY <1>1, BreedInitInv, BreedStep, PTL DEF BreedSpec
============================================================================
