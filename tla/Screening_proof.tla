--------------------------- MODULE Screening_proof ---------------------------
(***************************************************************************)
(* What holds of the screening and of the filters on its rows for any      *)
(* grid, any measurements, any configurations and any number of pipelines. *)
(* First the arithmetic of folds and windows, then the Pareto front and    *)
(* the ranking as functions of a list of results, and then the invariant.  *)
(***************************************************************************)
EXTENDS Overfitting, FiniteSetTheorems, WellFoundedInduction, TLAPS

\* The smaller and the larger of two numbers.
LEMMA MinOfTwo ==
  ASSUME NEW a \in Int, NEW b \in Int
  PROVE  Min({a, b}) = IF a <= b THEN a ELSE b
  <1>1. CASE a <= b
    <2>1. \A x \in {a, b} : (\A y \in {a, b} : x <= y) => x = a
      BY <1>1
    <2> QED BY <1>1, <2>1 DEF Min
  <1>2. CASE ~ (a <= b)
    <2>1. \A x \in {a, b} : (\A y \in {a, b} : x <= y) <=> x = b
      BY <1>2
    <2> QED BY <1>2, <2>1 DEF Min
  <1> QED BY <1>1, <1>2

LEMMA MaxOfTwo ==
  ASSUME NEW a \in Int, NEW b \in Int
  PROVE  Max({a, b}) = IF a >= b THEN a ELSE b
  <1>1. CASE a >= b
    <2>1. \A x \in {a, b} : (\A y \in {a, b} : x >= y) => x = a
      BY <1>1
    <2> QED BY <1>1, <2>1 DEF Max
  <1>2. CASE ~ (a >= b)
    <2>1. \A x \in {a, b} : (\A y \in {a, b} : x >= y) <=> x = b
      BY <1>2
    <2> QED BY <1>2, <2>1 DEF Max
  <1> QED BY <1>1, <1>2

\* Integer division, and multiples of a quotient.
LEMMA Quotient ==
  ASSUME NEW n \in Nat, NEW k \in Nat \ {0}
  PROVE  /\ n \div k \in Nat
         /\ k * (n \div k) <= n
         /\ n < k * (n \div k) + k
  OBVIOUS

LEMMA Products ==
  ASSUME NEW q \in Nat, NEW a \in Nat, NEW b \in Nat, a <= b
  PROVE  a * q <= b * q /\ a * q \in Nat /\ (a + 1) * q = a * q + q
  OBVIOUS

-----------------------------------------------------------------------------
CvConfig == [k : Nat \ {0, 1}, purge : 0..99, embargo : 0..99, lookback : Nat]

\* Both gaps are natural numbers.
LEMMA GapTypes ==
  ASSUME NEW n \in Nat, NEW cfg \in CvConfig
  PROVE  Purge(n, cfg) \in Nat /\ Embargo(n, cfg) \in Nat
  <1>1. cfg.purge \in Nat /\ cfg.embargo \in Nat /\ cfg.lookback \in Nat
    BY DEF CvConfig
  <1>2. n * cfg.purge \in Nat /\ n * cfg.embargo \in Nat
    BY <1>1
  <1>3. (n * cfg.purge) \div 100 \in Nat /\ (n * cfg.embargo) \div 100 \in Nat
    BY <1>2, Quotient
  <1> QED BY <1>1, <1>3 DEF Purge, Embargo, MinPurgeBars

\* With three folds, the two gaps cannot both be longer than a fold.
LEMMA SomethingToTrainOn ==
  ASSUME NEW n \in Nat, NEW cfg \in CvConfig, NEW i \in 0 .. (cfg.k - 1), cfg.k > 2, CanSplit(n, cfg)
  PROVE  TrainSpans(n, cfg, i) # {}
  <1> DEFINE k == cfg.k
             q == n \div k
             p == Purge(n, cfg)
             e == Embargo(n, cfg)
             f(j) == Fold(n, cfg, j)
             cut(j) == Span(IF j = i + 1 THEN Min({f(j).hi, f(j).lo + e}) ELSE f(j).lo,
                            IF j = i - 1 THEN Max({f(j).lo, f(j).hi - p}) ELSE f(j).hi)
  <1>1. k \in Nat /\ k >= 3 /\ i \in Nat /\ i <= k - 1
    BY DEF CvConfig
  <1>2. q \in Nat /\ n < k * q + k
    <2>1. cfg.k \in Nat \ {0}
      BY <1>1
    <2> QED BY <2>1, Quotient
  <1>3. p \in Nat /\ e \in Nat
    BY GapTypes
  <1>4. n >= k * 10 + (p + e) * (k - 1)
    BY DEF CanSplit, MinFoldSamples
  <1>5. \A j \in 0 .. (k - 1) : f(j).lo = j * q /\ f(j).hi = IF j < k - 1 THEN (j + 1) * q ELSE n
    BY DEF Fold, Span
  <1>6. \A j \in (0 .. (k - 1)) \ {i} : cut(j).lo < cut(j).hi => cut(j) \in TrainSpans(n, cfg, i)
    BY DEF TrainSpans
  <1>7. \A j : /\ cut(j).lo = IF j = i + 1 THEN Min({f(j).hi, f(j).lo + e}) ELSE f(j).lo
               /\ cut(j).hi = IF j = i - 1 THEN Max({f(j).lo, f(j).hi - p}) ELSE f(j).hi
    BY DEF Span
  <1> HIDE DEF k, q, p, e, f, cut
  <1>8. (p + e) * (k - 1) \in Nat /\ k * q \in Nat
    BY <1>1, <1>2, <1>3
  <1>9. q >= 1
    <2>1. k * q > 0
      BY <1>1, <1>2, <1>4, <1>8
    <2> QED BY <1>1, <1>2, <2>1
  <1>10. \A j \in 0 .. (k - 1) : j # i - 1 /\ j # i + 1 => cut(j).lo < cut(j).hi
    <2> SUFFICES ASSUME NEW j \in 0 .. (k - 1), j # i - 1, j # i + 1 PROVE cut(j).lo < cut(j).hi
      OBVIOUS
    <2>1. cut(j).lo = j * q /\ cut(j).hi = IF j < k - 1 THEN (j + 1) * q ELSE n
      BY <1>5, <1>7
    <2>2. j * q \in Nat /\ (j + 1) * q = j * q + q /\ j \in Nat
      BY <1>1, <1>2, Products
    <2>3. CASE j < k - 1
      BY <1>2, <1>9, <2>1, <2>2, <2>3
    <2>4. CASE j = k - 1
      <3>1. k * q = j * q + q
        BY <1>1, <2>2, <2>4
      <3>2. k * q <= n
        <4>1. cfg.k \in Nat \ {0}
          BY <1>1 DEF k
        <4> QED BY <4>1, Quotient DEF k, q
      <3> QED BY <1>2, <1>9, <2>1, <2>2, <2>4, <3>1, <3>2
    <2> QED BY <1>1, <2>3, <2>4
  <1>11. CASE i >= 2
    <2>1. 0 \in (0 .. (k - 1)) \ {i} /\ 0 # i - 1 /\ 0 # i + 1
      BY <1>1, <1>11
    <2> QED BY <1>6, <1>10, <2>1
  <1>12. CASE i < 2 /\ i + 1 < k - 1
    <2>1. k - 1 \in (0 .. (k - 1)) \ {i} /\ k - 1 # i - 1 /\ k - 1 # i + 1
      BY <1>1, <1>12
    <2> QED BY <1>6, <1>10, <2>1
  <1>13. CASE i < 2 /\ ~ (i + 1 < k - 1)
    <2>1. i = 1 /\ k = 3
      BY <1>1, <1>13
    <2>2. n >= 30 + 2 * p + 2 * e /\ n < 3 * q + 3 /\ 3 * q <= n
      <3>1. (p + e) * (k - 1) = 2 * p + 2 * e
        BY <1>3, <2>1
      <3>2. k * q = 3 * q
        BY <2>1
      <3>3. k * q <= n
        <4>1. cfg.k \in Nat \ {0}
          BY <1>1 DEF k
        <4> QED BY <4>1, Quotient DEF k, q
      <3> QED BY <1>2, <1>3, <1>4, <2>1, <3>1, <3>2, <3>3
    <2>3. f(0).lo = 0 /\ f(0).hi = q /\ f(2).lo = 2 * q /\ f(2).hi = n
      BY <1>2, <1>5, <2>1
    <2>4. CASE p < q
      <3>1. cut(0).lo = 0 /\ cut(0).hi = q - p
        <4>1. cut(0).lo = f(0).lo /\ cut(0).hi = Max({f(0).lo, f(0).hi - p})
          <5>1. (0 = i + 1) = FALSE /\ (0 = i - 1) = TRUE
            BY <2>1
          <5> QED BY <1>7, <5>1, Zenon
        <4>2. Max({0, q - p}) = q - p
          BY <1>2, <1>3, <2>4, MaxOfTwo
        <4> QED BY <2>3, <4>1, <4>2
      <3>2. 0 \in (0 .. (k - 1)) \ {i} /\ cut(0).lo < cut(0).hi
        BY <1>2, <1>3, <2>1, <2>4, <3>1
      <3> QED BY <1>6, <3>2
    <2>5. CASE ~ (p < q)
      <3>1. 2 * q + e < n
        BY <1>2, <1>3, <2>2, <2>5
      <3>2. cut(2).lo = 2 * q + e /\ cut(2).hi = n
        <4>1. cut(2).lo = Min({f(2).hi, f(2).lo + e}) /\ cut(2).hi = f(2).hi
          <5>1. (2 = i + 1) = TRUE /\ (2 = i - 1) = FALSE
            BY <2>1
          <5> QED BY <1>7, <5>1, Zenon
        <4>2. Min({n, 2 * q + e}) = 2 * q + e
          BY <1>2, <1>3, <3>1, MinOfTwo
        <4> QED BY <2>3, <4>1, <4>2
      <3>3. 2 \in (0 .. (k - 1)) \ {i} /\ cut(2).lo < cut(2).hi
        BY <2>1, <3>1, <3>2
      <3> QED BY <1>6, <3>3
    <2> QED BY <2>4, <2>5
  <1> QED BY <1>1, <1>11, <1>12, <1>13

\* The folds tile the samples, each of them large enough, and leave something to train on.
LEMMA FoldsAreUsable ==
  ASSUME NEW n \in Nat, NEW cfg \in CvConfig, CanSplit(n, cfg)
  PROVE  FoldsUsable(n, cfg)
  <1> DEFINE k == cfg.k
             q == n \div k
             gaps == Purge(n, cfg) + Embargo(n, cfg)
  <1>1. k \in Nat /\ k >= 2
    BY DEF CvConfig
  <1>2. q \in Nat /\ k * q <= n /\ n < k * q + k
    <2>1. cfg.k \in Nat \ {0}
      BY <1>1
    <2> QED BY <2>1, Quotient
  <1>3. Fold(n, cfg, 0).lo = 0 /\ Fold(n, cfg, k - 1).hi = n
    BY <1>1, <1>2 DEF Fold, Span
  <1>4. ASSUME NEW i \in 0 .. (k - 1), i > 0
        PROVE  Fold(n, cfg, i).lo = Fold(n, cfg, i - 1).hi
    <2>1. i - 1 < k - 1 /\ (i - 1) + 1 = i
      BY <1>1, <1>4
    <2> QED BY <2>1 DEF Fold, Span
  <1>5. q >= 10
    <2>1. n >= k * 10 + gaps * (k - 1)
      BY DEF CanSplit, MinFoldSamples
    <2>2. gaps \in Nat
      BY GapTypes
    <2> HIDE DEF gaps, k, q
    <2>3. gaps * (k - 1) \in Nat
      BY <1>1, <2>2
    <2>4. k * q + k > k * 10
      BY <1>1, <1>2, <2>1, <2>3
    <2>5. k * (q + 1) = k * q + k
      BY <1>1, <1>2
    <2>6. ASSUME q + 1 <= 10 PROVE FALSE
      <3>1. k * (q + 1) <= k * 10
        BY <1>1, <1>2, <2>6
      <3> QED BY <1>1, <1>2, <2>4, <2>5, <3>1
    <2> QED BY <1>2, <2>6
  <1>6. ASSUME NEW i \in 0 .. (k - 1)
        PROVE  Fold(n, cfg, i).hi - Fold(n, cfg, i).lo >= MinFoldSamples
    <2>1. Fold(n, cfg, i).lo = i * q /\ Fold(n, cfg, i).hi = IF i < k - 1 THEN (i + 1) * q ELSE n
      BY DEF Fold, Span
    <2> HIDE DEF q, k
    <2>2. i \in Nat /\ i * q \in Nat /\ (i + 1) * q = i * q + q
      BY <1>1, <1>2, Products
    <2>3. CASE i < k - 1
      BY <1>2, <1>5, <2>1, <2>2, <2>3 DEF MinFoldSamples
    <2>4. CASE i = k - 1
      <3>1. k * q = i * q + q
        BY <1>1, <2>2, <2>4
      <3> QED BY <1>1, <1>2, <1>5, <2>1, <2>2, <2>4, <3>1 DEF MinFoldSamples
    <2> QED BY <1>1, <2>3, <2>4
  <1>7. k > 2 => CanTrain(n, cfg)
    BY SomethingToTrainOn DEF CanTrain
  <1> QED BY <1>3, <1>4, <1>6, <1>7 DEF FoldsUsable

\* The windows sized from a range fit into it, and are as many as they ask for.
LEMMA SizesFit ==
  ASSUME NEW days \in Nat, days > 20
  PROVE  LET cfg == AutoWfa(days)
         IN  /\ cfg.is \in Nat /\ cfg.is > 0 /\ cfg.oos \in Nat /\ cfg.step \in Nat \ {0}
             /\ cfg.is + cfg.oos <= days
             /\ cfg.min <= (days - (cfg.is + cfg.oos)) \div cfg.step + 1
  <1> DEFINE window == Max({20, (days * 3) \div 4})
             is == Max({14, (window * 3) \div 4})
             oos == Max({6, window - is})
             step == Max({3, (window * 8) \div 100})
             count == (days - (is + oos)) \div step + 1
             est == Max({1, count})
  <1>1. (days * 3) \div 4 \in Nat /\ 4 * ((days * 3) \div 4) <= days * 3
    BY Quotient
  <1>2. window \in Nat /\ window >= 20 /\ (window = 20 \/ 4 * window <= days * 3)
    BY <1>1, MaxOfTwo
  <1> HIDE DEF window
  <1>3. (window * 3) \div 4 \in Nat /\ 4 * ((window * 3) \div 4) <= window * 3 /\ window * 3 < 4 * ((window * 3) \div 4) + 4
    <2> DEFINE x == window * 3
    <2>1. x \in Nat
      BY <1>2
    <2> HIDE DEF x
    <2>2. x \div 4 \in Nat /\ 4 * (x \div 4) <= x /\ x < 4 * (x \div 4) + 4
      BY <2>1, Quotient
    <2> QED BY <2>2 DEF x
  <1>4. is \in Nat /\ is >= 14 /\ 4 * is <= window * 3
    BY <1>2, <1>3, MaxOfTwo
  <1> HIDE DEF is
  <1>5. oos \in Nat /\ oos >= 6 /\ (oos = 6 \/ oos = window - is)
    BY <1>2, <1>4, MaxOfTwo
  <1> HIDE DEF oos
  <1>6. is + oos <= days
    BY <1>2, <1>4, <1>5
  <1>7. (window * 8) \div 100 \in Nat
    <2>1. window * 8 \in Nat
      BY <1>2
    <2> QED BY <2>1, Quotient
  <1>8. step \in Nat /\ step >= 3
    BY <1>7, MaxOfTwo
  <1> HIDE DEF step
  <1>9. count \in Nat /\ count >= 1
    <2>1. days - (is + oos) \in Nat /\ step \in Nat \ {0}
      BY <1>4, <1>5, <1>6, <1>8
    <2>2. (days - (is + oos)) \div step \in Nat
      BY <2>1, Quotient
    <2> QED BY <2>2
  <1> HIDE DEF count
  <1>10. est = count
    BY <1>9, MaxOfTwo
  <1>11. AutoWfa(days) = [is |-> is, oos |-> oos, step |-> step, min |-> Max({1, Min({est, DefaultWfa.min})})]
    BY DEF AutoWfa, window, is, oos, step, count
  <1> HIDE DEF est
  <1>12. Max({1, Min({est, DefaultWfa.min})}) <= count
    <2>1. DefaultWfa.min = 8
      BY DEF DefaultWfa
    <2>2. Min({est, 8}) = IF count <= 8 THEN count ELSE 8
      BY <1>9, <1>10, MinOfTwo
    <2> QED BY <1>9, <2>1, <2>2, MaxOfTwo
  <1> QED BY <1>4, <1>5, <1>6, <1>8, <1>11, <1>12 DEF count

\* The windows of a range of three weeks or more fit into it.
LEMMA WindowsDoFit ==
  ASSUME NEW days \in Nat, days > 20
  PROVE  WindowsFit(days)
  <1> DEFINE cfg == AutoWfa(days)
             last == days - (cfg.is + cfg.oos)
             K == 0 .. (last \div cfg.step)
             w(k) == [is  |-> Span(k * cfg.step, k * cfg.step + cfg.is),
                      oos |-> Span(k * cfg.step + cfg.is, k * cfg.step + cfg.is + cfg.oos)]
  <1>1. /\ cfg.is \in Nat /\ cfg.is > 0 /\ cfg.oos \in Nat /\ cfg.step \in Nat \ {0}
        /\ cfg.is + cfg.oos <= days /\ cfg.min <= last \div cfg.step + 1
    BY SizesFit
  <1>2. last \in Nat /\ last \div cfg.step \in Nat /\ cfg.step * (last \div cfg.step) <= last
    <2>1. last \in Nat
      BY <1>1
    <2> QED BY <1>1, <2>1, Quotient
  <1>3. WfaWindows(days, cfg) = {w(k) : k \in K}
    BY <1>2 DEF WfaWindows
  <1>4. ASSUME NEW k \in K
        PROVE  k * cfg.step \in Nat /\ k * cfg.step <= last
    <2>1. k \in Nat /\ k <= last \div cfg.step
      BY <1>2
    <2>2. k * cfg.step <= (last \div cfg.step) * cfg.step /\ k * cfg.step \in Nat
      BY <1>1, <1>2, <2>1, Products
    <2>3. (last \div cfg.step) * cfg.step = cfg.step * (last \div cfg.step)
      BY <1>1, <1>2
    <2> QED BY <1>1, <1>2, <2>2, <2>3
  <1>5. \A k : /\ w(k).is.lo = k * cfg.step /\ w(k).is.hi = k * cfg.step + cfg.is
               /\ w(k).oos.lo = k * cfg.step + cfg.is /\ w(k).oos.hi = k * cfg.step + cfg.is + cfg.oos
    BY DEF Span
  <1>6. Cardinality({w(k) : k \in K}) = last \div cfg.step + 1
    <2> DEFINE W == {w(k) : k \in K}
               g == [k \in K |-> w(k)]
    <2>1. IsFiniteSet(K) /\ Cardinality(K) = last \div cfg.step + 1
      BY <1>2, FS_Interval
    <2>2. \A k, m \in K : w(k) = w(m) => k = m
      <3> SUFFICES ASSUME NEW k \in K, NEW m \in K, w(k) = w(m) PROVE k = m
        OBVIOUS
      <3>1. k * cfg.step = m * cfg.step
        BY <1>5
      <3>2. k \in Nat /\ m \in Nat /\ cfg.step \in Nat \ {0}
        BY <1>1, <1>2
      <3>3. ASSUME NEW a \in Nat, NEW b \in Nat, a < b
            PROVE  a * cfg.step < b * cfg.step
        <4>1. (a + 1) * cfg.step <= b * cfg.step /\ (a + 1) * cfg.step = a * cfg.step + cfg.step
          BY <1>1, <3>3, Products
        <4>2. a * cfg.step \in Nat /\ b * cfg.step \in Nat
          BY <1>1, <3>3, Products
        <4> QED BY <1>1, <4>1, <4>2
      <3>4. ~ (k < m) /\ ~ (m < k)
        <4>1. k * cfg.step \in Nat /\ m * cfg.step \in Nat
          BY <1>1, <3>2, Products
        <4> QED BY <3>1, <3>2, <3>3, <4>1
      <3> QED BY <3>2, <3>4
    <2>3. g \in Bijection(K, W)
      <3> HIDE DEF w
      <3>1. g \in [K -> W] /\ \A k \in K : g[k] = w(k)
        OBVIOUS
      <3> HIDE DEF g
      <3> QED BY <2>2, <3>1 DEF Bijection, Injection, Surjection, IsInjective
    <2>4. ExistsBijection(K, W)
      BY <2>3 DEF ExistsBijection
    <2> QED BY <2>1, <2>4, FS_Bijection
  <1>7. EnoughWindows(days, cfg)
    BY <1>1, <1>3, <1>6 DEF EnoughWindows
  <1>8. ASSUME NEW k \in K
        PROVE  w(k).is.lo < w(k).is.hi /\ w(k).is.hi <= w(k).oos.lo /\ w(k).oos.hi <= days
    BY <1>1, <1>2, <1>4, <1>5
  <1> HIDE DEF w, K
  <1> QED BY <1>3, <1>7, <1>8 DEF WindowsFit

-----------------------------------------------------------------------------
(* The Pareto front.  That the elimination compares only with what is still *)
(* in loses nothing: whoever is dominated is dominated by a result that is  *)
(* itself dominated by none.                                                *)

Measure == [sharpe : Int, pf : Int, dd : Int, trades : Int]
Result == [combo : Combos, m : Measure]

\* A nonempty set of numbers has a least element.
LEMMA LeastNumber ==
  ASSUME NEW T \in SUBSET Nat, T # {}
  PROVE  \E x \in T : \A y \in T : x <= y
  <1> DEFINE R == OpToRel(<, Nat)
  <1>1. IsWellFoundedOn(R, Nat)
    BY NatLessThanWellFounded
  <1>2. \A x, y \in Nat : <<y, x>> \in R <=> y < x
    BY DEF OpToRel
  <1> HIDE DEF R
  <1>3. PICK x \in T : \A y \in T : ~ (<<y, x>> \in R)
    BY <1>1, WFMin
  <1>4. ASSUME NEW y \in T PROVE x <= y
    <2>1. x \in Nat /\ y \in Nat /\ ~ (y < x)
      BY <1>2, <1>3
    <2> QED BY <2>1
  <1> QED BY <1>4

Better(rs, k, i) == Dominates(rs[k].m, rs[i].m)
Undominated(rs) == {i \in DOMAIN rs : ~ \E k \in DOMAIN rs : Better(rs, k, i)}

\* Dominance is irreflexive and transitive.
LEMMA DominanceIsAnOrder ==
  ASSUME NEW rs \in Seq(Result)
  PROVE  /\ \A i \in DOMAIN rs : ~ Better(rs, i, i)
         /\ \A i, j, k \in DOMAIN rs : Better(rs, i, j) /\ Better(rs, j, k) => Better(rs, i, k)
  <1>1. \A i \in DOMAIN rs : rs[i].m.sharpe \in Int /\ rs[i].m.pf \in Int /\ rs[i].m.dd \in Int
    <2> SUFFICES ASSUME NEW i \in DOMAIN rs
                 PROVE  rs[i].m.sharpe \in Int /\ rs[i].m.pf \in Int /\ rs[i].m.dd \in Int
      OBVIOUS
    <2>1. rs[i] \in Result
      OBVIOUS
    <2> QED BY <2>1 DEF Result, Measure
  <1>2. ASSUME NEW i \in DOMAIN rs PROVE ~ Better(rs, i, i)
    BY <1>1 DEF Better, Dominates
  <1>3. ASSUME NEW i \in DOMAIN rs, NEW j \in DOMAIN rs, NEW k \in DOMAIN rs, Better(rs, i, j), Better(rs, j, k)
        PROVE  Better(rs, i, k)
    <2> DEFINE a == rs[i].m
               b == rs[j].m
               c == rs[k].m
    <2>1. /\ a.sharpe \in Int /\ a.pf \in Int /\ a.dd \in Int
          /\ b.sharpe \in Int /\ b.pf \in Int /\ b.dd \in Int
          /\ c.sharpe \in Int /\ c.pf \in Int /\ c.dd \in Int
      BY <1>1
    <2>2. Dominates(a, b) /\ Dominates(b, c)
      BY <1>3 DEF Better
    <2> HIDE DEF a, b, c
    <2>3. a.sharpe >= b.sharpe /\ b.sharpe >= c.sharpe /\ a.pf >= b.pf /\ b.pf >= c.pf /\ a.dd <= b.dd /\ b.dd <= c.dd
      BY <2>2 DEF Dominates
    <2>4. a.sharpe > b.sharpe \/ a.dd < b.dd \/ a.pf > b.pf
      BY <2>2 DEF Dominates
    <2>5. a.sharpe >= c.sharpe
      BY <2>1, <2>3
    <2>6. a.pf >= c.pf
      BY <2>1, <2>3
    <2>7. a.dd <= c.dd
      BY <2>1, <2>3
    <2>8. a.sharpe > c.sharpe \/ a.dd < c.dd \/ a.pf > c.pf
      <3>1. CASE a.sharpe > b.sharpe
        BY <2>1, <2>3, <3>1
      <3>2. CASE a.dd < b.dd
        BY <2>1, <2>3, <3>2
      <3>3. CASE a.pf > b.pf
        BY <2>1, <2>3, <3>3
      <3> QED BY <2>4, <3>1, <3>2, <3>3
    <2>9. Dominates(a, c)
      BY <2>5, <2>6, <2>7, <2>8 DEF Dominates
    <2> QED BY <2>9 DEF Better, a, c
  <1> QED BY <1>2, <1>3

\* Of those that dominate a result, one with the fewest above it is dominated by none.
LEMMA DominatedByUndominated ==
  ASSUME NEW rs \in Seq(Result), NEW i \in DOMAIN rs, i \notin Undominated(rs)
  PROVE  \E k \in Undominated(rs) : Better(rs, k, i)
  <1> DEFINE D == DOMAIN rs
             above(k) == {x \in D : Better(rs, x, k)}
             T == {Cardinality(above(k)) : k \in above(i)}
  <1>1. IsFiniteSet(D)
    <2>1. D = 1 .. Len(rs) /\ Len(rs) \in Nat
      OBVIOUS
    <2> QED BY <2>1, FS_Interval
  <1>2. \A k : IsFiniteSet(above(k)) /\ Cardinality(above(k)) \in Nat
    <2> SUFFICES ASSUME NEW k PROVE IsFiniteSet(above(k)) /\ Cardinality(above(k)) \in Nat
      OBVIOUS
    <2>1. above(k) \subseteq D
      OBVIOUS
    <2> HIDE DEF above, D
    <2> QED BY <1>1, <2>1, FS_Subset, FS_CardinalityType
  <1>3. T \in SUBSET Nat /\ T # {}
    BY <1>2 DEF Undominated
  <1>4. PICK t \in T : \A u \in T : t <= u
    BY <1>3, LeastNumber
  <1>5. PICK k \in above(i) : t = Cardinality(above(k))
    BY <1>4
  <1>6. ASSUME NEW x \in D, Better(rs, x, k) PROVE FALSE
    <2>1. x \in above(i) /\ x \in above(k)
      BY <1>5, <1>6, DominanceIsAnOrder
    <2>2. above(x) \subseteq above(k) /\ x \notin above(x)
      BY <1>5, <1>6, DominanceIsAnOrder
    <2>3. Cardinality(above(x)) \in T
      BY <2>1
    <2>4. above(x) # above(k)
      BY <2>1, <2>2
    <2> HIDE DEF above, T
    <2>5. Cardinality(above(x)) <= Cardinality(above(k)) /\ Cardinality(above(x)) # Cardinality(above(k))
      BY <1>2, <2>2, <2>4, FS_Subset
    <2>6. Cardinality(above(k)) <= Cardinality(above(x))
      BY <1>4, <1>5, <2>3
    <2> QED BY <1>2, <2>5, <2>6
  <1>7. k \in D /\ Better(rs, k, i)
    BY <1>5
  <1> QED BY <1>6, <1>7 DEF Undominated

\* The elimination keeps what nothing dominates.
LEMMA FrontIsUndominated ==
  ASSUME NEW rs \in Seq(Result)
  PROVE  ParetoFront(rs) = Undominated(rs)
  <1> DEFINE L == Len(rs)
             D == DOMAIN rs
             U == Undominated(rs)
             next(set, n) == {i \in set : i = n => ~ \E j \in set \ {n} : Better(rs, j, n)}
             P(g) == g = [n \in 0 .. L |-> IF n = 0 THEN D ELSE next(g[n - 1], n)]
             h == [n \in 0 .. L |-> {i \in D : i > n \/ i \in U}]
  <1>1. ParetoFront(rs) = (CHOOSE g : P(g))[L]
    BY DEF ParetoFront, Better
  <1>2. L \in Nat /\ D = 1 .. L /\ U \subseteq D
    BY DEF Undominated
  \* One step of the elimination.
  <1>3. ASSUME NEW n \in 1 .. L
        PROVE  next({i \in D : i > n - 1 \/ i \in U}, n) = {i \in D : i > n \/ i \in U}
    <2> DEFINE old == {i \in D : i > n - 1 \/ i \in U}
    <2>1. n \in D /\ n \in old
      BY <1>2
    <2>2. (\E j \in old \ {n} : Better(rs, j, n)) <=> n \notin U
      <3>1. CASE n \in U
        BY <1>2, <3>1 DEF Undominated
      <3>2. CASE n \notin U
        <4>1. PICK k \in U : Better(rs, k, n)
          BY <2>1, <3>2, DominatedByUndominated
        <4>2. k \in old \ {n}
          BY <1>2, <3>2, <4>1
        <4> QED BY <3>2, <4>1, <4>2
      <3> QED BY <3>1, <3>2
    <2>3. \A i \in D : i > n - 1 <=> i > n \/ i = n
      BY <1>2
    <2>4. next(old, n) = {i \in old : i = n => n \in U}
      BY <2>2
    <2> QED BY <2>3, <2>4
  <1> HIDE DEF next, U, D, L
  <1>4. P(h)
    <2>1. \A n \in 0 .. L : h[n] = {i \in D : i > n \/ i \in U}
      OBVIOUS
    <2>2. h[0] = D
      BY <1>2
    <2>3. ASSUME NEW n \in 0 .. L, n # 0 PROVE h[n] = next(h[n - 1], n)
      <3>1. n \in 1 .. L /\ n - 1 \in 0 .. L
        BY <1>2, <2>3
      <3> QED BY <1>3, <2>1, <3>1
    <2> DEFINE e == [n \in 0 .. L |-> IF n = 0 THEN D ELSE next(h[n - 1], n)]
    <2>4. ASSUME NEW n \in 0 .. L PROVE h[n] = e[n]
      BY <2>2, <2>3
    <2>5. DOMAIN h = 0 .. L /\ DOMAIN e = 0 .. L /\ h = [n \in 0 .. L |-> h[n]] /\ e = [n \in 0 .. L |-> e[n]]
      OBVIOUS
    <2> HIDE DEF e
    <2>6. h = e
      BY <2>4, <2>5
    <2> QED BY <2>6 DEF e
  <1>5. ASSUME NEW g, P(g) PROVE g[L] = h[L]
    <2>1. g[0] = D /\ \A n \in 1 .. L : g[n] = next(g[n - 1], n)
      <3>1. g = [n \in 0 .. L |-> IF n = 0 THEN D ELSE next(g[n - 1], n)]
        BY <1>5
      <3> HIDE DEF P
      <3>2. \A n \in 0 .. L : g[n] = IF n = 0 THEN D ELSE next(g[n - 1], n)
        BY <3>1
      <3> QED BY <1>2, <3>2
    <2>2. h[0] = D /\ \A n \in 1 .. L : h[n] = next(h[n - 1], n)
      <3> HIDE DEF h
      <3>1. h = [n \in 0 .. L |-> IF n = 0 THEN D ELSE next(h[n - 1], n)]
        BY <1>4
      <3> HIDE DEF P
      <3>2. \A n \in 0 .. L : h[n] = IF n = 0 THEN D ELSE next(h[n - 1], n)
        BY <3>1
      <3> QED BY <1>2, <3>2
    <2> DEFINE T == {n \in 0 .. L : g[n] # h[n]}
    <2> HIDE DEF h, P
    <2>3. T = {}
      <3> SUFFICES ASSUME T # {} PROVE FALSE
        OBVIOUS
      <3>1. T \in SUBSET Nat
        BY <1>2
      <3>2. PICK n \in T : \A u \in T : n <= u
        BY <3>1, LeastNumber
      <3>3. n \in 1 .. L
        BY <1>2, <2>1, <2>2, <3>2
      <3>4. n - 1 \in 0 .. L /\ n - 1 \notin T
        BY <1>2, <3>2, <3>3
      <3>5. g[n - 1] = h[n - 1]
        BY <3>4
      <3> QED BY <2>1, <2>2, <3>2, <3>3, <3>5
    <2> QED BY <1>2, <2>3
  <1>6. h[L] = U
    <2>1. L \in 0 .. L /\ \A i \in D : ~ (i > L)
      BY <1>2
    <2>2. h[L] = {i \in D : i > L \/ i \in U}
      BY <2>1
    <2> HIDE DEF h
    <2> QED BY <1>2, <2>1, <2>2
  <1>7. P(CHOOSE g : P(g))
    BY <1>4
  <1> HIDE DEF P, h
  <1>8. (CHOOSE g : P(g))[L] = h[L]
    BY <1>5, <1>7
  <1> QED BY <1>1, <1>6, <1>8 DEF U

-----------------------------------------------------------------------------
(* Ranking.  The place of a result is the number of those ahead of it; each *)
(* place is taken once.                                                     *)

\* The ranked list holds every position once, those ahead of it before it.
LEMMA Ranking ==
  ASSUME NEW rs \in Seq(Result), NEW S \in SUBSET DOMAIN rs
  PROVE  \E order \in Bijection(1 .. Cardinality(S), S) :
            /\ RankBySharpe(rs, S) = [n \in 1 .. Cardinality(S) |-> rs[order[n]]]
            /\ \A m, n \in 1 .. Cardinality(S) :
                  m < n => rs[order[n]].m.sharpe <= rs[order[m]].m.sharpe
  <1> DEFINE N == Cardinality(S)
             ahead(i) == {j \in S : Ahead(rs, j, i)}
             c(i) == Cardinality(ahead(i))
             order == [n \in 1 .. N |-> CHOOSE i \in S : c(i) = n - 1]
  <1>1. IsFiniteSet(S) /\ N \in Nat
    <2>1. DOMAIN rs = 1 .. Len(rs) /\ Len(rs) \in Nat
      OBVIOUS
    <2>2. IsFiniteSet(DOMAIN rs)
      BY <2>1, FS_Interval
    <2> QED BY <2>2, FS_Subset, FS_CardinalityType
  <1>2. \A i \in S : rs[i].m.sharpe \in Int /\ i \in Nat
    <2> SUFFICES ASSUME NEW i \in S PROVE rs[i].m.sharpe \in Int /\ i \in Nat
      OBVIOUS
    <2>1. rs[i] \in Result /\ i \in Nat
      OBVIOUS
    <2> QED BY <2>1 DEF Result, Measure
  <1>3. \A i \in S : ~ Ahead(rs, i, i)
    BY <1>2 DEF Ahead
  <1>4. \A i, j \in S : i = j \/ Ahead(rs, i, j) \/ Ahead(rs, j, i)
    BY <1>2 DEF Ahead
  <1>5. ASSUME NEW i \in S, NEW j \in S, NEW k \in S, Ahead(rs, i, j), Ahead(rs, j, k)
        PROVE  Ahead(rs, i, k)
    <2> DEFINE a == rs[i].m.sharpe
               b == rs[j].m.sharpe
               d == rs[k].m.sharpe
    <2>1. a \in Int /\ b \in Int /\ d \in Int /\ i \in Nat /\ j \in Nat /\ k \in Nat
      BY <1>2
    <2>2. (a > b \/ (a = b /\ i < j)) /\ (b > d \/ (b = d /\ j < k))
      BY <1>5 DEF Ahead
    <2> HIDE DEF a, b, d
    <2>3. a > d \/ (a = d /\ i < k)
      BY <2>1, <2>2
    <2> QED BY <2>3 DEF Ahead, a, d
  <1>6. ASSUME NEW i \in S PROVE IsFiniteSet(ahead(i)) /\ c(i) \in 0 .. (N - 1)
    <2>1. ahead(i) \subseteq S /\ i \notin ahead(i)
      BY <1>3
    <2> HIDE DEF ahead
    <2>2. IsFiniteSet(ahead(i)) /\ c(i) \in Nat /\ c(i) <= N /\ c(i) # N
      <3>1. IsFiniteSet(ahead(i)) /\ Cardinality(ahead(i)) <= Cardinality(S)
        BY <1>1, <2>1, FS_Subset
      <3>2. Cardinality(ahead(i)) # Cardinality(S)
        BY <1>1, <2>1, FS_Subset
      <3> QED BY <3>1, <3>2, FS_CardinalityType
    <2> HIDE DEF c, N
    <2> QED BY <1>1, <2>2
  <1>7. ASSUME NEW i \in S, NEW j \in S, Ahead(rs, i, j) PROVE c(i) < c(j)
    <2>1. ahead(i) \subseteq ahead(j) /\ i \in ahead(j) /\ i \notin ahead(i)
      BY <1>3, <1>5, <1>7
    <2>2. IsFiniteSet(ahead(i)) /\ IsFiniteSet(ahead(j))
      BY <1>6
    <2> HIDE DEF ahead
    <2>3. Cardinality(ahead(i)) <= Cardinality(ahead(j)) /\ Cardinality(ahead(i)) # Cardinality(ahead(j))
      BY <2>1, <2>2, FS_Subset
    <2> QED BY <2>2, <2>3, FS_CardinalityType
  <1> HIDE DEF c, ahead
  <1>8. \A i, j \in S : c(i) = c(j) => i = j
    <2> SUFFICES ASSUME NEW i \in S, NEW j \in S, c(i) = c(j), i # j PROVE FALSE
      OBVIOUS
    <2>1. c(i) < c(j) \/ c(j) < c(i)
      BY <1>4, <1>7
    <2>2. c(i) \in Int /\ c(j) \in Int
      BY <1>1, <1>6
    <2> QED BY <2>1, <2>2
  <1>9. {c(i) : i \in S} = 0 .. (N - 1)
    <2> DEFINE C == {c(i) : i \in S}
               g == [i \in S |-> c(i)]
    <2>1. C \subseteq 0 .. (N - 1)
      BY <1>6
    <2>2. g \in [S -> C] /\ \A i \in S : g[i] = c(i)
      OBVIOUS
    <2>3. \A y \in C : \E i \in S : c(i) = y
      OBVIOUS
    <2> HIDE DEF g, C
    <2>4. g \in Bijection(S, C)
      BY <1>8, <2>2, <2>3 DEF Bijection, Injection, Surjection, IsInjective
    <2>5. IsFiniteSet(C) /\ Cardinality(C) = N
      BY <1>1, <2>4, FS_Bijection DEF ExistsBijection
    <2>6. IsFiniteSet(0 .. (N - 1)) /\ Cardinality(0 .. (N - 1)) = N
      <3> HIDE DEF N
      <3>1. 0 \in Int /\ N - 1 \in Int
        BY <1>1
      <3>2. /\ IsFiniteSet(0 .. (N - 1))
            /\ Cardinality(0 .. (N - 1)) = IF 0 > N - 1 THEN 0 ELSE (N - 1) - 0 + 1
        BY <3>1, FS_Interval
      <3> QED BY <1>1, <3>2
    <2>7. C = 0 .. (N - 1)
      BY <2>1, <2>5, <2>6, FS_Subset
    <2> QED BY <2>7 DEF C
  <1>10. ASSUME NEW n \in 1 .. N
         PROVE  order[n] \in S /\ c(order[n]) = n - 1
    <2>1. n - 1 \in 0 .. (N - 1)
      BY <1>1
    <2>2. \E i \in S : c(i) = n - 1
      BY <1>9, <2>1
    <2> QED BY <2>2
  <1>11. order \in [1 .. N -> S]
    BY <1>10
  <1>12. \A i \in S : c(i) + 1 \in 1 .. N /\ order[c(i) + 1] = i
    <2> SUFFICES ASSUME NEW i \in S PROVE c(i) + 1 \in 1 .. N /\ order[c(i) + 1] = i
      OBVIOUS
    <2>1. c(i) \in 0 .. (N - 1)
      BY <1>6
    <2>2. c(i) + 1 \in 1 .. N /\ (c(i) + 1) - 1 = c(i)
      BY <1>1, <2>1
    <2>3. order[c(i) + 1] \in S /\ c(order[c(i) + 1]) = c(i)
      BY <1>10, <2>2
    <2> HIDE DEF order
    <2> QED BY <1>8, <2>2, <2>3
  <1>13. RankBySharpe(rs, S) = [n \in 1 .. N |-> rs[order[n]]]
    BY DEF RankBySharpe, c, ahead
  <1> HIDE DEF order
  <1>14. order \in Bijection(1 .. N, S)
    <2>1. \A m, n \in 1 .. N : order[m] = order[n] => m = n
      <3> SUFFICES ASSUME NEW m \in 1 .. N, NEW n \in 1 .. N, order[m] = order[n] PROVE m = n
        OBVIOUS
      <3>1. c(order[m]) = m - 1 /\ c(order[n]) = n - 1
        BY <1>10
      <3> QED BY <1>1, <3>1
    <2>2. \A i \in S : \E n \in 1 .. N : order[n] = i
      BY <1>12
    <2> QED BY <1>11, <2>1, <2>2 DEF Bijection, Injection, Surjection, IsInjective
  <1>15. ASSUME NEW m \in 1 .. N, NEW n \in 1 .. N, m < n
         PROVE  rs[order[n]].m.sharpe <= rs[order[m]].m.sharpe
    <2>1. order[m] \in S /\ order[n] \in S /\ c(order[m]) = m - 1 /\ c(order[n]) = n - 1
      BY <1>10
    <2>2. m \in Nat /\ n \in Nat
      BY <1>1
    <2>3. ~ Ahead(rs, order[n], order[m])
      <3> SUFFICES ASSUME Ahead(rs, order[n], order[m]) PROVE FALSE
        OBVIOUS
      <3>1. c(order[n]) < c(order[m])
        BY <1>7, <2>1
      <3> QED BY <1>15, <2>1, <2>2, <3>1
    <2>4. rs[order[n]].m.sharpe \in Int /\ rs[order[m]].m.sharpe \in Int
      BY <1>2, <2>1
    <2> QED BY <2>3, <2>4 DEF Ahead
  <1> QED BY <1>13, <1>14, <1>15

-----------------------------------------------------------------------------
(* The rows of one screening. *)

Passed(rows) == {i \in DOMAIN rows : PassesFilters(rows[i])}
AnyFailed(rows) == \E r \in Range(rows) : HasFailed(r)
Allowed(rows) == {i \in Passed(rows) : Cardinality(Passed(rows)) <= 1 \/ (rows[i].combo \in Lucky /\ ~ AnyFailed(rows))}

InOrder(rows) ==
    \A i \in 1 .. (Len(rows) - 1) :
        rows[i + 1].m.sharpe <= rows[i].m.sharpe /\ rows[i + 1].id = rows[i].id + 1
FrontMarked(rows) ==
    \A i \in DOMAIN rows :
        rows[i].pareto <=> i \in Allowed(rows) /\ ~ \E d \in Allowed(rows) : Dominates(rows[d].m, rows[i].m)
OneEach(rows) == {r.combo : r \in Range(rows)} = Combos /\ Len(rows) = Cardinality(Combos)

\* Results of a whole screening.
Complete(all) ==
    /\ all \in Seq(Result) /\ Range([i \in DOMAIN all |-> all[i].combo]) = Combos
    /\ \A i, j \in DOMAIN all : all[i].combo = all[j].combo => i = j

\* The survivors are what passes the limits and the significance test.
LEMMA SurvivorsAllowed == ASSUME NEW all PROVE Survivors(all) = Allowed(all)
  BY DEF Survivors, PassesDsr, Allowed, Passed, AnyFailed

\* The combinations on the front, whatever the survivors' order.
LEMMA FrontCombos ==
  ASSUME NEW all \in Seq(Result)
  PROVE  LET V == Allowed(all)
             survived == RankBySharpe(all, Survivors(all))
         IN  {survived[i].combo : i \in ParetoFront(survived)} =
             {all[v].combo : v \in {u \in V : ~ \E d \in V : Dominates(all[d].m, all[u].m)}}
  <1> DEFINE V == Allowed(all)
             N == Cardinality(V)
             best == {u \in V : ~ \E d \in V : Dominates(all[d].m, all[u].m)}
             survived == RankBySharpe(all, V)
  <1>1. V \in SUBSET DOMAIN all
    BY DEF Allowed, Passed
  <1>2. IsFiniteSet(V) /\ N \in Nat
    <2>1. DOMAIN all = 1 .. Len(all) /\ Len(all) \in Nat
      OBVIOUS
    <2>2. IsFiniteSet(DOMAIN all)
      BY <2>1, FS_Interval
    <2> QED BY <1>1, <2>2, FS_Subset, FS_CardinalityType
  <1>3. PICK order \in Bijection(1 .. N, V) : survived = [n \in 1 .. N |-> all[order[n]]]
    BY <1>1, Ranking
  <1>4. order \in [1 .. N -> V] /\ \A v \in V : \E n \in 1 .. N : order[n] = v
    BY <1>3 DEF Bijection, Surjection
  <1>5. survived \in Seq(Result) /\ DOMAIN survived = 1 .. N /\ \A n \in 1 .. N : survived[n] = all[order[n]]
    <2>1. \A n \in 1 .. N : all[order[n]] \in Result
      BY <1>1, <1>4
    <2> HIDE DEF survived, N, V
    <2> QED BY <1>2, <1>3, <2>1
  <1> HIDE DEF survived, N, V
  <1>6. ParetoFront(survived) = Undominated(survived)
    BY <1>5, FrontIsUndominated
  <1>7. \A n \in 1 .. N : n \in Undominated(survived) <=> order[n] \in best
    <2> DEFINE beaten(v) == \E d \in V : Dominates(all[d].m, all[v].m)
    <2>1. \A n \in 1 .. N : n \in Undominated(survived) <=> ~ \E k \in 1 .. N : Dominates(survived[k].m, survived[n].m)
      BY <1>5 DEF Undominated, Better
    <2>2. ASSUME NEW n \in 1 .. N
          PROVE  (\E k \in 1 .. N : Dominates(survived[k].m, survived[n].m)) <=> beaten(order[n])
      <3>1. survived[n] = all[order[n]] /\ \A k \in 1 .. N : survived[k] = all[order[k]]
        BY <1>5
      <3>2. ASSUME NEW k \in 1 .. N, Dominates(survived[k].m, survived[n].m) PROVE beaten(order[n])
        <4>1. order[k] \in V /\ Dominates(all[order[k]].m, all[order[n]].m)
          BY <1>4, <3>1, <3>2
        <4> QED BY <4>1
      <3>3. ASSUME NEW d \in V, Dominates(all[d].m, all[order[n]].m)
            PROVE  \E k \in 1 .. N : Dominates(survived[k].m, survived[n].m)
        <4>1. PICK k \in 1 .. N : order[k] = d
          BY <1>4
        <4>2. Dominates(survived[k].m, survived[n].m)
          BY <3>1, <3>3, <4>1
        <4> QED BY <4>2
      <3> QED BY <3>2, <3>3
    <2>3. \A v \in V : v \in best <=> ~ beaten(v)
      OBVIOUS
    <2>4. \A n \in 1 .. N : order[n] \in V
      BY <1>4
    <2> HIDE DEF best, beaten
    <2> QED BY <2>1, <2>2, <2>3, <2>4
  <1>8. Undominated(survived) \subseteq 1 .. N
    BY <1>5 DEF Undominated
  <1>9. {survived[i].combo : i \in Undominated(survived)} = {all[v].combo : v \in best}
    <2>1. ASSUME NEW i \in Undominated(survived)
          PROVE  \E v \in best : all[v].combo = survived[i].combo
      BY <1>5, <1>7, <1>8
    <2>2. ASSUME NEW v \in best
          PROVE  \E i \in Undominated(survived) : all[v].combo = survived[i].combo
      <3>1. PICK n \in 1 .. N : order[n] = v
        BY <1>4
      <3> QED BY <1>5, <1>7, <3>1
    <2> HIDE DEF best
    <2> QED BY <2>1, <2>2
  <1> QED BY <1>6, <1>9, SurvivorsAllowed DEF survived, V

\* The rows of a whole screening are one for each combination, in order, marked with the front.
LEMMA RowsAreTheFront ==
  ASSUME NEW all, Complete(all), NEW id \in Nat
  PROVE  LET rows == Rows(all, id)
         IN  /\ Len(rows) = Len(all) /\ DOMAIN rows = 1 .. Len(all)
             /\ \A i \in DOMAIN rows :
                    /\ rows[i].id = id + i - 1 /\ rows[i].combo \in Combos /\ rows[i].m \in Measure
                    /\ <<rows[i].dsr, rows[i].wfa, rows[i].cv>> = <<NULL, NULL, NULL>>
             /\ InOrder(rows) /\ FrontMarked(rows) /\ OneEach(rows)
  <1> DEFINE rows == Rows(all, id)
             L == Len(all)
             ranked == RankBySharpe(all, DOMAIN all)
             V == Allowed(all)
             best == {u \in V : ~ \E d \in V : Dominates(all[d].m, all[u].m)}
             front == {all[v].combo : v \in best}
  <1>1. all \in Seq(Result) /\ L \in Nat /\ DOMAIN all = 1 .. L
    BY DEF Complete
  <1>2. IsFiniteSet(DOMAIN all) /\ Cardinality(DOMAIN all) = L
    <2> HIDE DEF L
    <2>1. Cardinality(1 .. L) = (IF 1 > L THEN 0 ELSE L - 1 + 1) /\ IsFiniteSet(1 .. L)
      BY <1>1, FS_Interval
    <2> QED BY <1>1, <2>1
  <1>3. PICK order \in Bijection(1 .. L, 1 .. L) :
           /\ ranked = [n \in 1 .. L |-> all[order[n]]]
           /\ \A m, n \in 1 .. L : m < n => all[order[n]].m.sharpe <= all[order[m]].m.sharpe
    BY <1>1, <1>2, Ranking
  <1>4. /\ order \in [1 .. L -> 1 .. L] /\ \A v \in 1 .. L : \E n \in 1 .. L : order[n] = v
        /\ \A m, n \in 1 .. L : order[m] = order[n] => m = n
    BY <1>3 DEF Bijection, Surjection, Injection, IsInjective
  <1>5. Len(ranked) = L
    <2> HIDE DEF L, ranked
    <2> QED BY <1>1, <1>3
  <1>6. rows = [i \in 1 .. L |->
                 [id |-> id + i - 1, combo |-> ranked[i].combo, m |-> ranked[i].m,
                  pareto |-> ranked[i].combo \in front, dsr |-> NULL, wfa |-> NULL, cv |-> NULL]]
    BY <1>1, <1>5, FrontCombos DEF Rows
  <1> HIDE DEF rows, L, ranked
  <1>7. /\ DOMAIN rows = 1 .. L
        /\ \A i \in 1 .. L :
              /\ rows[i].id = id + i - 1 /\ rows[i].combo = all[order[i]].combo
              /\ rows[i].m = all[order[i]].m /\ rows[i].pareto = (all[order[i]].combo \in front)
              /\ rows[i].dsr = NULL /\ rows[i].wfa = NULL /\ rows[i].cv = NULL
    BY <1>3, <1>6
  <1>8. Len(rows) = L
    BY <1>1, <1>6
  <1>9. \A i \in 1 .. L : all[order[i]] \in Result
    BY <1>1, <1>4
  <1>10. \A i \in 1 .. L : rows[i].combo \in Combos /\ rows[i].m \in Measure
    <2>1. \A r \in Result : r.combo \in Combos /\ r.m \in Measure
      BY DEF Result
    <2> QED BY <1>7, <1>9, <2>1
  <1>11. InOrder(rows)
    <2> SUFFICES ASSUME NEW i \in 1 .. (L - 1)
                 PROVE  rows[i + 1].m.sharpe <= rows[i].m.sharpe /\ rows[i + 1].id = rows[i].id + 1
      BY <1>8 DEF InOrder
    <2>1. i \in 1 .. L /\ i + 1 \in 1 .. L /\ i < i + 1
      BY <1>1
    <2>2. rows[i + 1].m.sharpe <= rows[i].m.sharpe
      BY <1>3, <1>7, <2>1
    <2> QED BY <1>7, <2>1, <2>2
  <1>12. \A i \in 1 .. L : PassesFilters(rows[i]) <=> PassesFilters(all[order[i]])
    BY <1>7 DEF PassesFilters
  <1>13. AnyFailed(rows) <=> AnyFailed(all)
    <2>1. \A i \in 1 .. L : HasFailed(rows[i]) <=> HasFailed(all[order[i]])
      BY <1>7 DEF HasFailed
    <2>2. AnyFailed(rows) <=> \E i \in 1 .. L : HasFailed(rows[i])
      BY <1>7 DEF AnyFailed, Range
    <2>3. AnyFailed(all) <=> \E v \in 1 .. L : HasFailed(all[v])
      BY <1>1 DEF AnyFailed, Range
    <2> QED BY <1>4, <2>1, <2>2, <2>3
  <1>14. \A i \in 1 .. L : i \in Passed(rows) <=> order[i] \in Passed(all)
    BY <1>1, <1>4, <1>7, <1>12 DEF Passed
  <1>15. Cardinality(Passed(rows)) = Cardinality(Passed(all))
    <2> DEFINE P == Passed(rows)
               Q == Passed(all)
               g == [i \in P |-> order[i]]
    <2>1. P \subseteq 1 .. L /\ Q \subseteq 1 .. L
      BY <1>1, <1>7 DEF Passed
    <2>2. g \in [P -> Q] /\ \A i \in P : g[i] = order[i]
      BY <1>14, <2>1
    <2>3. \A v \in Q : \E i \in P : order[i] = v
      BY <1>4, <1>14, <2>1
    <2> HIDE DEF P, Q, g
    <2>4. \A i, j \in P : g[i] = g[j] => i = j
      BY <1>4, <2>1, <2>2
    <2>5. g \in Bijection(P, Q)
      BY <2>2, <2>3, <2>4 DEF Bijection, Injection, Surjection, IsInjective
    <2>6. IsFiniteSet(P)
      BY <1>1, <1>2, <2>1, FS_Subset
    <2>7. Cardinality(Q) = Cardinality(P)
      BY <2>5, <2>6, FS_Bijection DEF ExistsBijection
    <2> QED BY <2>7 DEF P, Q
  <1>16. \A i \in 1 .. L : i \in Allowed(rows) <=> order[i] \in V
    BY <1>7, <1>13, <1>14, <1>15 DEF Allowed
  <1>17. FrontMarked(rows)
    <2> SUFFICES ASSUME NEW i \in 1 .. L
                 PROVE  rows[i].pareto <=> i \in Allowed(rows) /\ ~ \E d \in Allowed(rows) : Dominates(rows[d].m, rows[i].m)
      BY <1>7 DEF FrontMarked
    <2>1. V \subseteq 1 .. L /\ Allowed(rows) \subseteq 1 .. L
      BY <1>1, <1>7 DEF Allowed, Passed
    <2> HIDE DEF V
    <2>2. all[order[i]].combo \in front <=> order[i] \in best
      <3>1. \A v \in best : all[v].combo = all[order[i]].combo => v = order[i]
        BY <1>1, <1>4, <2>1 DEF Complete
      <3> QED BY <3>1
    <2>3. (\E d \in Allowed(rows) : Dominates(rows[d].m, rows[i].m)) <=> \E d \in V : Dominates(all[d].m, all[order[i]].m)
      <3>1. ASSUME NEW d \in Allowed(rows), Dominates(rows[d].m, rows[i].m)
            PROVE  \E v \in V : Dominates(all[v].m, all[order[i]].m)
        <4>1. order[d] \in V /\ rows[d].m = all[order[d]].m /\ rows[i].m = all[order[i]].m
          BY <1>7, <1>16, <2>1
        <4>2. Dominates(all[order[d]].m, all[order[i]].m)
          BY <3>1, <4>1
        <4> QED BY <4>1, <4>2
      <3>2. ASSUME NEW v \in V, Dominates(all[v].m, all[order[i]].m)
            PROVE  \E d \in Allowed(rows) : Dominates(rows[d].m, rows[i].m)
        <4>1. PICK d \in 1 .. L : order[d] = v
          BY <1>4, <2>1
        <4>2. d \in Allowed(rows) /\ rows[d].m = all[v].m /\ rows[i].m = all[order[i]].m
          BY <1>7, <1>16, <4>1
        <4> QED BY <3>2, <4>2
      <3> QED BY <3>1, <3>2
    <2>4. rows[i].pareto <=> order[i] \in best
      BY <1>7, <2>2
    <2> QED BY <1>16, <2>3, <2>4
  <1>18. OneEach(rows)
    <2> DEFINE g == [i \in 1 .. L |-> all[i].combo]
    <2>1. Range(g) = Combos /\ \A i, j \in 1 .. L : all[i].combo = all[j].combo => i = j
      BY <1>1 DEF Complete
    <2>2. g \in [1 .. L -> Combos] /\ (\A i, j \in 1 .. L : g[i] = g[j] => i = j) /\ \A x \in Combos : \E i \in 1 .. L : g[i] = x
      BY <2>1 DEF Range
    <2>3. \A i \in 1 .. L : g[i] = all[i].combo
      OBVIOUS
    <2> HIDE DEF g
    <2>4. g \in Bijection(1 .. L, Combos)
      BY <2>2 DEF Bijection, Injection, Surjection, IsInjective
    <2>5. Cardinality(Combos) = L
      BY <1>1, <1>2, <2>4, FS_Bijection DEF ExistsBijection
    <2>6. {r.combo : r \in Range(rows)} = Combos
      <3>1. \A r \in Range(rows) : r.combo \in Combos
        BY <1>7, <1>10 DEF Range
      <3>2. \A x \in Combos : \E r \in Range(rows) : r.combo = x
        <4> SUFFICES ASSUME NEW x \in Combos PROVE \E r \in Range(rows) : r.combo = x
          OBVIOUS
        <4>1. PICK v \in 1 .. L : all[v].combo = x
          BY <2>2, <2>3
        <4>2. PICK i \in 1 .. L : order[i] = v
          BY <1>4
        <4>3. rows[i].combo = x /\ rows[i] \in Range(rows)
          BY <1>7, <4>1, <4>2 DEF Range
        <4> QED BY <4>3
      <3> QED BY <3>1, <3>2
    <2> QED BY <1>8, <2>5, <2>6 DEF OneEach
  <1>19. \A i \in 1 .. L : <<rows[i].dsr, rows[i].wfa, rows[i].cv>> = <<NULL, NULL, NULL>>
    BY <1>7
  <1> QED BY <1>7, <1>8, <1>10, <1>11, <1>17, <1>18, <1>19 DEF rows, L

-----------------------------------------------------------------------------
(* The invariant.  An id names one row for ever, and what a pipeline has    *)
(* read of a row stays true as long as the row is there.                    *)

Verdicts == {NULL, "pass", "fail"}
Row == [id : Nat, combo : Combos, m : Measure, pareto : BOOLEAN, dsr : Verdicts, wfa : Verdicts, cv : Verdicts]
Pipe == [pc : {"new", "promote", "judge", "done", "raised"}, cfg : Configs \cup {NoConfig}, todo : Seq(Row)]

DoneInv == done \in Seq(Result) /\ \A i, j \in DOMAIN done : done[i].combo = done[j].combo => i = j

IdsInv ==
    /\ sweep \in Seq(Row) /\ nextId \in Nat
    /\ \A i \in DOMAIN sweep : sweep[i].id < nextId
    /\ \A i, j \in DOMAIN sweep : sweep[i].id = sweep[j].id => i = j

SameRow(r, t) == r.id = t.id => (r.combo = t.combo /\ r.m = t.m)
TodoInv ==
    \A p \in Pipelines : \A n \in DOMAIN op[p].todo :
        /\ op[p].todo[n].id < nextId
        /\ \A i \in DOMAIN sweep : SameRow(sweep[i], op[p].todo[n])

PipesInv ==
    /\ op \in [Pipelines -> Pipe]
    /\ \A p \in Pipelines :
          /\ op[p].pc = "new" => op[p].cfg = NoConfig
          /\ op[p].pc = "judge" => op[p].cfg \in Configs
          /\ op[p].pc = "promote" => (mode = "discovery" /\ op[p].cfg \in Configs)

FrontInv == (mode = "screening" /\ sweep # << >>) => OneEach(sweep) /\ InOrder(sweep) /\ FrontMarked(sweep)

ScreenInv == DoneInv /\ IdsInv /\ TodoInv /\ PipesInv /\ FrontInv /\ VerdictsOwn

\* The invariant says of the rows what StoredFront says.
LEMMA FrontIsStored == FrontInv <=> StoredFront
  BY DEF FrontInv, StoredFront, OneEach, InOrder, FrontMarked, Allowed, Passed, AnyFailed

\* At the start nothing is stored and no pipeline has begun.
LEMMA ScreenInitInv == Init => ScreenInv
  <1> SUFFICES ASSUME Init PROVE ScreenInv
    OBVIOUS
  <1>1. /\ sweep = << >> /\ nextId = 1 /\ done = << >>
        /\ op = [p \in Pipelines |-> [pc |-> "new", cfg |-> NoConfig, todo |-> << >>]]
    BY DEF Init, ScreeningInit
  <1>2. DoneInv /\ IdsInv /\ FrontInv
    BY <1>1 DEF DoneInv, IdsInv, FrontInv
  <1>3. VerdictsOwn
    BY <1>1 DEF VerdictsOwn, Range
  <1>4. TodoInv
    BY <1>1 DEF TodoInv
  <1>5. PipesInv
    <2>1. << >> \in Seq(Row)
      OBVIOUS
    <2>2. [pc |-> "new", cfg |-> NoConfig, todo |-> << >>] \in Pipe
      BY <2>1 DEF Pipe
    <2> QED BY <1>1, <2>2 DEF PipesInv
  <1> QED BY <1>2, <1>3, <1>4, <1>5 DEF ScreenInv

\* Steps that write no row.
LEMMA QuietKeeps ==
  ASSUME ScreenInv, DoneInv', UNCHANGED <<mode, sweep, nextId, op>>
  PROVE  ScreenInv'
  <1>1. IdsInv' /\ TodoInv' /\ PipesInv'
    BY DEF ScreenInv, IdsInv, TodoInv, PipesInv
  <1>2. FrontInv'
    BY DEF ScreenInv, FrontInv, OneEach, InOrder, FrontMarked, Allowed, Passed, AnyFailed
  <1>3. VerdictsOwn'
    BY DEF ScreenInv, VerdictsOwn
  <1> QED BY <1>1, <1>2, <1>3 DEF ScreenInv

\* A sentinel is a measurement like any other.
LEMMA FailedIsMeasure == Failed(MinusInf) \in Measure /\ Failed(Sentinel) \in Measure
  BY DEF Failed, MinusInf, Sentinel, Measure

\* A task that is collected was waiting: no combination comes twice.
LEMMA CollectKeeps ==
  ASSUME ScreenInv, NEW i \in DOMAIN Grid, Collect(i)
  PROVE  DoneInv'
  <1>1. PICK m \in {Metrics[Grid[i]], Failed(MinusInf), Failed(Sentinel)} :
           done' = Append(done, [combo |-> Grid[i], m |-> m])
    BY DEF Collect
  <1>2. Grid[i] \in Combos
    BY DEF Combos, Range
  <1>3. m \in Measure
    <2>1. Metrics[Grid[i]] \in Measure
      BY <1>2, GridAssumption DEF Measure
    <2> QED BY <2>1, FailedIsMeasure
  <1> DEFINE new == [combo |-> Grid[i], m |-> m]
  <1>4. new \in Result /\ new.combo = Grid[i]
    BY <1>2, <1>3 DEF Result
  <1>5. done \in Seq(Result) /\ \A a, b \in DOMAIN done : done[a].combo = done[b].combo => a = b
    BY DEF ScreenInv, DoneInv
  <1>6. \A n \in DOMAIN done : done[n].combo # Grid[i]
    BY DEF Collect, Running, Waiting
  <1> HIDE DEF new
  <1>7. done' \in Seq(Result) /\ Len(done') = Len(done) + 1 /\ DOMAIN done' = 1 .. Len(done') /\ Len(done) \in Nat /\ DOMAIN done = 1 .. Len(done)
    BY <1>1, <1>4, <1>5 DEF new
  <1>8. (\A a \in DOMAIN done : done'[a] = done[a]) /\ done'[Len(done) + 1] = new
    BY <1>1, <1>4, <1>5 DEF new
  <1>9. \A a \in DOMAIN done' : a \in DOMAIN done \/ a = Len(done) + 1
    BY <1>7
  <1>10. ASSUME NEW a \in DOMAIN done', NEW b \in DOMAIN done', done'[a].combo = done'[b].combo PROVE a = b
    <2>1. CASE a \in DOMAIN done /\ b \in DOMAIN done
      BY <1>5, <1>8, <1>10, <2>1
    <2>2. CASE a \in DOMAIN done /\ b = Len(done) + 1
      BY <1>4, <1>6, <1>8, <1>10, <2>2
    <2>3. CASE a = Len(done) + 1 /\ b \in DOMAIN done
      BY <1>4, <1>6, <1>8, <1>10, <2>3
    <2> QED BY <1>9, <2>1, <2>2, <2>3
  <1> QED BY <1>7, <1>10 DEF DoneInv

\* What two lists hold together.
LEMMA JoinedLists ==
  ASSUME NEW S, NEW s \in Seq(S), NEW t \in Seq(S)
  PROVE  /\ s \o t \in Seq(S) /\ DOMAIN s = 1 .. Len(s) /\ DOMAIN (s \o t) = 1 .. (Len(s) + Len(t))
         /\ Len(s) \in Nat /\ Len(t) \in Nat
         /\ \A a \in DOMAIN (s \o t) :
               \/ a \in DOMAIN s /\ (s \o t)[a] = s[a]
               \/ (a - Len(s)) \in 1 .. Len(t) /\ (s \o t)[a] = t[a - Len(s)]
  <1>1. s \o t \in Seq(S) /\ DOMAIN s = 1 .. Len(s) /\ DOMAIN (s \o t) = 1 .. (Len(s) + Len(t)) /\ Len(s) \in Nat /\ Len(t) \in Nat
    OBVIOUS
  <1>2. ASSUME NEW a \in DOMAIN (s \o t)
        PROVE  \/ a \in DOMAIN s /\ (s \o t)[a] = s[a]
               \/ (a - Len(s)) \in 1 .. Len(t) /\ (s \o t)[a] = t[a - Len(s)]
    <2>1. a \in Int /\ a >= 1 /\ a <= Len(s) + Len(t)
      BY <1>1
    <2>2. CASE a <= Len(s)
      BY <1>1, <2>1, <2>2
    <2>3. CASE ~ (a <= Len(s))
      BY <1>1, <2>1, <2>3
    <2> QED BY <2>2, <2>3
  <1> QED BY <1>1, <1>2

\* The tasks that fail with the pool are those that were waiting.
LEMMA BreakKeeps ==
  ASSUME ScreenInv, PoolBreaks
  PROVE  DoneInv'
  <1> DEFINE N == Cardinality(Waiting)
  <1>1. PICK order \in SetToSeqs(Waiting) :
           done' = done \o [n \in DOMAIN order |-> [combo |-> Grid[order[n]], m |-> Failed(Sentinel)]]
    BY DEF PoolBreaks
  <1>2. order \in [1 .. N -> Waiting] /\ \A i, j \in 1 .. N : i # j => order[i] # order[j]
    BY DEF SetToSeqs
  <1>3. N \in Nat
    <2>1. DOMAIN Grid = 1 .. Len(Grid) /\ Len(Grid) \in Nat
      BY GridAssumption
    <2>2. IsFiniteSet(DOMAIN Grid)
      BY <2>1, FS_Interval
    <2>3. Waiting \subseteq DOMAIN Grid
      BY DEF Waiting
    <2> QED BY <2>2, <2>3, FS_Subset, FS_CardinalityType
  <1> HIDE DEF N
  <1> DEFINE more == [n \in 1 .. N |-> [combo |-> Grid[order[n]], m |-> Failed(Sentinel)]]
  <1>4. done' = done \o more
    BY <1>1, <1>2
  <1>5. \A w \in Waiting : Grid[w] \in Combos /\ \A n \in DOMAIN done : done[n].combo # Grid[w]
    BY DEF Waiting, Combos, Range
  <1>6. \A v, w \in Waiting : Grid[v] = Grid[w] => v = w
    BY GridAssumption DEF Waiting, IsInjective
  <1>7. \A n \in 1 .. N : more[n] \in Result /\ more[n].combo = Grid[order[n]]
    BY <1>2, <1>5, FailedIsMeasure DEF Result
  <1>8. more \in Seq(Result) /\ Len(more) = N
    <2>1. DOMAIN more = 1 .. N /\ more = [n \in 1 .. N |-> more[n]]
      OBVIOUS
    <2> HIDE DEF more
    <2> QED BY <1>3, <1>7, <2>1
  <1> HIDE DEF more
  <1>9. done \in Seq(Result) /\ \A a, b \in DOMAIN done : done[a].combo = done[b].combo => a = b
    BY DEF ScreenInv, DoneInv
  <1>10. /\ done' \in Seq(Result) /\ Len(done) \in Nat /\ DOMAIN done = 1 .. Len(done)
         /\ DOMAIN done' = 1 .. (Len(done) + N)
         /\ \A a \in DOMAIN done' :
               \/ a \in DOMAIN done /\ done'[a] = done[a]
               \/ (a - Len(done)) \in 1 .. N /\ done'[a] = more[a - Len(done)]
    BY <1>4, <1>8, <1>9, JoinedLists
  <1>11. ASSUME NEW a \in DOMAIN done', NEW b \in DOMAIN done', done'[a].combo = done'[b].combo PROVE a = b
    <2> DEFINE x == a - Len(done)
               y == b - Len(done)
    <2>0. a \in Int /\ b \in Int
      BY <1>10
    <2>1. CASE a \in DOMAIN done /\ done'[a] = done[a] /\ b \in DOMAIN done /\ done'[b] = done[b]
      BY <1>9, <1>11, <2>1
    <2>2. CASE a \in DOMAIN done /\ done'[a] = done[a] /\ y \in 1 .. N /\ done'[b] = more[y]
      <3>1. order[y] \in Waiting /\ done[a].combo = Grid[order[y]]
        BY <1>2, <1>7, <1>11, <2>2
      <3> QED BY <1>5, <2>2, <3>1
    <2>3. CASE x \in 1 .. N /\ done'[a] = more[x] /\ b \in DOMAIN done /\ done'[b] = done[b]
      <3>1. order[x] \in Waiting /\ done[b].combo = Grid[order[x]]
        BY <1>2, <1>7, <1>11, <2>3
      <3> QED BY <1>5, <2>3, <3>1
    <2>4. CASE x \in 1 .. N /\ done'[a] = more[x] /\ y \in 1 .. N /\ done'[b] = more[y]
      <3>1. order[x] \in Waiting /\ order[y] \in Waiting /\ Grid[order[x]] = Grid[order[y]]
        BY <1>2, <1>7, <1>11, <2>4
      <3>2. order[x] = order[y]
        BY <1>6, <3>1
      <3>3. x = y
        BY <1>2, <2>4, <3>2
      <3> QED BY <1>10, <2>0, <3>3
    <2> QED BY <1>10, <2>1, <2>2, <2>3, <2>4
  <1> QED BY <1>10, <1>11 DEF DoneInv

\* Saving: new ids, no verdicts, and the front of the screening.
LEMMA SaveKeeps ==
  ASSUME ScreenInv, Save, UNCHANGED op
  PROVE  ScreenInv'
  <1> DEFINE rows == Rows(done, nextId)
  <1>1. /\ sweep' = rows /\ nextId' = nextId + Len(done) /\ UNCHANGED <<mode, done>> /\ Waiting = {}
    BY DEF Save
  <1>2. done \in Seq(Result) /\ nextId \in Nat /\ Len(done) \in Nat /\ DOMAIN done = 1 .. Len(done)
    BY DEF ScreenInv, DoneInv, IdsInv
  <1>3. Complete(done)
    <2>1. \A i \in DOMAIN Grid : \E n \in DOMAIN done : done[n].combo = Grid[i]
      BY <1>1 DEF Waiting
    <2>2. \A n \in DOMAIN done : done[n].combo \in Combos
      <3> SUFFICES ASSUME NEW n \in DOMAIN done PROVE done[n].combo \in Combos
        OBVIOUS
      <3>1. done[n] \in Result
        BY <1>2
      <3> QED BY <3>1 DEF Result
    <2>3. Range([n \in DOMAIN done |-> done[n].combo]) = {done[n].combo : n \in DOMAIN done}
      BY DEF Range
    <2>4. {done[n].combo : n \in DOMAIN done} = Combos
      BY <2>1, <2>2 DEF Combos, Range
    <2> QED BY <1>2, <2>3, <2>4 DEF Complete, ScreenInv, DoneInv
  <1>4. /\ Len(rows) = Len(done) /\ DOMAIN rows = 1 .. Len(done)
        /\ \A i \in DOMAIN rows :
              /\ rows[i].id = nextId + i - 1 /\ rows[i].combo \in Combos /\ rows[i].m \in Measure
              /\ <<rows[i].dsr, rows[i].wfa, rows[i].cv>> = <<NULL, NULL, NULL>>
        /\ InOrder(rows) /\ FrontMarked(rows) /\ OneEach(rows)
    BY <1>2, <1>3, RowsAreTheFront
  <1>5. rows \in Seq(Row)
    <2>1. rows = [i \in DOMAIN rows |-> rows[i]]
      BY DEF Rows
    <2>2. ASSUME NEW i \in DOMAIN rows PROVE rows[i] \in Row
      <3> DEFINE ranked == RankBySharpe(done, DOMAIN done)
                 survived == RankBySharpe(done, Survivors(done))
                 front == {survived[j].combo : j \in ParetoFront(survived)}
      <3>1. rows[i] = [id |-> nextId + i - 1, combo |-> ranked[i].combo, m |-> ranked[i].m,
                       pareto |-> ranked[i].combo \in front, dsr |-> NULL, wfa |-> NULL, cv |-> NULL]
        BY DEF Rows
      <3> HIDE DEF rows, ranked, front
      <3>2. nextId + i - 1 \in Nat
        BY <1>2, <1>4
      <3>3. ranked[i].combo \in Combos /\ ranked[i].m \in Measure
        BY <1>4, <3>1
      <3> QED BY <3>1, <3>2, <3>3 DEF Row, Verdicts
    <2> HIDE DEF rows
    <2> QED BY <1>2, <1>4, <2>1, <2>2
  <1> HIDE DEF rows
  <1>6. \A i \in DOMAIN rows : rows[i].id >= nextId /\ rows[i].id < nextId + Len(done)
    BY <1>2, <1>4
  <1>7. \A i, j \in DOMAIN rows : rows[i].id = rows[j].id => i = j
    BY <1>2, <1>4
  <1>8. IdsInv'
    BY <1>1, <1>2, <1>5, <1>6, <1>7 DEF IdsInv
  <1>9. PipesInv'
    BY <1>1 DEF ScreenInv, PipesInv
  <1>10. TodoInv'
    <2> SUFFICES ASSUME NEW p \in Pipelines, NEW n \in DOMAIN op[p].todo
                 PROVE  op[p].todo[n].id < nextId' /\ \A i \in DOMAIN rows : SameRow(rows[i], op[p].todo[n])
      BY <1>1 DEF TodoInv
    <2>1. op[p].todo[n].id < nextId
      BY DEF ScreenInv, TodoInv
    <2>2. op[p].todo[n].id \in Nat
      <3>1. op[p].todo \in Seq(Row)
        BY DEF ScreenInv, PipesInv, Pipe
      <3>2. op[p].todo[n] \in Row
        BY <3>1
      <3> QED BY <3>2 DEF Row
    <2>3. \A i \in DOMAIN rows : rows[i].id \in Nat
      BY <1>2, <1>4
    <2> QED BY <1>1, <1>2, <1>6, <2>1, <2>2, <2>3 DEF SameRow
  <1>11. FrontInv'
    BY <1>1, <1>4 DEF FrontInv
  <1>12. VerdictsOwn'
    BY <1>1, <1>4 DEF VerdictsOwn, Range
  <1>13. DoneInv'
    BY <1>1 DEF ScreenInv, DoneInv
  <1> QED BY <1>8, <1>9, <1>10, <1>11, <1>12, <1>13 DEF ScreenInv

-----------------------------------------------------------------------------
(* The pipelines. *)

\* A verdict depends on the combination and on what it measured.
LEMMA VerdictOf ==
  ASSUME NEW f, NEW cfg, NEW r, NEW t, r.combo = t.combo, r.m = t.m
  PROVE  Verdict(f, cfg, r) = Verdict(f, cfg, t)
  BY DEF Verdict, Robust, DsrPasses, HasFailed

\* The verdicts on a row are none, or those of one pipeline.
Own(r, ops) ==
    \/ r.dsr = NULL /\ r.wfa = NULL /\ r.cv = NULL
    \/ \E p \in Pipelines : /\ r.dsr = Verdict("dsr", ops[p].cfg, r)
                            /\ r.wfa = Verdict("wfa", ops[p].cfg, r)
                            /\ r.cv = Verdict("cv", ops[p].cfg, r)

\* Whose verdicts a row carries.
LEMMA OwnIsVerdictsOwn == VerdictsOwn <=> \A r \in Range(sweep) : Own(r, op)
  BY DEF VerdictsOwn, Own

\* No filter, no verdict.
LEMMA NothingConfigured ==
  ASSUME NEW f, NEW r
  PROVE  Verdict(f, NoConfig, r) = NULL
  BY DEF Verdict, NoConfig

\* A row keeps its owner when pipelines only get a configuration.
LEMMA OwnKept ==
  ASSUME NEW r, NEW ops, Own(r, op), PipesInv, \A q \in Pipelines : ops[q].cfg = op[q].cfg \/ op[q].pc = "new"
  PROVE  Own(r, ops)
  <1>1. CASE r.dsr = NULL /\ r.wfa = NULL /\ r.cv = NULL
    BY <1>1 DEF Own
  <1>2. CASE ~ (r.dsr = NULL /\ r.wfa = NULL /\ r.cv = NULL)
    <2>1. PICK p \in Pipelines : /\ r.dsr = Verdict("dsr", op[p].cfg, r)
                                 /\ r.wfa = Verdict("wfa", op[p].cfg, r)
                                 /\ r.cv = Verdict("cv", op[p].cfg, r)
      BY <1>2 DEF Own
    <2>2. op[p].pc # "new"
      <3> SUFFICES ASSUME op[p].pc = "new" PROVE FALSE
        OBVIOUS
      <3>1. op[p].cfg = NoConfig
        BY DEF PipesInv
      <3> QED BY <1>2, <2>1, <3>1, NothingConfigured
    <2>3. ops[p].cfg = op[p].cfg
      BY <2>2
    <2> QED BY <2>1, <2>3 DEF Own
  <1> QED BY <1>1, <1>2

\* Steps that move a pipeline on and leave its configuration and its list.
LEMMA MoveKeeps ==
  ASSUME ScreenInv, NEW p \in Pipelines, NEW pc \in {"done", "raised"}, op' = [op EXCEPT ![p].pc = pc], UNCHANGED svars
  PROVE  ScreenInv'
  <1>1. /\ UNCHANGED <<mode, sweep, nextId, done>> /\ op \in [Pipelines -> Pipe]
    BY DEF svars, ScreenInv, PipesInv
  <1>2. op' \in [Pipelines -> Pipe]
    BY <1>1 DEF Pipe
  <1>3. \A q \in Pipelines : op'[q].cfg = op[q].cfg /\ op'[q].todo = op[q].todo /\ (op'[q].pc = op[q].pc \/ op'[q].pc = pc)
    BY <1>1 DEF Pipe
  <1>4. PipesInv'
    BY <1>1, <1>2, <1>3 DEF ScreenInv, PipesInv
  <1>5. TodoInv'
    BY <1>1, <1>3 DEF ScreenInv, TodoInv
  <1>6. VerdictsOwn'
    <2> SUFFICES ASSUME NEW r \in Range(sweep) PROVE Own(r, op')
      BY <1>1 DEF VerdictsOwn, Own
    <2>1. Own(r, op)
      BY OwnIsVerdictsOwn DEF ScreenInv
    <2> QED BY <1>3, <2>1, OwnKept DEF ScreenInv
  <1>7. FrontInv'
    BY <1>1 DEF ScreenInv, FrontInv, OneEach, InOrder, FrontMarked, Allowed, Passed, AnyFailed
  <1>8. DoneInv' /\ IdsInv'
    BY <1>1 DEF ScreenInv, DoneInv, IdsInv
  <1> QED BY <1>4, <1>5, <1>6, <1>7, <1>8 DEF ScreenInv

\* A pipeline that starts takes the rows of the moment as its list.
LEMMA LoadKeeps ==
  ASSUME ScreenInv, NEW p \in Pipelines, Load(p)
  PROVE  ScreenInv'
  <1>1. /\ UNCHANGED <<mode, sweep, nextId, done>> /\ op \in [Pipelines -> Pipe] /\ op[p].pc = "new"
    BY DEF svars, ScreenInv, PipesInv, Load, At
  <1>2. PICK cfg \in Configs :
           op' = [op EXCEPT ![p] =
             [pc  |-> CASE sweep = << >> -> IF mode = "discovery" THEN "promote" ELSE "done"
                        [] sweep # << >> -> IF "wfa" \in cfg.filters /\ ~cfg.runner
                                            THEN "raised" ELSE "judge",
              cfg |-> cfg, todo |-> sweep]]
    BY DEF Load
  <1> DEFINE new == op'[p]
  <1>3. /\ new.cfg = cfg /\ new.todo = sweep /\ new.pc \in {"promote", "done", "raised", "judge"}
        /\ new = [pc |-> new.pc, cfg |-> cfg, todo |-> sweep]
        /\ (new.pc = "promote" => mode = "discovery") /\ \A q \in Pipelines : q # p => op'[q] = op[q]
    BY <1>1, <1>2
  <1>4. sweep \in Seq(Row)
    BY DEF ScreenInv, IdsInv
  <1>5. op' \in [Pipelines -> Pipe]
    <2>1. new \in Pipe
      BY <1>3, <1>4 DEF Pipe
    <2> QED BY <1>1, <1>2, <2>1
  <1> HIDE DEF new
  <1>6. PipesInv'
    <2>1. ASSUME NEW q \in Pipelines
          PROVE  /\ op'[q].pc = "new" => op'[q].cfg = NoConfig
                 /\ op'[q].pc = "judge" => op'[q].cfg \in Configs
                 /\ op'[q].pc = "promote" => (mode = "discovery" /\ op'[q].cfg \in Configs)
      <3>1. CASE q = p
        BY <1>3, <3>1 DEF new
      <3>2. CASE q # p
        BY <1>3, <3>2 DEF ScreenInv, PipesInv
      <3> QED BY <3>1, <3>2
    <2> QED BY <1>1, <1>5, <2>1 DEF PipesInv
  <1>7. TodoInv'
    <2> SUFFICES ASSUME NEW q \in Pipelines, NEW n \in DOMAIN op'[q].todo
                 PROVE  op'[q].todo[n].id < nextId /\ \A i \in DOMAIN sweep : SameRow(sweep[i], op'[q].todo[n])
      BY <1>1 DEF TodoInv
    <2>1. CASE q = p
      <3>1. op'[q].todo = sweep
        BY <1>3, <2>1 DEF new
      <3> QED BY <3>1 DEF ScreenInv, IdsInv, SameRow
    <2>2. CASE q # p
      BY <1>3, <2>2 DEF ScreenInv, TodoInv
    <2> QED BY <2>1, <2>2
  <1>8. VerdictsOwn'
    <2> SUFFICES ASSUME NEW r \in Range(sweep) PROVE Own(r, op')
      BY <1>1 DEF VerdictsOwn, Own
    <2>1. Own(r, op)
      BY OwnIsVerdictsOwn DEF ScreenInv
    <2>2. \A q \in Pipelines : op'[q].cfg = op[q].cfg \/ op[q].pc = "new"
      BY <1>1, <1>3
    <2> QED BY <2>1, <2>2, OwnKept DEF ScreenInv
  <1>9. FrontInv'
    BY <1>1 DEF ScreenInv, FrontInv, OneEach, InOrder, FrontMarked, Allowed, Passed, AnyFailed
  <1>10. DoneInv' /\ IdsInv'
    BY <1>1 DEF ScreenInv, DoneInv, IdsInv
  <1> QED BY <1>6, <1>7, <1>8, <1>9, <1>10 DEF ScreenInv

\* The promoted row has an id of its own.
LEMMA PromoteKeeps ==
  ASSUME ScreenInv, NEW p \in Pipelines, Promote(p)
  PROVE  ScreenInv'
  <1> DEFINE row == [id |-> nextId, combo |-> Promoted, m |-> Metrics[Promoted],
                     pareto |-> TRUE, dsr |-> NULL, wfa |-> NULL, cv |-> NULL]
             pc == IF "wfa" \in op[p].cfg.filters /\ ~op[p].cfg.runner THEN "raised" ELSE "judge"
  <1>1. /\ op \in [Pipelines -> Pipe] /\ op[p].pc = "promote" /\ mode = "discovery" /\ op[p].cfg \in Configs
        /\ nextId \in Nat /\ sweep \in Seq(Row)
    BY DEF ScreenInv, PipesInv, IdsInv, Promote, At
  <1>2. /\ sweep' = Append(sweep, row) /\ nextId' = nextId + 1 /\ UNCHANGED <<mode, done>>
        /\ op' = [op EXCEPT ![p].todo = <<row>>, ![p].pc = pc]
    BY DEF Promote
  <1>3. row \in Row /\ row.id = nextId /\ row.dsr = NULL /\ row.wfa = NULL /\ row.cv = NULL
    <2>1. Promoted \in Combos /\ Metrics[Promoted] \in Measure
      BY FilterAssumption, GridAssumption DEF Measure
    <2> QED BY <1>1, <2>1 DEF Row, Verdicts
  <1>4. pc \in {"raised", "judge"}
    OBVIOUS
  <1> HIDE DEF row, pc
  <1>5. /\ op'[p].cfg = op[p].cfg /\ op'[p].todo = <<row>> /\ op'[p].pc = pc
        /\ \A q \in Pipelines : q # p => op'[q] = op[q]
    BY <1>1, <1>2 DEF Pipe
  <1>6. op' \in [Pipelines -> Pipe]
    <2>1. <<row>> \in Seq(Row)
      BY <1>3
    <2> QED BY <1>1, <1>2, <1>4, <2>1 DEF Pipe
  <1>7. /\ sweep' \in Seq(Row) /\ Len(sweep) \in Nat /\ DOMAIN sweep = 1 .. Len(sweep) /\ DOMAIN sweep' = 1 .. (Len(sweep) + 1)
        /\ (\A i \in DOMAIN sweep : sweep'[i] = sweep[i]) /\ sweep'[Len(sweep) + 1] = row
    BY <1>1, <1>2, <1>3
  <1>8. \A i \in DOMAIN sweep' : i \in DOMAIN sweep \/ i = Len(sweep) + 1
    BY <1>7
  <1>9. (\A i \in DOMAIN sweep : sweep[i].id < nextId) /\ \A i, j \in DOMAIN sweep : sweep[i].id = sweep[j].id => i = j
    BY DEF ScreenInv, IdsInv
  <1>10. \A i \in DOMAIN sweep : sweep[i].id \in Nat
    <2> SUFFICES ASSUME NEW i \in DOMAIN sweep PROVE sweep[i].id \in Nat
      OBVIOUS
    <2>1. sweep[i] \in Row
      BY <1>1
    <2> QED BY <2>1 DEF Row
  <1>11. IdsInv'
    <2>1. \A i \in DOMAIN sweep' : sweep'[i].id < nextId'
      BY <1>1, <1>2, <1>3, <1>7, <1>8, <1>9, <1>10
    <2>2. ASSUME NEW i \in DOMAIN sweep', NEW j \in DOMAIN sweep', sweep'[i].id = sweep'[j].id PROVE i = j
      BY <1>1, <1>3, <1>7, <1>8, <1>9, <1>10, <2>2
    <2> QED BY <1>1, <1>2, <1>7, <2>1, <2>2 DEF IdsInv
  <1>12. PipesInv'
    <2>1. ASSUME NEW q \in Pipelines
          PROVE  /\ op'[q].pc = "new" => op'[q].cfg = NoConfig
                 /\ op'[q].pc = "judge" => op'[q].cfg \in Configs
                 /\ op'[q].pc = "promote" => (mode = "discovery" /\ op'[q].cfg \in Configs)
      <3>1. CASE q = p
        BY <1>1, <1>4, <1>5, <3>1
      <3>2. CASE q # p
        BY <1>5, <3>2 DEF ScreenInv, PipesInv
      <3> QED BY <3>1, <3>2
    <2> QED BY <1>2, <1>6, <2>1 DEF PipesInv
  <1>13. TodoInv'
    <2> SUFFICES ASSUME NEW q \in Pipelines, NEW n \in DOMAIN op'[q].todo
                 PROVE  op'[q].todo[n].id < nextId' /\ \A i \in DOMAIN sweep' : SameRow(sweep'[i], op'[q].todo[n])
      BY DEF TodoInv
    <2>1. CASE q = p
      <3>1. op'[q].todo[n] = row
        BY <1>5, <2>1
      <3>2. ASSUME NEW i \in DOMAIN sweep' PROVE SameRow(sweep'[i], row)
        BY <1>1, <1>3, <1>7, <1>8, <1>9, <1>10 DEF SameRow
      <3> QED BY <1>1, <1>2, <1>3, <3>1, <3>2
    <2>2. CASE q # p
      <3> DEFINE t == op[q].todo[n]
      <3>1. op'[q].todo = op[q].todo /\ n \in DOMAIN op[q].todo
        BY <1>5, <2>2
      <3>2. t.id < nextId /\ \A i \in DOMAIN sweep : SameRow(sweep[i], t)
        BY <3>1 DEF ScreenInv, TodoInv
      <3>3. t.id \in Nat
        <4>1. op[q].todo \in Seq(Row)
          BY <1>1 DEF Pipe
        <4>2. t \in Row
          BY <3>1, <4>1
        <4> QED BY <4>2 DEF Row
      <3> HIDE DEF t
      <3>4. SameRow(row, t)
        BY <1>1, <1>3, <3>2, <3>3 DEF SameRow
      <3>5. \A i \in DOMAIN sweep' : SameRow(sweep'[i], t)
        BY <1>7, <1>8, <3>2, <3>4
      <3>6. t.id < nextId'
        BY <1>1, <1>2, <3>2, <3>3
      <3> QED BY <3>1, <3>5, <3>6 DEF t
    <2> QED BY <2>1, <2>2
  <1>14. VerdictsOwn'
    <2> SUFFICES ASSUME NEW i \in DOMAIN sweep' PROVE Own(sweep'[i], op')
      BY DEF VerdictsOwn, Own, Range
    <2>1. CASE i \in DOMAIN sweep
      <3>1. sweep[i] \in Range(sweep)
        BY <2>1 DEF Range
      <3>2. Own(sweep[i], op)
        BY <3>1, OwnIsVerdictsOwn DEF ScreenInv
      <3>3. \A q \in Pipelines : op'[q].cfg = op[q].cfg
        BY <1>5
      <3>4. Own(sweep[i], op')
        BY <3>2, <3>3, OwnKept DEF ScreenInv
      <3> QED BY <1>7, <2>1, <3>4
    <2>2. CASE i = Len(sweep) + 1
      BY <1>3, <1>7, <2>2 DEF Own
    <2> QED BY <1>8, <2>1, <2>2
  <1>15. FrontInv'
    BY <1>1, <1>2 DEF FrontInv
  <1>16. DoneInv'
    BY <1>2 DEF ScreenInv, DoneInv
  <1> QED BY <1>11, <1>12, <1>13, <1>14, <1>15, <1>16 DEF ScreenInv

\* Judging writes the verdicts of one row and nothing else.
LEMMA JudgeKeeps ==
  ASSUME ScreenInv, NEW p \in Pipelines, Judge(p)
  PROVE  ScreenInv'
  <1> DEFINE cfg == op[p].cfg
             row == Head(op[p].todo)
             on(r) == IF r.id # row.id THEN r
                      ELSE [r EXCEPT !.dsr = Verdict("dsr", cfg, row),
                                     !.wfa = Verdict("wfa", cfg, row),
                                     !.cv  = Verdict("cv", cfg, row)]
  <1>1. /\ op[p].pc = "judge" /\ op[p].todo # << >> /\ UNCHANGED <<mode, nextId, done>>
        /\ sweep' = [i \in DOMAIN sweep |-> on(sweep[i])] /\ op' = [op EXCEPT ![p].todo = Tail(@)]
    BY DEF Judge, At
  <1>2. op \in [Pipelines -> Pipe] /\ sweep \in Seq(Row) /\ op[p].todo \in Seq(Row)
    BY DEF ScreenInv, PipesInv, IdsInv, Pipe
  <1> HIDE DEF on, cfg
  <1>3. row = op[p].todo[1] /\ 1 \in DOMAIN op[p].todo
    <2> DEFINE todo == op[p].todo
    <2>1. todo \in Seq(Row) /\ todo # << >> /\ row = Head(todo)
      BY <1>1, <1>2
    <2> HIDE DEF todo, row
    <2>2. row = todo[1] /\ 1 \in DOMAIN todo
      BY <2>1
    <2> QED BY <2>2 DEF todo
  <1>4. \A i \in DOMAIN sweep : SameRow(sweep[i], row)
    BY <1>3 DEF ScreenInv, TodoInv
  <1>5. \A f \in Filters : Verdict(f, cfg, row) \in Verdicts
    BY DEF Verdict, Verdicts
  <1> HIDE DEF row
  <1> USE DEF on
  <1>6. ASSUME NEW r \in Row
        PROVE  /\ on(r) \in Row /\ on(r).id = r.id /\ on(r).combo = r.combo /\ on(r).m = r.m /\ on(r).pareto = r.pareto
               /\ \/ on(r) = r
                  \/ /\ r.id = row.id /\ on(r).dsr = Verdict("dsr", cfg, row)
                     /\ on(r).wfa = Verdict("wfa", cfg, row) /\ on(r).cv = Verdict("cv", cfg, row)
    <2>1. Verdict("dsr", cfg, row) \in Verdicts /\ Verdict("wfa", cfg, row) \in Verdicts /\ Verdict("cv", cfg, row) \in Verdicts
      BY <1>5 DEF Filters
    <2> QED BY <2>1 DEF Row
  <1> HIDE DEF on
  <1>7. DOMAIN sweep' = DOMAIN sweep /\ Len(sweep') = Len(sweep) /\ \A i \in DOMAIN sweep : sweep[i] \in Row /\ sweep'[i] = on(sweep[i])
    BY <1>1, <1>2
  <1>8. \A i \in DOMAIN sweep : /\ sweep'[i].id = sweep[i].id /\ sweep'[i].combo = sweep[i].combo
                               /\ sweep'[i].m = sweep[i].m /\ sweep'[i].pareto = sweep[i].pareto
    BY <1>6, <1>7
  <1>9. IdsInv'
    <2>1. sweep' \in Seq(Row)
      <3> DEFINE N == Len(sweep)
      <3>1. N \in Nat /\ DOMAIN sweep = 1 .. N
        BY <1>2
      <3>2. sweep' = [i \in 1 .. N |-> on(sweep[i])]
        BY <1>1, <3>1
      <3>3. \A i \in 1 .. N : on(sweep[i]) \in Row
        BY <1>6, <1>7, <3>1
      <3> HIDE DEF N
      <3>4. sweep' \in [1 .. N -> Row]
        BY <3>2, <3>3
      <3> QED BY <3>1, <3>4
    <2> QED BY <1>1, <1>7, <1>8, <2>1 DEF ScreenInv, IdsInv
  <1>10. Tail(op[p].todo) \in Seq(Row)
         /\ \A n \in DOMAIN Tail(op[p].todo) : n + 1 \in DOMAIN op[p].todo /\ Tail(op[p].todo)[n] = op[p].todo[n + 1]
    BY <1>1, <1>2
  <1>11. /\ op'[p].cfg = op[p].cfg /\ op'[p].pc = op[p].pc /\ op'[p].todo = Tail(op[p].todo)
         /\ \A q \in Pipelines : q # p => op'[q] = op[q]
    BY <1>1, <1>2 DEF Pipe
  <1>12. PipesInv'
    <2>1. op' \in [Pipelines -> Pipe]
      BY <1>1, <1>2, <1>10 DEF Pipe
    <2>2. \A q \in Pipelines : op'[q].cfg = op[q].cfg /\ op'[q].pc = op[q].pc
      BY <1>11
    <2> QED BY <1>1, <2>1, <2>2 DEF ScreenInv, PipesInv
  <1>13. TodoInv'
    <2> SUFFICES ASSUME NEW q \in Pipelines, NEW n \in DOMAIN op'[q].todo
                 PROVE  op'[q].todo[n].id < nextId /\ \A i \in DOMAIN sweep : SameRow(sweep'[i], op'[q].todo[n])
      BY <1>1, <1>7 DEF TodoInv
    <2>1. PICK n0 \in DOMAIN op[q].todo : op'[q].todo[n] = op[q].todo[n0]
      <3>1. CASE q = p
        BY <1>10, <1>11, <3>1
      <3>2. CASE q # p
        BY <1>11, <3>2
      <3> QED BY <3>1, <3>2
    <2>2. op[q].todo[n0].id < nextId /\ \A i \in DOMAIN sweep : SameRow(sweep[i], op[q].todo[n0])
      BY DEF ScreenInv, TodoInv
    <2> QED BY <1>8, <2>1, <2>2 DEF SameRow
  <1>14. VerdictsOwn'
    <2> SUFFICES ASSUME NEW i \in DOMAIN sweep PROVE Own(sweep'[i], op')
      BY <1>7 DEF VerdictsOwn, Own, Range
    <2> DEFINE r == sweep'[i]
    <2>1. r = on(sweep[i]) /\ sweep[i] \in Row
      BY <1>7
    <2>2. CASE on(sweep[i]) = sweep[i]
      <3>1. sweep[i] \in Range(sweep)
        BY DEF Range
      <3>2. Own(sweep[i], op)
        BY <3>1, OwnIsVerdictsOwn DEF ScreenInv
      <3>3. \A q \in Pipelines : op'[q].cfg = op[q].cfg
        BY <1>11
      <3>4. Own(sweep[i], op')
        BY <3>2, <3>3, OwnKept DEF ScreenInv
      <3> QED BY <2>1, <2>2, <3>4
    <2>3. CASE on(sweep[i]) # sweep[i]
      <3>1. /\ sweep[i].id = row.id /\ r.dsr = Verdict("dsr", cfg, row)
            /\ r.wfa = Verdict("wfa", cfg, row) /\ r.cv = Verdict("cv", cfg, row)
        BY <1>6, <2>1, <2>3
      <3>2. r.combo = row.combo /\ r.m = row.m
        BY <1>4, <1>8, <3>1 DEF SameRow
      <3> HIDE DEF r
      <3>3. r.dsr = Verdict("dsr", cfg, r) /\ r.wfa = Verdict("wfa", cfg, r) /\ r.cv = Verdict("cv", cfg, r)
        BY <3>1, <3>2, VerdictOf
      <3>4. op'[p].cfg = cfg
        BY <1>11 DEF cfg
      <3> QED BY <3>3, <3>4 DEF Own, r
    <2> QED BY <2>2, <2>3
  <1>15. FrontInv'
    <2>1. Passed(sweep') = Passed(sweep)
      BY <1>7, <1>8 DEF Passed, PassesFilters
    <2>2. AnyFailed(sweep') <=> AnyFailed(sweep)
      <3>1. \A i \in DOMAIN sweep : HasFailed(sweep'[i]) <=> HasFailed(sweep[i])
        BY <1>8 DEF HasFailed
      <3> QED BY <1>7, <3>1 DEF AnyFailed, Range
    <2>3. Allowed(sweep') = Allowed(sweep) /\ Allowed(sweep) \subseteq DOMAIN sweep
      BY <1>8, <2>1, <2>2 DEF Allowed, Passed
    <2>4. FrontMarked(sweep) => FrontMarked(sweep')
      BY <1>7, <1>8, <2>3 DEF FrontMarked
    <2>5. InOrder(sweep) => InOrder(sweep')
      <3>1. \A i \in 1 .. (Len(sweep) - 1) : i \in DOMAIN sweep /\ i + 1 \in DOMAIN sweep
        BY <1>2
      <3> QED BY <1>7, <1>8, <3>1 DEF InOrder
    <2>6. {r.combo : r \in Range(sweep')} = {r.combo : r \in Range(sweep)}
      BY <1>7, <1>8 DEF Range
    <2>7. OneEach(sweep) => OneEach(sweep')
      BY <1>7, <2>6 DEF OneEach
    <2>8. sweep' # << >> => sweep # << >>
      BY <1>1, <1>7
    <2> QED BY <1>1, <2>4, <2>5, <2>7, <2>8 DEF ScreenInv, FrontInv
  <1>16. DoneInv'
    BY <1>1 DEF ScreenInv, DoneInv
  <1> QED BY <1>9, <1>12, <1>13, <1>14, <1>15, <1>16 DEF ScreenInv

\* Every step keeps the invariant.
LEMMA ScreenStep == ScreenInv /\ [Next]_vars => ScreenInv'
  <1> SUFFICES ASSUME ScreenInv, [Next]_vars PROVE ScreenInv'
    OBVIOUS
  <1>1. CASE ScreeningNext /\ UNCHANGED op
    <2>1. CASE StartScreening \/ Leave
      <3>1. done' = << >> /\ UNCHANGED <<mode, sweep, nextId>>
        BY <2>1 DEF StartScreening, Leave
      <3>2. DoneInv'
        BY <3>1 DEF DoneInv
      <3> QED BY <1>1, <3>1, <3>2, QuietKeeps
    <2>2. CASE \E i \in DOMAIN Grid : Collect(i)
      <3>1. DoneInv' /\ UNCHANGED <<mode, sweep, nextId>>
        BY <2>2, CollectKeeps DEF Collect
      <3> QED BY <1>1, <3>1, QuietKeeps
    <2>3. CASE PoolBreaks
      <3>1. DoneInv' /\ UNCHANGED <<mode, sweep, nextId>>
        BY <2>3, BreakKeeps DEF PoolBreaks
      <3> QED BY <1>1, <3>1, QuietKeeps
    <2>4. CASE Save
      BY <1>1, <2>4, SaveKeeps
    <2> QED BY <1>1, <2>1, <2>2, <2>3, <2>4 DEF ScreeningNext
  <1>2. CASE \E p \in Pipelines : Step(p)
    <2>1. PICK p \in Pipelines : Step(p)
      BY <1>2
    <2>2. CASE NoResult(p) \/ JudgeRaises(p) \/ Finish(p) \/ Die(p)
      <3>1. UNCHANGED svars /\ \E pc \in {"done", "raised"} : op' = [op EXCEPT ![p].pc = pc]
        BY <2>2 DEF NoResult, JudgeRaises, Finish, Die
      <3> QED BY <3>1, MoveKeeps
    <2> QED BY <2>1, <2>2, LoadKeeps, PromoteKeeps, JudgeKeeps DEF Step
  <1>3. CASE UNCHANGED vars
    <2>1. UNCHANGED <<mode, sweep, nextId, done, op>>
      BY <1>3 DEF vars, svars
    <2>2. DoneInv'
      BY <2>1 DEF ScreenInv, DoneInv
    <2> QED BY <2>1, <2>2, QuietKeeps
  <1> QED BY <1>1, <1>2, <1>3 DEF Next

\* The invariant holds in every reachable state.
LEMMA ScreenAlways == Spec => []ScreenInv
  BY ScreenInitInv, ScreenStep, PTL DEF Spec

\* The rows are those of one screening, best Sharpe first, and the ones marked are
\* exactly the Pareto front of those that passed: whatever order the pool's processes finish
\* and fail in, however many screenings came before, and whatever pipelines write in between.
THEOREM FrontStored == Spec => []StoredFront
  <1>1. ScreenInv => StoredFront
    BY FrontIsStored DEF ScreenInv
  <1> QED BY <1>1, ScreenAlways, PTL

\* The verdicts on a row are those of one pipeline, the deflated Sharpe ratio's and the
\* walk-forward analysis's on that row's combination and the cross-validation's on the
\* strategy's defaults, although pipelines write by ids they read before, and the rows may
\* have been replaced since.
THEOREM OwnVerdicts == Spec => []VerdictsOwn
  <1>1. ScreenInv => VerdictsOwn
    BY DEF ScreenInv
  <1> QED BY <1>1, ScreenAlways, PTL

\* Whatever a pipeline is started with, if it judges then the windows sized for it fit their
\* range and are as many as they must be, and its folds tile the samples, each large enough
\* and, from three on, with something to train on.
THEOREM SplitsDoSuffice == Spec => []SplitsSuffice
  <1>1. \A c \in Configs : c \in WellSplit
    <2> SUFFICES ASSUME NEW c \in Configs
                 PROVE  /\ "cv" \in c.filters /\ CanSplit(c.samples, c.cv) => FoldsUsable(c.samples, c.cv)
                        /\ c.auto /\ c.days > 20 => WindowsFit(c.days)
      BY DEF WellSplit
    <2>1. c.samples \in Nat /\ c.days \in Nat /\ c.cv \in CvConfig
      BY FilterAssumption DEF CvConfig
    <2> QED BY <2>1, FoldsAreUsable, WindowsDoFit
  <1>2. ScreenInv => SplitsSuffice
    BY <1>1 DEF ScreenInv, PipesInv, SplitsSuffice
  <1> QED BY <1>2, ScreenAlways, PTL
=============================================================================
