------------------------ MODULE HeavyPipelineProofs ------------------------
(***************************************************************************)
(* Theorems about HeavyPipeline for every set of runs, stores, products,   *)
(* prices and rates, with any overlap of runs and any faults.              *)
(*                                                                         *)
(* TypeOK is inductive once the raw tables are known to be finite, as a    *)
(* count and a sum have a type only then.  AlertsGrounded needs to know,   *)
(* besides, that what a run holds in memory is part of the raw tables:     *)
(* Loaded.                                                                 *)
(***************************************************************************)
EXTENDS HeavyPipeline, FiniteSetTheorems, WellFoundedInduction, TLAPS

Loaded(r) ==
    /\ data[r].snapshots \subseteq price_snapshots
    /\ data[r].fx \subseteq fx_rates

\* The inductive strengthening of TypeOK.
TypeInv ==
    /\ TypeOK
    /\ IsFiniteSet(price_snapshots)
    /\ \A r \in Runs : IsFiniteSet(data[r].snapshots)

\* The inductive strengthening of AlertsGrounded.
GroundedInv == TypeInv /\ AlertsGrounded /\ \A r \in Runs : Loaded(r)

-----------------------------------------------------------------------------
(* Rates and prices. *)

\* merge_asof(direction="backward") looks at the rates up to t, so that later
\* ones make no difference once there is one.
LEMMA LaterRatesIgnored ==
    ASSUME NEW new \in SUBSET FxRow, NEW old \in SUBSET new, NEW c, NEW t \in Instants,
           \E f \in Quotes(old, c) : f.at <= t,
           \A f \in new \ old : f.at > t
    PROVE  FxRowFor(new, c, t) = FxRowFor(old, c, t)
  <1>1. ASSUME NEW f \in new \ old  PROVE ~(f.at <= t)
    <2>1. f.at \in Nat /\ t \in Nat
      BY AnalysisConstants DEF FxRow
    <2>. QED  BY <2>1
  <1>2. {f \in Quotes(new, c) : f.at <= t} = {f \in Quotes(old, c) : f.at <= t}
    BY <1>1 DEF Quotes
  <1>. QED  BY <1>2 DEF FxRowFor

\* Among rows with instants there is an earliest, and a latest up to a bound.
LEMMA LeastOf ==
    ASSUME NEW T \in SUBSET Nat, T # {}
    PROVE  \E m \in T : \A n \in T : m <= n
  <1>1. PICK m \in T : \A n \in T : <<n, m>> \notin OpToRel(<, Nat)
    BY NatLessThanWellFounded, WFMin
  <1>2. ASSUME NEW n \in T  PROVE m <= n
    <2>1. ~(n < m)
      BY <1>1 DEF OpToRel
    <2>. QED  BY <2>1
  <1>. QED  BY <1>2

LEMMA EarliestExists ==
    ASSUME NEW rows, rows # {}, \A f \in rows : f.at \in Nat
    PROVE  Earliest(rows) \in rows /\ \A g \in rows : Earliest(rows).at <= g.at
  <1>1. PICK m \in {f.at : f \in rows} : \A n \in {f.at : f \in rows} : m <= n
    <2>1. {f.at : f \in rows} \in SUBSET Nat /\ {f.at : f \in rows} # {}
      OBVIOUS
    <2>. QED  BY <2>1, LeastOf
  <1>2. \E f \in rows : \A g \in rows : f.at <= g.at
    BY <1>1
  <1>. QED  BY <1>2 DEF Earliest

LEMMA LatestExists ==
    ASSUME NEW rows, rows # {}, NEW t \in Nat, \A f \in rows : f.at \in Nat /\ f.at <= t
    PROVE  Latest(rows) \in rows /\ \A g \in rows : g.at <= Latest(rows).at
  <1>1. PICK m \in {t - f.at : f \in rows} : \A n \in {t - f.at : f \in rows} : m <= n
    <2>1. {t - f.at : f \in rows} \in SUBSET Nat /\ {t - f.at : f \in rows} # {}
      OBVIOUS
    <2>. QED  BY <2>1, LeastOf
  <1>2. PICK f \in rows : m = t - f.at
    OBVIOUS
  <1>3. ASSUME NEW g \in rows  PROVE g.at <= f.at
    <2>1. t - f.at <= t - g.at
      BY <1>1, <1>2
    <2>. QED  BY <2>1
  <1>4. \E h \in rows : \A g \in rows : g.at <= h.at
    BY <1>3
  <1>. QED  BY <1>4 DEF Latest

\* normalize_to_usd converts at a rate of the store's own currency: the last one
\* captured up to the snapshot or, when the day had none by then, its first.
THEOREM RateInForce ==
    ASSUME NEW fx \in SUBSET FxRow, NEW c, Quotes(fx, c) # {}, NEW t \in Nat
    PROVE  LET f == FxRowFor(fx, c, t)
           IN  /\ f \in Quotes(fx, c)
               /\ \/ f.at <= t /\ \A g \in Quotes(fx, c) : g.at <= f.at \/ g.at > t
                  \/ \A g \in Quotes(fx, c) : g.at > t /\ f.at <= g.at
  <1>. DEFINE known == {f \in Quotes(fx, c) : f.at <= t}
  <1>1. \A f \in Quotes(fx, c) : f.at \in Nat
    BY AnalysisConstants DEF Quotes, FxRow
  <1>2. CASE known # {}
    <2>1. Latest(known) \in known /\ \A g \in known : g.at <= Latest(known).at
      BY <1>1, <1>2, LatestExists
    <2>2. FxRowFor(fx, c, t) = Latest(known)
      BY <1>2 DEF FxRowFor
    <2>3. \A g \in Quotes(fx, c) : g.at <= Latest(known).at \/ g.at > t
      BY <1>1, <2>1
    <2>. QED  BY <2>1, <2>2, <2>3
  <1>3. CASE known = {}
    <2>1. /\ Earliest(Quotes(fx, c)) \in Quotes(fx, c)
          /\ \A g \in Quotes(fx, c) : Earliest(Quotes(fx, c)).at <= g.at
      BY <1>1, EarliestExists
    <2>2. FxRowFor(fx, c, t) = Earliest(Quotes(fx, c))
      BY <1>3 DEF FxRowFor
    <2>3. \A g \in Quotes(fx, c) : g.at > t
      BY <1>1, <1>3
    <2>. QED  BY <2>1, <2>2, <2>3
  <1>. QED  BY <1>2, <1>3

\* The USD price of a snapshot the analysis converts is a natural number.
LEMMA UsdType ==
    ASSUME NEW d \in DayData, NEW s \in Enriched(d)
    PROVE  Usd(d.fx, s) \in Nat
  <1>. DEFINE f == FxRowFor(d.fx, currency[s.store], s.at)
  <1>1. /\ d.fx \in SUBSET FxRow /\ s \in SnapshotRow
        /\ Quotes(d.fx, currency[s.store]) # {}
    BY DEF DayData, Enriched
  <1>2. s.local_price \in Nat /\ s.at \in Nat
    BY <1>1, AnalysisConstants DEF SnapshotRow
  <1>3. f \in Quotes(d.fx, currency[s.store])
    BY <1>1, <1>2, RateInForce
  <1>4. f.rate \in Nat \ {0} /\ SCALE \in Nat
    BY <1>1, <1>3, AnalysisConstants DEF Quotes, FxRow
  <1>. HIDE DEF f
  <1>5. PICK k \in Nat : k = SCALE \div f.rate
    BY <1>4
  <1>. QED  BY <1>2, <1>5 DEF Usd, f

-----------------------------------------------------------------------------
(* Sums over finite sets. *)

Any(s) == CHOOSE x \in s : TRUE

\* The sum over s, given the sums g of the sets one element smaller.
SumStep(fx, g, s) == IF s = {} THEN 0 ELSE Usd(fx, Any(s)) + g[s \ {Any(s)}]

SumTable(fx, S, g) == [s \in SUBSET S |-> SumStep(fx, g, s)]

Small(S, n) == {s \in SUBSET S : Cardinality(s) <= n}

LEMMA SmallerByOne ==
    ASSUME NEW S, IsFiniteSet(S), NEW s \in SUBSET S, s # {}
    PROVE  /\ Any(s) \in s /\ s \ {Any(s)} \in SUBSET S
           /\ Cardinality(s) \in Nat /\ Cardinality(s \ {Any(s)}) = Cardinality(s) - 1
           /\ Cardinality(s \ {Any(s)}) \in Nat
  <1>1. Any(s) \in s
    BY DEF Any
  <1>2. IsFiniteSet(s)
    BY FS_Subset
  <1>3. Cardinality(s \ {Any(s)}) = Cardinality(s) - 1
    BY <1>1, <1>2, FS_RemoveElement
  <1>4. IsFiniteSet(s \ {Any(s)})
    BY <1>2, FS_RemoveElement
  <1>. QED  BY <1>1, <1>2, <1>3, <1>4, FS_CardinalityType

\* The sums of the subsets of a finite set are well defined: a least size for which
\* they were not would be one more than a size for which they are.
LEMMA SumExists ==
    ASSUME NEW S, IsFiniteSet(S), NEW fx
    PROVE  \E g : g = SumTable(fx, S, g)
  <1>. DEFINE Defined(n) == \E g : g = [s \in Small(S, n) |-> SumStep(fx, g, s)]
              Bad == {n \in Nat : ~Defined(n)}
  <1>1. Defined(0)
    <2>. DEFINE g == [s \in Small(S, 0) |-> 0]
    <2>1. ASSUME NEW s \in Small(S, 0), s # {}  PROVE FALSE
      <3>1. s \in SUBSET S /\ Cardinality(s) <= 0
        BY DEF Small
      <3>2. /\ Cardinality(s) \in Nat /\ Cardinality(s \ {Any(s)}) \in Nat
            /\ Cardinality(s \ {Any(s)}) = Cardinality(s) - 1
        BY <2>1, <3>1, SmallerByOne
      <3>. QED  BY <3>1, <3>2
    <2>2. g = [s \in Small(S, 0) |-> SumStep(fx, g, s)]
      BY <2>1 DEF SumStep
    <2>. QED  BY <2>2
  <1>2. ASSUME NEW n \in Nat, n # 0, Defined(n - 1)  PROVE Defined(n)
    <2>1. PICK g : g = [s \in Small(S, n - 1) |-> SumStep(fx, g, s)]
      BY <1>2
    <2>. DEFINE h == [s \in Small(S, n) |-> SumStep(fx, g, s)]
    <2>2. ASSUME NEW s \in Small(S, n), s # {}
          PROVE  h[s \ {Any(s)}] = g[s \ {Any(s)}]
      <3>. DEFINE t == s \ {Any(s)}
      <3>1. t \in Small(S, n - 1) /\ t \in Small(S, n)
        BY <1>2, <2>2, SmallerByOne DEF Small
      <3>2. h[t] = SumStep(fx, g, t)
        BY <3>1
      <3>3. g[t] = SumStep(fx, g, t)
        BY <2>1, <3>1
      <3>. QED  BY <3>2, <3>3
    <2>3. ASSUME NEW s \in Small(S, n)
          PROVE  SumStep(fx, g, s) = SumStep(fx, h, s)
      <3>. HIDE DEF h
      <3>1. CASE s = {}
        BY <3>1 DEF SumStep
      <3>2. CASE s # {}
        BY <2>2, <3>2 DEF SumStep
      <3>. QED  BY <3>1, <3>2
    <2>4. h = [s \in Small(S, n) |-> SumStep(fx, h, s)]
      BY <2>3
    <2>. QED  BY <2>4
  <1>. HIDE DEF Defined
  <1>3. Bad = {}
    <2>. SUFFICES ASSUME Bad # {}  PROVE FALSE
      OBVIOUS
    <2>1. PICK m \in Bad : \A n \in Bad : m <= n
      BY LeastOf
    <2>2. m # 0 /\ m - 1 \in Nat
      BY <1>1
    <2>3. Defined(m - 1)
      BY <2>1, <2>2
    <2>. QED  BY <1>2, <2>1, <2>2, <2>3
  <1>4. Cardinality(S) \in Nat
    BY FS_CardinalityType
  <1>5. Small(S, Cardinality(S)) = SUBSET S
    BY FS_Subset DEF Small
  <1>6. Defined(Cardinality(S))
    BY <1>3, <1>4
  <1>. QED  BY <1>5, <1>6 DEF Defined, SumTable

\* SumUsd is such a sum.
LEMMA SumUnfolds ==
    ASSUME NEW S, IsFiniteSet(S), NEW fx
    PROVE  \E g : g = SumTable(fx, S, g) /\ SumUsd(fx, S) = g[S]
  <1>. DEFINE Sums(g) == [s \in SUBSET S |->
                  IF s = {} THEN 0
                  ELSE Usd(fx, CHOOSE x \in s : TRUE) + g[s \ {CHOOSE x \in s : TRUE}]]
              sums == CHOOSE g : g = Sums(g)
  <1>1. SumUsd(fx, S) = sums[S]
    BY DEF SumUsd, MapThenSumSet, MapThenFoldSet
  <1>2. ASSUME NEW g
        PROVE  SumTable(fx, S, g) = Sums(g)
    BY DEF SumTable, SumStep, Any
  <1>3. \E g : g = SumTable(fx, S, g)
    BY SumExists
  <1>. HIDE DEF Sums
  <1>4. \E g : g = Sums(g)
    BY <1>2, <1>3
  <1>5. sums = Sums(sums)
    BY <1>4
  <1>. HIDE DEF sums
  <1>6. sums = SumTable(fx, S, sums)
    BY <1>2, <1>5
  <1>. QED  BY <1>1, <1>6

\* A sum lies between as many times a lower and an upper bound of its terms.
LEMMA SumBounds ==
    ASSUME NEW S, IsFiniteSet(S), NEW fx, NEW low \in Nat, NEW Highs \in SUBSET Nat,
           \A x \in S : /\ Usd(fx, x) \in Nat /\ low <= Usd(fx, x)
                        /\ \A high \in Highs : Usd(fx, x) <= high
    PROVE  /\ SumUsd(fx, S) \in Nat
           /\ Cardinality(S) * low <= SumUsd(fx, S)
           /\ \A high \in Highs : SumUsd(fx, S) <= Cardinality(S) * high
  <1>1. PICK g : g = SumTable(fx, S, g) /\ SumUsd(fx, S) = g[S]
    BY SumUnfolds
  <1>. DEFINE Bound(n, m) == m \in Nat /\ n * low <= m /\ \A high \in Highs : m <= n * high
              Bounded(n) == \A s \in SUBSET S : Cardinality(s) = n => Bound(n, g[s])
              Bad == {n \in Nat : ~Bounded(n)}
  <1>2. ASSUME NEW s \in SUBSET S  PROVE g[s] = SumStep(fx, g, s)
    BY <1>1 DEF SumTable
  <1>3. Bounded(0)
    <2>1. ASSUME NEW s \in SUBSET S, Cardinality(s) = 0  PROVE g[s] = 0
      <3>1. s = {}
        BY <2>1, FS_EmptySet, FS_Subset
      <3>. QED  BY <1>2, <3>1 DEF SumStep
    <2>2. ASSUME NEW k \in Nat  PROVE 0 * k = 0
      OBVIOUS
    <2>3. Bound(0, 0)
      BY <2>2
    <2>. QED  BY <2>1, <2>3
  <1>4. ASSUME NEW n \in Nat, n # 0, Bounded(n - 1)  PROVE Bounded(n)
    <2>. SUFFICES ASSUME NEW s \in SUBSET S, Cardinality(s) = n
                  PROVE  Bound(n, g[s])
      OBVIOUS
    <2>1. s # {}
      BY <1>4, FS_EmptySet
    <2>2. /\ Any(s) \in S /\ s \ {Any(s)} \in SUBSET S
          /\ Cardinality(s \ {Any(s)}) = n - 1
      BY <2>1, SmallerByOne
    <2>. DEFINE u == Usd(fx, Any(s))
                m == g[s \ {Any(s)}]
    <2>3. m \in Nat /\ (n - 1) * low <= m /\ \A high \in Highs : m <= (n - 1) * high
      BY <1>4, <2>2
    <2>4. g[s] = u + m
      BY <1>2, <2>1 DEF SumStep
    <2>5. u \in Nat /\ low <= u /\ \A high \in Highs : u <= high
      BY <2>2
    <2>. HIDE DEF u, m
    <2>6. ASSUME NEW k \in Nat  PROVE (n - 1) * k = n * k - k /\ n * k \in Nat
      OBVIOUS
    <2>7. n * low <= u + m
      BY <2>3, <2>5, <2>6
    <2>8. ASSUME NEW high \in Highs  PROVE u + m <= n * high
      <3>1. u <= high /\ m <= n * high - high /\ n * high \in Nat
        BY <2>3, <2>5, <2>6
      <3>. QED  BY <2>3, <2>5, <3>1
    <2>. QED  BY <2>3, <2>4, <2>5, <2>7, <2>8
  <1>. HIDE DEF Bounded
  <1>5. Bad = {}
    <2>. SUFFICES ASSUME Bad # {}  PROVE FALSE
      OBVIOUS
    <2>1. PICK m \in Bad : \A n \in Bad : m <= n
      BY LeastOf
    <2>2. m # 0 /\ m - 1 \in Nat
      BY <1>3
    <2>3. Bounded(m - 1)
      BY <2>1, <2>2
    <2>. QED  BY <1>4, <2>1, <2>2, <2>3
  <1>6. Cardinality(S) \in Nat
    BY FS_CardinalityType
  <1>7. Bounded(Cardinality(S))
    BY <1>5, <1>6
  <1>. QED  BY <1>1, <1>7 DEF Bounded

-----------------------------------------------------------------------------
(* The analysis. *)

\* Whatever the percentages, the severity is one of the three.
LEMMA SeverityType ==
    ASSUME NEW sum, NEW n, NEW usd
    PROVE  Severity(sum, n, usd) \in Severities
  BY DEF Severity, Severities

\* What a classified row is made of.
LEMMA ClassifiedRow ==
    ASSUME NEW d \in DayData, IsFiniteSet(d.snapshots), NEW a \in Classified(d)
    PROVE  LET rows == Group(d, a.store, a.sku)
           IN  /\ rows \subseteq Enriched(d) /\ IsFiniteSet(rows)
               /\ a.store \in STORES /\ a.sku \in SKUS /\ a.canonical_usd \in USD
               /\ a.n = Cardinality(rows) /\ a.n \in Nat \ {0}
               /\ a.usd = SumUsd(d.fx, rows)
               /\ a = [store |-> a.store, sku |-> a.sku, usd |-> a.usd, n |-> a.n,
                       canonical_usd |-> a.canonical_usd,
                       severity |-> Severity(a.usd, a.n, a.canonical_usd)]
  <1>1. PICK p \in {q \in STORES \X DOMAIN d.products : Group(d, q[1], q[2]) # {}} :
              a = Analysed(d, p[1], p[2])
    BY DEF Classified
  <1>2. a.store = p[1] /\ a.sku = p[2] /\ a.canonical_usd = d.products[p[2]]
    BY <1>1 DEF Analysed
  <1>. DEFINE rows == Group(d, p[1], p[2])
  <1>3. rows # {} /\ rows \subseteq Enriched(d) /\ rows \subseteq d.snapshots
    BY <1>1 DEF Group, Enriched
  <1>4. PICK S \in SUBSET SKUS : d.products \in [S -> USD]
    BY DEF DayData, PriceList
  <1>5. p[1] \in STORES /\ p[2] \in SKUS /\ d.products[p[2]] \in USD
    BY <1>4
  <1>. HIDE DEF rows
  <1>6. IsFiniteSet(rows)
    BY <1>3, FS_Subset
  <1>7. Cardinality(rows) \in Nat \ {0}
    BY <1>3, <1>6, FS_CardinalityType, FS_EmptySet
  <1>8. a.n = Cardinality(rows) /\ a.usd = SumUsd(d.fx, rows)
    BY <1>1 DEF Analysed, rows
  <1>9. a = [store |-> a.store, sku |-> a.sku, usd |-> a.usd, n |-> a.n,
             canonical_usd |-> a.canonical_usd,
             severity |-> Severity(a.usd, a.n, a.canonical_usd)]
    BY <1>1 DEF Analysed
  <1>. QED  BY <1>2, <1>3, <1>5, <1>6, <1>7, <1>8, <1>9 DEF rows

\* The mean USD price of a pair lies between the lowest and the highest of its
\* group: usd <= n * high says usd/n <= high without dividing.
THEOREM AverageBetween ==
    ASSUME NEW d \in DayData, IsFiniteSet(d.snapshots), NEW a \in Classified(d),
           NEW low \in Nat, NEW high \in Nat,
           \A s \in Group(d, a.store, a.sku) :
              low <= Usd(d.fx, s) /\ Usd(d.fx, s) <= high
    PROVE  a.n * low <= a.usd /\ a.usd <= a.n * high
  <1>. DEFINE rows == Group(d, a.store, a.sku)
              highs == {high}
  <1>1. /\ rows \subseteq Enriched(d) /\ IsFiniteSet(rows)
        /\ a.n = Cardinality(rows) /\ a.usd = SumUsd(d.fx, rows)
    BY ClassifiedRow
  <1>2. \A s \in rows : /\ Usd(d.fx, s) \in Nat /\ low <= Usd(d.fx, s)
                        /\ \A h \in highs : Usd(d.fx, s) <= h
    BY <1>1, UsdType
  <1>3. highs \in SUBSET Nat /\ high \in highs
    OBVIOUS
  <1>. HIDE DEF rows, highs
  <1>4. /\ Cardinality(rows) * low <= SumUsd(d.fx, rows)
        /\ \A h \in highs : SumUsd(d.fx, rows) <= Cardinality(rows) * h
    BY <1>1, <1>2, <1>3, SumBounds
  <1>. QED  BY <1>1, <1>3, <1>4

\* The rows of a day are classified as alerts.
LEMMA ClassifiedType ==
    ASSUME NEW d \in DayData, IsFiniteSet(d.snapshots), NEW a \in Classified(d)
    PROVE  a \in Alert
  <1>. DEFINE rows == Group(d, a.store, a.sku)
  <1>1. /\ rows \subseteq Enriched(d) /\ IsFiniteSet(rows)
        /\ a.store \in STORES /\ a.sku \in SKUS /\ a.canonical_usd \in USD
        /\ a.n \in Nat \ {0} /\ a.usd = SumUsd(d.fx, rows)
        /\ a = [store |-> a.store, sku |-> a.sku, usd |-> a.usd, n |-> a.n,
                canonical_usd |-> a.canonical_usd,
                severity |-> Severity(a.usd, a.n, a.canonical_usd)]
    BY ClassifiedRow
  <1>2. \A s \in rows : Usd(d.fx, s) \in Nat /\ 0 <= Usd(d.fx, s)
    BY <1>1, UsdType
  <1>. HIDE DEF rows
  <1>3. SumUsd(d.fx, rows) \in Nat
    <2>1. {} \in SUBSET Nat /\ \A s \in rows : \A h \in {} : Usd(d.fx, s) <= h
      OBVIOUS
    <2>2. 0 \in Nat
      OBVIOUS
    <2>. QED  BY <1>1, <1>2, <2>1, <2>2, SumBounds
  <1>4. Severity(a.usd, a.n, a.canonical_usd) \in Severities
    BY SeverityType
  <1>. QED  BY <1>1, <1>3, <1>4 DEF Alert

\* There are no more alerts than snapshots.
LEMMA ClassifiedFinite ==
    ASSUME NEW d, IsFiniteSet(d.snapshots)
    PROVE  IsFiniteSet(Classified(d))
  <1>. DEFINE rows == {s \in d.snapshots : Analysed(d, s.store, s.sku) \in Classified(d)}
              f == [s \in rows |-> Analysed(d, s.store, s.sku)]
  <1>1. IsFiniteSet(rows)
    BY FS_Subset
  <1>2. ASSUME NEW a \in Classified(d)  PROVE \E s \in rows : f[s] = a
    <2>1. PICK p \in {q \in STORES \X DOMAIN d.products : Group(d, q[1], q[2]) # {}} :
                a = Analysed(d, p[1], p[2])
      BY DEF Classified
    <2>2. PICK s \in d.snapshots : s.store = p[1] /\ s.sku = p[2]
      BY <2>1 DEF Group, Enriched
    <2>. QED  BY <2>1, <2>2
  <1>3. f \in Surjection(rows, Classified(d))
    BY <1>2 DEF Surjection
  <1>. QED  BY <1>1, <1>3, FS_Surjection

\* So a report counts.
LEMMA StatsType ==
    ASSUME NEW rows, IsFiniteSet(rows)
    PROVE  Stats(rows) \in Counts
  <1>1. ASSUME NEW severity  PROVE Count(rows, severity) \in Nat
    BY FS_Subset, FS_CardinalityType DEF Count
  <1>2. Cardinality(rows) \in Nat
    BY FS_CardinalityType
  <1>. QED  BY <1>1, <1>2 DEF Stats, Counts

\* The catalogue decides which pairs are analysed and at what price, never
\* anything else of the analysis of a pair.
LEMMA CatalogOnlySelects ==
    ASSUME NEW d \in DayData, NEW a \in Classified(d)
    PROVE  a \in Classified(Day(d.snapshots, d.fx, a.canonical_usd))
  <1>. DEFINE full == Day(d.snapshots, d.fx, a.canonical_usd)
  <1>0. /\ full.snapshots = d.snapshots /\ full.fx = d.fx
        /\ full.products = [p \in SKUS |-> a.canonical_usd] /\ full.stores = STORES
    BY DEF Day
  <1>. HIDE DEF full
  <1>1. PICK p \in {q \in STORES \X DOMAIN d.products : Group(d, q[1], q[2]) # {}} :
              a = Analysed(d, p[1], p[2])
    BY DEF Classified
  <1>2. p[1] \in d.stores /\ p[1] \in STORES /\ d.stores \subseteq STORES
    BY <1>1 DEF DayData, Group, Enriched
  <1>3. PICK S \in SUBSET SKUS : d.products \in [S -> USD]
    BY DEF DayData, PriceList
  <1>4. p[2] \in SKUS
    BY <1>3
  <1>5. full.products[p[2]] = d.products[p[2]]
    <2>1. a.canonical_usd = d.products[p[2]]
      BY <1>1 DEF Analysed
    <2>. QED  BY <1>0, <1>4, <2>1
  <1>6. d.snapshots \subseteq SnapshotRow
    BY DEF DayData
  <1>7. Group(full, p[1], p[2]) = Group(d, p[1], p[2])
    BY <1>0, <1>2, <1>6 DEF Group, Enriched
  <1>8. Analysed(full, p[1], p[2]) = Analysed(d, p[1], p[2])
    BY <1>0, <1>5, <1>7 DEF Analysed
  <1>9. p \in {q \in STORES \X DOMAIN full.products : Group(full, q[1], q[2]) # {}}
    <2>1. Group(full, p[1], p[2]) # {}
      BY <1>7
    <2>2. DOMAIN full.products = SKUS
      BY <1>0
    <2>. QED  BY <1>4, <2>1, <2>2
  <1>10. a \in Classified(full)
    BY <1>1, <1>8, <1>9 DEF Classified
  <1>. QED  BY <1>10 DEF full

\* Every row the upsert leaves comes whole from the table or from the batch.
LEMMA UpsertRows ==
    ASSUME NEW table, NEW rows, NEW a \in UpsertAlerts(table, rows)
    PROVE  a \in table \/ a \in rows
  BY DEF UpsertAlerts

-----------------------------------------------------------------------------
(* Types. *)

LEMMA EmptyTables ==
    /\ [p \in {} |-> 0] \in PriceList
    /\ [p \in {} |-> 0] \in UNION {[S -> ProductRow] : S \in SUBSET SKUS}
    /\ [s \in {} |-> TRUE] \in UNION {[S -> BOOLEAN] : S \in SUBSET STORES}
  <1>1. [p \in {} |-> 0] \in [{} -> USD] /\ {} \in SUBSET SKUS
    OBVIOUS
  <1>2. [p \in {} |-> 0] \in [{} -> ProductRow]
    OBVIOUS
  <1>3. [s \in {} |-> TRUE] \in [{} -> BOOLEAN] /\ {} \in SUBSET STORES
    OBVIOUS
  <1>. QED  BY <1>1, <1>2, <1>3 DEF PriceList

LEMMA TypeInit == Init => TypeInv
  <1>. SUFFICES ASSUME Init  PROVE TypeInv
    OBVIOUS
  <1>1. CatalogTypeOK
    <2>1. CatalogInit
      BY DEF Init
    <2>2. /\ data_products \in PriceList /\ mock_products \in PriceList
          /\ edits \in 0..MaxEdits
      BY <2>1, CatalogConstants DEF CatalogInit
    <2>3. products = [p \in {} |-> 0] /\ stores = [s \in {} |-> TRUE]
      BY <2>1 DEF CatalogInit
    <2>4. /\ products \in UNION {[S -> ProductRow] : S \in SUBSET SKUS}
          /\ stores \in UNION {[S -> BOOLEAN] : S \in SUBSET STORES}
      BY <2>3, EmptyTables, Zenon
    <2>. QED  BY <2>2, <2>4 DEF CatalogTypeOK
  <1>2. NoData \in DayData
    BY EmptyTables DEF NoData, DayData
  <1>3. TypeOK
    BY <1>1, <1>2, HeavyConstants DEF Init, TypeOK, StageNames
  <1>4. IsFiniteSet(price_snapshots) /\ \A r \in Runs : IsFiniteSet(data[r].snapshots)
    BY FS_EmptySet DEF Init, NoData
  <1>. QED  BY <1>3, <1>4 DEF TypeInv

\* Inserting what is missing yields a table over the keys of both.
LEMMA InsertNewType ==
    ASSUME NEW K, NEW V,
           NEW table \in UNION {[S -> V] : S \in SUBSET K},
           NEW rows \in UNION {[S -> V] : S \in SUBSET K}
    PROVE  InsertNew(table, rows) \in UNION {[S -> V] : S \in SUBSET K}
  <1>1. PICK S \in SUBSET K : table \in [S -> V]
    OBVIOUS
  <1>2. PICK T \in SUBSET K : rows \in [T -> V]
    OBVIOUS
  <1>3. InsertNew(table, rows) \in [S \cup T -> V]
    BY <1>1, <1>2 DEF InsertNew
  <1>. QED  BY <1>3

LEMMA CatalogTypeNext ==
    CatalogTypeOK /\ (Seed \/ Release \/ EditCatalog) => CatalogTypeOK'
  <1>. SUFFICES ASSUME CatalogTypeOK, Seed \/ Release \/ EditCatalog
                PROVE  CatalogTypeOK'
    OBVIOUS
  <1>. USE CatalogConstants
  <1>1. CASE Seed
    <2>. DEFINE rows == [p \in DOMAIN data_products |->
                [canonical_price_usd |-> data_products[p], is_active |-> TRUE]]
    <2>1. PICK S \in SUBSET SKUS : data_products \in [S -> USD]
      BY DEF CatalogTypeOK, PriceList
    <2>2. rows \in [S -> ProductRow]
      BY <2>1 DEF ProductRow
    <2>. HIDE DEF rows
    <2>3. rows \in UNION {[T -> ProductRow] : T \in SUBSET SKUS}
      BY <2>2
    <2>. USE DEF rows
    <2>4. [s \in STORES |-> TRUE] \in UNION {[T -> BOOLEAN] : T \in SUBSET STORES}
      <3>1. [s \in STORES |-> TRUE] \in [STORES -> BOOLEAN] /\ STORES \in SUBSET STORES
        OBVIOUS
      <3>. QED  BY <3>1, Zenon
    <2>5. products' \in UNION {[T -> ProductRow] : T \in SUBSET SKUS}
      BY <1>1, <2>3, InsertNewType DEF Seed, CatalogTypeOK
    <2>6. stores' \in UNION {[T -> BOOLEAN] : T \in SUBSET STORES}
      BY <1>1, <2>4, InsertNewType DEF Seed, CatalogTypeOK
    <2>. QED  BY <1>1, <2>5, <2>6 DEF Seed, CatalogTypeOK
  <1>2. CASE Release
    BY <1>2 DEF Release, CatalogTypeOK
  <1>3. CASE EditCatalog
    <2>1. edits' \in 0..MaxEdits /\ UNCHANGED <<data_products, mock_products>>
      BY <1>3 DEF EditCatalog, CatalogTypeOK
    <2>2. ASSUME NEW p \in DOMAIN products, NEW row \in ProductRow,
                 products' = [products EXCEPT ![p] = row]
          PROVE  products' \in UNION {[T -> ProductRow] : T \in SUBSET SKUS}
      <3>1. PICK T \in SUBSET SKUS : products \in [T -> ProductRow]
        BY DEF CatalogTypeOK
      <3>. QED  BY <2>2, <3>1
    <2>3. ASSUME NEW s \in DOMAIN stores, stores' = [stores EXCEPT ![s] = ~stores[s]]
          PROVE  stores' \in UNION {[T -> BOOLEAN] : T \in SUBSET STORES}
      <3>1. PICK T \in SUBSET STORES : stores \in [T -> BOOLEAN]
        BY DEF CatalogTypeOK
      <3>2. stores' \in [T -> BOOLEAN]
        BY <2>3, <3>1, Zenon
      <3>. QED  BY <3>2
    <2>. QED  BY <1>3, <2>1, <2>2, <2>3 DEF EditCatalog, CatalogTypeOK
  <1>. QED  BY <1>1, <1>2, <1>3

\* What the heavy flow reads of the catalogue.
LEMMA ActiveType ==
    CatalogTypeOK => ActiveProducts \in PriceList /\ ActiveStores \subseteq STORES
  <1>. SUFFICES ASSUME CatalogTypeOK
                PROVE  ActiveProducts \in PriceList /\ ActiveStores \subseteq STORES
    OBVIOUS
  <1>1. PICK S \in SUBSET SKUS : products \in [S -> ProductRow]
    BY DEF CatalogTypeOK
  <1>. DEFINE active == {q \in DOMAIN products : products[q].is_active}
  <1>2. active \in SUBSET SKUS
    BY <1>1
  <1>3. ActiveProducts \in [active -> USD]
    BY <1>1 DEF ActiveProducts, ProductRow
  <1>4. PICK T \in SUBSET STORES : stores \in [T -> BOOLEAN]
    BY DEF CatalogTypeOK
  <1>. HIDE DEF active
  <1>. QED  BY <1>2, <1>3, <1>4 DEF PriceList, ActiveStores

\* Snapshots come one by one, and a run holds those there were or none.
LEMMA FiniteNext ==
    TypeInv /\ [Next]_vars =>
        /\ IsFiniteSet(price_snapshots')
        /\ \A r \in Runs : IsFiniteSet(data'[r].snapshots)
  <1>. SUFFICES ASSUME TypeInv, [Next]_vars
                PROVE  /\ IsFiniteSet(price_snapshots')
                       /\ \A r \in Runs : IsFiniteSet(data'[r].snapshots)
    OBVIOUS
  <1>1. \/ price_snapshots' = price_snapshots
        \/ \E row : price_snapshots' = price_snapshots \cup {row}
    BY DEF Next, RunStep, StoreSnapshot, StoreFx, CatalogStep, Trigger, LoadSnapshots,
           LoadFx, LoadProducts, LoadStores, WriteReport, WriteAlerts, ConstraintError,
           Crash, vars, raw
  <1>2. IsFiniteSet(price_snapshots')
    BY <1>1, FS_AddElement DEF TypeInv
  <1>3. ASSUME NEW q \in Runs
        PROVE  data'[q].snapshots \in {data[q].snapshots, price_snapshots, {}}
    <2>1. data \in [Runs -> DayData]
      BY DEF TypeInv, TypeOK
    <2>2. CASE data' = data
      BY <2>2
    <2>3. ASSUME NEW r \in Runs, NEW how, End(r, how)
          PROVE  data'[q].snapshots \in {data[q].snapshots, {}}
      BY <2>1, <2>3 DEF End, NoData
    <2>4. ASSUME NEW r \in Runs, LoadSnapshots(r)
          PROVE  data'[q].snapshots \in {data[q].snapshots, price_snapshots}
      BY <2>1, <2>4 DEF LoadSnapshots, DayData
    <2>5. ASSUME NEW r \in Runs, LoadFx(r) \/ LoadProducts(r) \/ LoadStores(r)
          PROVE  data'[q].snapshots = data[q].snapshots
      BY <2>1, <2>5 DEF LoadFx, LoadProducts, LoadStores, DayData
    <2>6. ASSUME NEW r \in Runs, WriteReport(r) \/ WriteAlerts(r) \/ ConstraintError(r)
                                    \/ Crash(r) \/ Trigger(r)
          PROVE  data'[q].snapshots \in {data[q].snapshots, {}}
      BY <2>2, <2>3, <2>6 DEF WriteReport, WriteAlerts, ConstraintError, Crash, Trigger
    <2>7. CASE StoreSnapshot \/ StoreFx \/ CatalogStep \/ UNCHANGED vars
      BY <2>2, <2>7 DEF StoreSnapshot, StoreFx, CatalogStep, vars
    <2>. QED  BY <2>4, <2>5, <2>6, <2>7 DEF Next, RunStep
  <1>4. ASSUME NEW q \in Runs  PROVE IsFiniteSet(data'[q].snapshots)
    <2>1. IsFiniteSet(data[q].snapshots) /\ IsFiniteSet(price_snapshots) /\ IsFiniteSet({})
      BY FS_EmptySet DEF TypeInv
    <2>. QED  BY <1>3, <2>1
  <1>. QED  BY <1>2, <1>4

LEMMA TypeNext == TypeInv /\ [Next]_vars => TypeInv'
  <1>. SUFFICES ASSUME TypeInv, [Next]_vars
                PROVE  TypeOK'
    BY FiniteNext DEF TypeInv
  <1>0. TypeOK /\ \A r \in Runs : IsFiniteSet(data[r].snapshots)
    BY DEF TypeInv
  <1>. USE HeavyConstants
  <1>a. ASSUME NEW r \in Runs, NEW how \in StageNames, End(r, how)
        PROVE  pc' \in [Runs -> StageNames] /\ data' \in [Runs -> DayData]
    <2>1. NoData \in DayData
      BY EmptyTables DEF NoData, DayData
    <2>. QED  BY <1>0, <1>a, <2>1 DEF TypeOK, End, Goto
  <1>b. ASSUME NEW r \in Runs, NEW how \in StageNames, Goto(r, how)
        PROVE  pc' \in [Runs -> StageNames]
    BY <1>0, <1>b DEF TypeOK, Goto
  <1>c. ASSUME Fault  PROVE faults' \in 0..MaxFaults
    BY <1>0, <1>c DEF TypeOK, Fault
  <1>c2. ASSUME UNCHANGED catalog  PROVE CatalogTypeOK'
    BY <1>0, <1>c2 DEF TypeOK, CatalogTypeOK, catalog
  <1>1. CASE StoreSnapshot
    BY <1>0, <1>1, <1>c2 DEF StoreSnapshot, TypeOK, outputs
  <1>2. CASE StoreFx
    BY <1>0, <1>2, <1>c2 DEF StoreFx, TypeOK, outputs
  <1>3. CASE CatalogStep
    BY <1>0, <1>3, CatalogTypeNext DEF CatalogStep, TypeOK, raw, outputs
  <1>4. ASSUME NEW r \in Runs, Trigger(r)  PROVE TypeOK'
    BY <1>0, <1>4, <1>b, <1>c2 DEF Trigger, TypeOK, raw, outputs, StageNames
  <1>5. ASSUME NEW r \in Runs, LoadSnapshots(r)  PROVE TypeOK'
    <2>1. data' \in [Runs -> DayData]
      BY <1>0, <1>5 DEF LoadSnapshots, TypeOK, DayData
    <2>. QED  BY <1>0, <1>5, <1>b, <1>c2, <2>1 DEF LoadSnapshots, TypeOK, raw, outputs, StageNames
  <1>6. ASSUME NEW r \in Runs, LoadFx(r)  PROVE TypeOK'
    <2>1. data' \in [Runs -> DayData]
      BY <1>0, <1>6 DEF LoadFx, TypeOK, DayData
    <2>. QED  BY <1>0, <1>6, <1>b, <1>c2, <2>1 DEF LoadFx, TypeOK, raw, outputs, StageNames
  <1>7. ASSUME NEW r \in Runs, LoadProducts(r)  PROVE TypeOK'
    <2>1. data' \in [Runs -> DayData]
      BY <1>0, <1>7, ActiveType DEF LoadProducts, TypeOK, DayData
    <2>. QED  BY <1>0, <1>7, <1>b, <1>c2, <2>1 DEF LoadProducts, TypeOK, raw, outputs, StageNames
  <1>8. ASSUME NEW r \in Runs, LoadStores(r)  PROVE TypeOK'
    <2>1. data' \in [Runs -> DayData]
      BY <1>0, <1>8, ActiveType DEF LoadStores, TypeOK, DayData
    <2>. QED  BY <1>0, <1>8, <1>b, <1>c2, <2>1 DEF LoadStores, TypeOK, raw, outputs, StageNames
  <1>9. ASSUME NEW r \in Runs, WriteReport(r)  PROVE TypeOK'
    <2>0. daily_price_reports' \in Counts
      BY <1>0, <1>9, ClassifiedFinite, StatsType DEF WriteReport
    <2>1. CASE Goto(r, "alerts") /\ UNCHANGED <<data, faults>>
      BY <1>0, <1>9, <1>b, <1>c2, <2>0, <2>1 DEF WriteReport, TypeOK, raw, StageNames
    <2>2. CASE End(r, "dead") /\ Fault
      BY <1>0, <1>9, <1>a, <1>c, <1>c2, <2>0, <2>2 DEF WriteReport, TypeOK, raw, StageNames
    <2>. QED  BY <1>9, <2>1, <2>2 DEF WriteReport
  <1>10. ASSUME NEW r \in Runs, WriteAlerts(r)  PROVE TypeOK'
    <2>1. price_alerts' \subseteq Alert
      <3>. SUFFICES ASSUME NEW a \in price_alerts'
                    PROVE  a \in Alert
        OBVIOUS
      <3>1. a \in price_alerts \/ a \in Classified(data[r])
        BY <1>10, UpsertRows DEF WriteAlerts
      <3>2. data[r] \in DayData /\ price_alerts \subseteq Alert
        BY <1>0 DEF TypeOK
      <3>. QED  BY <1>0, <3>1, <3>2, ClassifiedType
    <2>2. CASE End(r, "done") /\ UNCHANGED faults
      BY <1>0, <1>10, <1>a, <1>c2, <2>1, <2>2 DEF WriteAlerts, TypeOK, raw, StageNames
    <2>3. CASE End(r, "dead") /\ Fault
      BY <1>0, <1>10, <1>a, <1>c, <1>c2, <2>1, <2>3 DEF WriteAlerts, TypeOK, raw, StageNames
    <2>. QED  BY <1>10, <2>2, <2>3 DEF WriteAlerts
  <1>11. ASSUME NEW r \in Runs, ConstraintError(r)  PROVE TypeOK'
    BY <1>0, <1>11, <1>a, <1>c2 DEF ConstraintError, TypeOK, raw, outputs, StageNames
  <1>12. ASSUME NEW r \in Runs, Crash(r)  PROVE TypeOK'
    BY <1>0, <1>12, <1>a, <1>c, <1>c2 DEF Crash, TypeOK, raw, outputs, StageNames
  <1>13. CASE UNCHANGED vars
    BY <1>0, <1>13, <1>c2 DEF vars, raw, outputs, TypeOK
  <1>. QED  BY <1>1, <1>2, <1>3, <1>4, <1>5, <1>6, <1>7, <1>8, <1>9, <1>10,
               <1>11, <1>12, <1>13 DEF Next, RunStep

LEMMA TypeAlways == Spec => []TypeInv
  BY TypeInit, TypeNext, PTL DEF Spec

\* Type correctness of the heavy flow: the report holds four counts, and an alert
\* the sum and the number of the prices it averages, one at least, with a severity
\* that the check constraint of price_alerts admits.
THEOREM HeavyTypeCorrect == Spec => []TypeOK
  <1>1. TypeInv => TypeOK
    BY DEF TypeInv
  <1>. QED  BY <1>1, TypeAlways, PTL

-----------------------------------------------------------------------------
(* The catalogue. *)

\* What is in the table stays as it is; what is missing comes in.
LEMMA InsertNewKeeps ==
    ASSUME NEW table, NEW rows
    PROVE  /\ DOMAIN InsertNew(table, rows) = DOMAIN table \cup DOMAIN rows
           /\ \A k \in DOMAIN table : InsertNew(table, rows)[k] = table[k]
  BY DEF InsertNew

\* Every step of the system seeds, releases, edits, or leaves the catalogue.
LEMMA CatalogSteps ==
    [Next]_vars => Seed \/ Release \/ EditCatalog \/ UNCHANGED catalog
  BY DEF Next, RunStep, StoreSnapshot, StoreFx, CatalogStep, Trigger, LoadSnapshots,
         LoadFx, LoadProducts, LoadStores, WriteReport, WriteAlerts, ConstraintError,
         Crash, vars

\* A seed by an image that lists all that the mock's does makes the catalogue
\* accept what the mock lists, and nothing but another mock's image ends that.
THEOREM CaptureAlwaysAccepted == Spec => CaptureAccepted
  <1>1. ASSUME Seed, DOMAIN mock_products \subseteq DOMAIN data_products
        PROVE  Accepted'
    BY <1>1, InsertNewKeeps DEF Seed, Accepted
  <1>2. ASSUME [Next]_vars, Accepted, UNCHANGED mock_products
        PROVE  Accepted'
    <2>1. CASE Seed
      <3>1. DOMAIN products \subseteq DOMAIN products' /\ DOMAIN stores \subseteq DOMAIN stores'
        BY <2>1, InsertNewKeeps DEF Seed
      <3>. QED  BY <1>2, <3>1 DEF Accepted
    <2>2. CASE Release
      BY <1>2, <2>2 DEF Release, Accepted
    <2>3. CASE EditCatalog
      BY <1>2, <2>3 DEF EditCatalog, Accepted
    <2>4. CASE UNCHANGED catalog
      BY <1>2, <2>4 DEF catalog, Accepted
    <2>. QED  BY <1>2, <2>1, <2>2, <2>3, <2>4, CatalogSteps
  <1>3. [Next]_vars
        => [\/ Seed /\ DOMAIN mock_products \subseteq DOMAIN data_products
            \/ Accepted /\ UNCHANGED mock_products
            => Accepted']_vars
    BY <1>1, <1>2
  <1>. QED  BY <1>3, PTL DEF Spec, CaptureAccepted

-----------------------------------------------------------------------------
(* Alerts are grounded in the raw tables. *)

\* The raw tables only grow.
LEMMA RawGrows ==
    [Next]_vars => price_snapshots \subseteq price_snapshots' /\ fx_rates \subseteq fx_rates'
  BY DEF Next, RunStep, StoreSnapshot, StoreFx, CatalogStep, Trigger, LoadSnapshots,
         LoadFx, LoadProducts, LoadStores, WriteReport, WriteAlerts, ConstraintError,
         Crash, vars, raw

\* Only WriteAlerts touches the alerts.
LEMMA AlertsWritten ==
    [Next]_vars => price_alerts' = price_alerts \/ \E r \in Runs : WriteAlerts(r)
  BY DEF Next, RunStep, StoreSnapshot, StoreFx, CatalogStep, Trigger, LoadSnapshots,
         LoadFx, LoadProducts, LoadStores, WriteReport, ConstraintError,
         Crash, vars, outputs

\* What a run has loaded stays part of the raw tables.
LEMMA LoadedNext ==
    ASSUME TypeOK, [Next]_vars, NEW q \in Runs, Loaded(q)
    PROVE  Loaded(q)'
  <1>1. price_snapshots \subseteq price_snapshots' /\ fx_rates \subseteq fx_rates'
    BY RawGrows
  <1>. SUFFICES /\ data'[q].snapshots \subseteq data[q].snapshots \cup price_snapshots
                /\ data'[q].fx \subseteq data[q].fx \cup fx_rates
    BY <1>1 DEF Loaded
  <1>2. CASE data' = data
    BY <1>2
  <1>3. ASSUME NEW r \in Runs, NEW how, End(r, how)
        PROVE  /\ data'[q].snapshots \subseteq data[q].snapshots
               /\ data'[q].fx \subseteq data[q].fx
    BY <1>3 DEF End, NoData, TypeOK
  <1>4. ASSUME NEW r \in Runs, RunStep(r) \/ Crash(r) \/ Trigger(r)
        PROVE  /\ data'[q].snapshots \subseteq data[q].snapshots \cup price_snapshots
               /\ data'[q].fx \subseteq data[q].fx \cup fx_rates
    <2>1. CASE LoadSnapshots(r)
      BY <2>1 DEF LoadSnapshots, TypeOK, DayData
    <2>2. CASE LoadFx(r)
      BY <2>2 DEF LoadFx, TypeOK, DayData
    <2>3. CASE LoadProducts(r)
      BY <2>3 DEF LoadProducts, TypeOK, DayData
    <2>4. CASE LoadStores(r)
      BY <2>4 DEF LoadStores, TypeOK, DayData
    <2>5. CASE WriteReport(r) \/ WriteAlerts(r) \/ ConstraintError(r) \/ Crash(r)
      BY <1>2, <1>3, <2>5 DEF WriteReport, WriteAlerts, ConstraintError, Crash
    <2>6. CASE Trigger(r)
      BY <1>2, <2>6 DEF Trigger
    <2>. QED  BY <1>4, <2>1, <2>2, <2>3, <2>4, <2>5, <2>6 DEF RunStep
  <1>5. CASE StoreSnapshot \/ StoreFx \/ CatalogStep \/ UNCHANGED vars
    BY <1>2, <1>5 DEF StoreSnapshot, StoreFx, CatalogStep, vars
  <1>. QED  BY <1>4, <1>5 DEF Next

\* A grounded alert stays grounded while the tables grow, and a new one is
\* grounded in what its run loaded.
LEMMA GroundedNext == GroundedInv /\ [Next]_vars => GroundedInv'
  <1>. SUFFICES ASSUME GroundedInv, [Next]_vars
                PROVE  GroundedInv'
    OBVIOUS
  <1>1. TypeOK /\ TypeInv'
    BY TypeNext DEF GroundedInv, TypeInv
  <1>2. \A q \in Runs : Loaded(q)'
    BY <1>1, LoadedNext DEF GroundedInv
  <1>3. price_snapshots \subseteq price_snapshots' /\ fx_rates \subseteq fx_rates'
    BY RawGrows
  <1>4. ASSUME NEW a \in price_alerts'
        PROVE  \E snapshots \in SUBSET price_snapshots', fx \in SUBSET fx_rates' :
                   a \in Classified(Day(snapshots, fx, a.canonical_usd))
    <2>1. CASE a \in price_alerts
      BY <1>3, <2>1 DEF GroundedInv, AlertsGrounded
    <2>2. ASSUME a \notin price_alerts
          PROVE  \E r \in Runs : a \in Classified(data[r])
      BY <2>2, <1>4, AlertsWritten, UpsertRows DEF WriteAlerts
    <2>3. ASSUME NEW r \in Runs, a \in Classified(data[r])
          PROVE  \E snapshots \in SUBSET price_snapshots', fx \in SUBSET fx_rates' :
                     a \in Classified(Day(snapshots, fx, a.canonical_usd))
      <3>1. data[r] \in DayData
        BY <1>1 DEF TypeOK
      <3>2. a \in Classified(Day(data[r].snapshots, data[r].fx, a.canonical_usd))
        BY <2>3, <3>1, CatalogOnlySelects
      <3>3. data[r].snapshots \subseteq price_snapshots' /\ data[r].fx \subseteq fx_rates'
        BY <1>3 DEF GroundedInv, Loaded
      <3>. QED  BY <3>2, <3>3
    <2>. QED  BY <2>1, <2>2, <2>3
  <1>5. AlertsGrounded'
    BY <1>4 DEF AlertsGrounded, Classified, Day, Group, Enriched, Quotes, Analysed
  <1>. QED  BY <1>1, <1>2, <1>5 DEF GroundedInv

\* Every alert is the analysis of stored rows, whatever the interleaving.
THEOREM AlertsAlwaysGrounded == Spec => []AlertsGrounded
  <1>1. Init => GroundedInv
    BY TypeInit DEF Init, GroundedInv, AlertsGrounded, Loaded, NoData
  <1>2. GroundedInv => AlertsGrounded
    BY DEF GroundedInv
  <1>. QED  BY <1>1, <1>2, GroundedNext, PTL DEF Spec

-----------------------------------------------------------------------------
(* Severities fit. *)

\* What the two thresholds say of an average with a drift the database admits.
LEMMA ThresholdsFit ==
    ASSUME NEW sum \in Nat, NEW n \in Nat, NEW usd \in Nat, NEW limit \in Nat,
           ~DriftReaches(limit, sum, n, usd)
    PROVE  LET canonical == n * usd * SCALE
               Within(low, high) ==
                   low * canonical < 100 * sum /\ 100 * sum < high * canonical
           IN  /\ canonical = 0 => sum = 0
               /\ DriftReaches(15, sum, n, usd) <=> canonical > 0 /\ ~Within(85, 115)
               /\ DriftReaches(5, sum, n, usd)  <=> canonical > 0 /\ ~Within(95, 105)
  <1>1. PICK c \in Nat : c = n * usd * SCALE
    BY AnalysisConstants
  <1>2. ASSUME NEW pct \in Nat  PROVE pct * n * usd * SCALE = pct * c
    BY <1>1, AnalysisConstants
  <1>3. ASSUME NEW pct \in Nat
        PROVE  DriftReaches(pct, sum, n, usd)
                  <=> AbsVal(sum - c) > 0 /\ AbsVal(sum - c) * 100 >= pct * c
    BY <1>1, <1>2 DEF DriftReaches
  <1>4. c = 0 => sum = 0
    <2>1. limit * 0 = 0
      OBVIOUS
    <2>. QED  BY <1>3, <2>1 DEF AbsVal
  <1>. QED  BY <1>1, <1>3, <1>4 DEF AbsVal

Fits(a) ==
    LET canonical == a.n * a.canonical_usd * SCALE
        Within(low, high) == low * canonical < 100 * a.usd /\ 100 * a.usd < high * canonical
    IN  /\ a.severity = "critical" <=> canonical > 0 /\ ~Within(85, 115)
        /\ a.severity = "medium"   <=> Within(85, 115) /\ ~Within(95, 105)
        /\ canonical = 0 => a.usd = 0

\* classify_severity says of a row whose drift the database admits what its
\* prices say.
LEMMA ClassifiedFits ==
    ASSUME NEW d \in DayData, IsFiniteSet(d.snapshots), NEW a \in Classified(d),
           NEW limit \in Nat, ~DriftReaches(limit, a.usd, a.n, a.canonical_usd)
    PROVE  Fits(a)
  <1>1. a.usd \in Nat /\ a.n \in Nat /\ a.canonical_usd \in Nat
    BY ClassifiedType, CatalogConstants DEF Alert
  <1>2. a.severity = Severity(a.usd, a.n, a.canonical_usd)
    BY ClassifiedRow
  <1>3. PICK c \in Nat : c = a.n * a.canonical_usd * SCALE
    BY <1>1, AnalysisConstants
  <1>. DEFINE Within(low, high) == low * c < 100 * a.usd /\ 100 * a.usd < high * c
              critical == DriftReaches(15, a.usd, a.n, a.canonical_usd)
              drifts == DriftReaches(5, a.usd, a.n, a.canonical_usd)
  <1>4. /\ c = 0 => a.usd = 0
        /\ critical <=> c > 0 /\ ~Within(85, 115)
        /\ drifts <=> c > 0 /\ ~Within(95, 105)
    BY <1>1, <1>3, ThresholdsFit
  <1>5. /\ a.severity = "critical" <=> critical
        /\ a.severity = "medium" <=> drifts /\ ~critical
    <2>1. CASE critical
      <3>1. drifts
        BY <1>1, <1>4, <2>1
      <3>. QED  BY <1>2, <2>1, <3>1 DEF Severity
    <2>2. CASE ~critical /\ drifts
      BY <1>2, <2>2 DEF Severity
    <2>3. CASE ~critical /\ ~drifts
      BY <1>2, <2>3 DEF Severity
    <2>. QED  BY <2>1, <2>2, <2>3
  <1>. HIDE DEF critical, drifts
  <1>6. /\ a.severity = "critical" <=> c > 0 /\ ~Within(85, 115)
        /\ a.severity = "medium" <=> Within(85, 115) /\ ~Within(95, 105)
    BY <1>1, <1>4, <1>5
  <1>. QED  BY <1>3, <1>4, <1>6 DEF Fits

\* However often it is written over, an alert's severity is that of its own
\* prices: a drift the thresholds cannot judge never enters the table.
THEOREM SeverityAlwaysFits == Spec => []SeverityFits
  <1>1. SeverityFits <=> \A a \in price_alerts : Fits(a)
    BY DEF SeverityFits, Fits
  <1>2. Init => SeverityFits
    BY DEF Init, SeverityFits
  <1>3. ASSUME TypeInv, SeverityFits, [Next]_vars, NEW a \in price_alerts'
        PROVE  Fits(a)
    <2>1. CASE a \in price_alerts
      BY <1>1, <1>3, <2>1
    <2>2. CASE a \notin price_alerts
      <3>1. PICK r \in Runs : WriteAlerts(r) /\ a \in Classified(data[r])
        BY <1>3, <2>2, AlertsWritten, UpsertRows DEF WriteAlerts
      <3>2. ~DriftReaches(PCT_LIMIT, a.usd, a.n, a.canonical_usd)
        BY <3>1 DEF WriteAlerts, AlertsTooWide
      <3>3. data[r] \in DayData /\ IsFiniteSet(data[r].snapshots)
        BY <1>3 DEF TypeInv, TypeOK
      <3>. QED  BY <3>1, <3>2, <3>3, ClassifiedFits, HeavyConstants
    <2>. QED  BY <2>1, <2>2
  <1>4. TypeInv /\ SeverityFits /\ [Next]_vars => SeverityFits'
    BY <1>3 DEF SeverityFits, Fits
  <1>. QED  BY <1>2, <1>4, TypeAlways, PTL DEF Spec

-----------------------------------------------------------------------------
(* Rates settle. *)

\* A later rate never changes the USD value of a snapshot that had a rate in
\* force when it was taken.
THEOREM RatesAlwaysSettle == Spec => RatesSettle
  <1>1. ASSUME TypeInv, [Next]_vars, NEW s \in price_snapshots,
               \E f \in Quotes(fx_rates, currency[s.store]) : f.at <= s.at,
               \A f \in fx_rates' \ fx_rates : f.at > s.at
        PROVE  FxRowFor(fx_rates', currency[s.store], s.at)
                  = FxRowFor(fx_rates, currency[s.store], s.at)
    <2>1. fx_rates \in SUBSET fx_rates'
      BY <1>1, RawGrows
    <2>2. fx_rates' \in SUBSET FxRow /\ s.at \in Instants
      BY <1>1, TypeNext DEF TypeInv, TypeOK, SnapshotRow
    <2>. QED  BY <1>1, <2>1, <2>2, LaterRatesIgnored
  <1>2. TypeInv /\ [Next]_vars
        => [\A s \in price_snapshots :
              /\ \E f \in Quotes(fx_rates, currency[s.store]) : f.at <= s.at
              /\ \A f \in fx_rates' \ fx_rates : f.at > s.at
              => FxRowFor(fx_rates', currency[s.store], s.at)
                    = FxRowFor(fx_rates, currency[s.store], s.at)]_vars
    BY <1>1
  <1>. QED  BY <1>2, TypeAlways, PTL DEF Spec, RatesSettle

=============================================================================
