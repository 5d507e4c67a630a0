--------------------------- MODULE DailyAnalysis ---------------------------
(***************************************************************************)
(* The pure part of the heavy flow: what normalize_to_usd, detect_drift,   *)
(* classify_severity and aggregate_report make of one day's rows.          *)
(*                                                                         *)
(* A USD price is local / rate.  Rates divide SCALE, so a price is kept as *)
(* the integer local * (SCALE \div rate), an average as a sum and a count, *)
(* and percentages are compared without dividing.  A rate of 0, by which   *)
(* normalize_to_usd would divide and which no constraint of fx_rates       *)
(* forbids, is left out: RATES are positive.                               *)
(***************************************************************************)
EXTENDS Catalog, FiniteSets, FiniteSetsExt

CONSTANTS CURRENCIES,
          currency,            \* app.stores: store_id -> currency
          PRICES, RATES, SCALE,
          Instants             \* of the day, as captured_at tells them apart

ASSUME AnalysisConstants ==
    /\ currency \in [STORES -> CURRENCIES]
    /\ PRICES \subseteq Nat
    /\ RATES \subseteq Nat \ {0}
    /\ SCALE \in Nat \ {0} /\ \A q \in RATES : SCALE % q = 0
    /\ Instants \subseteq Nat

SnapshotRow == [store : STORES, sku : SKUS, local_price : PRICES, at : Instants]
FxRow       == [quote : CURRENCIES, rate : RATES, at : Instants]

\* What load_day_window returns.
DayData == [snapshots : SUBSET SnapshotRow, fx : SUBSET FxRow,
            products : PriceList, stores : SUBSET STORES]

Quotes(fx, c) == {f \in fx : f.quote = c}

Earliest(rows) == CHOOSE f \in rows : \A g \in rows : f.at <= g.at
Latest(rows)   == CHOOSE f \in rows : \A g \in rows : g.at <= f.at

\* A faulty join: direction="forward".
ForwardRow(fx, c, t) ==
    LET known == {f \in Quotes(fx, c) : f.at >= t}
    IN  IF known # {} THEN Earliest(known) ELSE Latest(Quotes(fx, c))

\* merge_asof(direction="backward"), then the earliest rate of the day.
FxRowFor(fx, c, t) ==
    LET known == {f \in Quotes(fx, c) : f.at <= t}
    IN  IF known # {} THEN Latest(known) ELSE Earliest(Quotes(fx, c))

\* A snapshot is converted when its store is active and its currency quoted.
Enriched(d) ==
    {s \in d.snapshots : s.store \in d.stores /\ Quotes(d.fx, currency[s.store]) # {}}

Usd(fx, s) == s.local_price * (SCALE \div FxRowFor(fx, currency[s.store], s.at).rate)

SumUsd(fx, rows) == MapThenSumSet(LAMBDA s : Usd(fx, s), rows)

Group(d, store, sku) == {s \in Enriched(d) : s.store = store /\ s.sku = sku}

AbsVal(x) == IF x < 0 THEN -x ELSE x

\* A faulty threshold: > for >=.
DriftExceeds(pct, sum, n, usd) ==
    AbsVal(sum - n * usd * SCALE) * 100 > pct * n * usd * SCALE

\* |drift_pct| >= pct, for an average of sum/n against a price of usd.  At a
\* price of 0 the drift is infinite, or, between two zeros, no number at all.
DriftReaches(pct, sum, n, usd) ==
    LET drift == AbsVal(sum - n * usd * SCALE)
    IN  drift > 0 /\ drift * 100 >= pct * n * usd * SCALE

\* A faulty default: the column is not initialised to 'low'.
SeverityUndefaulted(sum, n, usd) ==
    CASE DriftReaches(15, sum, n, usd) -> "critical"
      [] DriftReaches(5, sum, n, usd) /\ ~DriftReaches(15, sum, n, usd) -> "medium"
      [] ~DriftReaches(5, sum, n, usd) -> "nan"

Severity(sum, n, usd) ==
    CASE DriftReaches(15, sum, n, usd) -> "critical"
      [] DriftReaches(5, sum, n, usd) /\ ~DriftReaches(15, sum, n, usd) -> "medium"
      [] ~DriftReaches(5, sum, n, usd) -> "low"

Analysed(d, store, sku) ==
    LET rows == Group(d, store, sku)
        sum  == SumUsd(d.fx, rows)
        n    == Cardinality(rows)
        usd  == d.products[sku]
    IN  [store |-> store, sku |-> sku, usd |-> sum, n |-> n,
         canonical_usd |-> usd, severity |-> Severity(sum, n, usd)]

\* One row per pair converted at least once and still in the catalogue.
Classified(d) ==
    {Analysed(d, p[1], p[2]) : p \in
        {q \in STORES \X DOMAIN d.products : Group(d, q[1], q[2]) # {}}}

\* |avg_drift_pct| >= pct, the mean of the drifts that are numbers.
AverageReaches(pct, rows) ==
    LET Scaled(a) == a.n * a.canonical_usd * SCALE
        priced == {a \in rows : a.canonical_usd > 0}
        common == ProductSet({Scaled(a) : a \in priced})
        sum == MapThenSumSet(LAMBDA a : (a.usd - Scaled(a)) * (common \div Scaled(a)), priced)
    IN  \/ \E a \in rows \ priced : a.usd > 0
        \/ priced # {} /\ AbsVal(sum) * 100 >= pct * Cardinality(priced) * common

Count(rows, severity) == Cardinality({a \in rows : a.severity = severity})

Stats(rows) ==
    [products_analyzed |-> Cardinality(rows),
     alerts_critical   |-> Count(rows, "critical"),
     alerts_medium     |-> Count(rows, "medium"),
     alerts_low        |-> Count(rows, "low")]

=============================================================================
