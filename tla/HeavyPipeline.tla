--------------------------- MODULE HeavyPipeline ---------------------------
(***************************************************************************)
(* The heavy flow (src/pipelines/heavy) for one report_date: several runs, *)
(* each in its own container, read the day's raw rows and the catalogue    *)
(* with four statements and write the report and its alerts in two         *)
(* transactions, while the light flow adds rows and the catalogue is       *)
(* seeded, released anew and edited.                                       *)
(***************************************************************************)
EXTENDS DailyAnalysis

CONSTANTS Runs,
          PCT_LIMIT,      \* NUMERIC(8,4) holds |drift_pct| below this
          Overlap,        \* may two runs be alive at once?
          MaxRows,        \* bounds: raw rows of the day,
          MaxFaults       \* injected faults

ASSUME HeavyConstants ==
    /\ PCT_LIMIT \in Nat
    /\ Overlap \in BOOLEAN
    /\ MaxRows \in Nat
    /\ MaxFaults \in Nat

VARIABLES
    price_snapshots, fx_rates,          \* the day's raw rows
    pc, data,                           \* each run's step and what it loaded
    daily_price_reports,                \* the report's row, or NoReport
    price_alerts,                       \* the alerts of the day
    faults

raw     == <<price_snapshots, fx_rates>>
outputs == <<daily_price_reports, price_alerts>>
vars    == <<raw, catalog, pc, data, outputs, faults>>

NoReport == [products_analyzed |-> -1]

NoData == [snapshots |-> {}, fx |-> {}, products |-> [p \in {} |-> 0], stores |-> {}]

Init ==
    /\ price_snapshots = {} /\ fx_rates = {}
    /\ CatalogInit
    /\ pc = [r \in Runs |-> "idle"]
    /\ data = [r \in Runs |-> NoData]
    /\ daily_price_reports = NoReport
    /\ price_alerts = {}
    /\ faults = 0

-----------------------------------------------------------------------------
(* The rest of the system. *)

\* The light flow stores a snapshot or a rate, one per minute.  A snapshot's
\* product and store are in the catalogue, active or not.
StoreSnapshot ==
    \E row \in SnapshotRow :
        /\ row.sku \in DOMAIN products /\ row.store \in DOMAIN stores
        /\ Cardinality(price_snapshots) + Cardinality(fx_rates) < MaxRows
        /\ \A o \in price_snapshots :
              ~(o.store = row.store /\ o.sku = row.sku /\ o.at = row.at)
        /\ price_snapshots' = price_snapshots \cup {row}
        /\ UNCHANGED <<fx_rates, catalog, pc, data, outputs, faults>>

StoreFx ==
    \E row \in FxRow :
        /\ Cardinality(price_snapshots) + Cardinality(fx_rates) < MaxRows
        /\ \A o \in fx_rates : ~(o.quote = row.quote /\ o.at = row.at)
        /\ fx_rates' = fx_rates \cup {row}
        /\ UNCHANGED <<price_snapshots, catalog, pc, data, outputs, faults>>

CatalogStep ==
    /\ Seed \/ Release \/ EditCatalog
    /\ UNCHANGED <<raw, pc, data, outputs, faults>>

-----------------------------------------------------------------------------
(* heavy_price_analysis. *)

Alive(r) == pc[r] \notin {"idle", "done", "dead"}

Goto(r, stage) == pc' = [pc EXCEPT ![r] = stage]

\* The run's container is gone, and what it loaded with it.
End(r, how) == Goto(r, how) /\ data' = [data EXCEPT ![r] = NoData]

Fault == faults < MaxFaults /\ faults' = faults + 1

Trigger(r) ==
    /\ pc[r] = "idle"
    /\ Overlap \/ \A q \in Runs : ~Alive(q)
    /\ Goto(r, "snapshots")
    /\ UNCHANGED <<raw, catalog, data, outputs, faults>>

\* A faulty re-run: once there is a report it reads the newest snapshots only.
LoadNewest(r) ==
    /\ pc[r] = "snapshots"
    /\ data' = [data EXCEPT ![r].snapshots =
          {s \in price_snapshots :
              daily_price_reports = NoReport \/ \A o \in price_snapshots : o.at <= s.at}]
    /\ Goto(r, "fx")
    /\ UNCHANGED <<raw, catalog, outputs, faults>>

\* load_day_window: each statement sees what is committed when it starts.
LoadSnapshots(r) ==
    /\ pc[r] = "snapshots"
    /\ data' = [data EXCEPT ![r].snapshots = price_snapshots]
    /\ Goto(r, "fx")
    /\ UNCHANGED <<raw, catalog, outputs, faults>>

LoadFx(r) ==
    /\ pc[r] = "fx"
    /\ data' = [data EXCEPT ![r].fx = fx_rates]
    /\ Goto(r, "products")
    /\ UNCHANGED <<raw, catalog, outputs, faults>>

LoadProducts(r) ==
    /\ pc[r] = "products"
    /\ data' = [data EXCEPT ![r].products = ActiveProducts]
    /\ Goto(r, "stores")
    /\ UNCHANGED <<raw, catalog, outputs, faults>>

LoadStores(r) ==
    /\ pc[r] = "stores"
    /\ data' = [data EXCEPT ![r].stores = ActiveStores]
    /\ Goto(r, "report")
    /\ UNCHANGED <<raw, catalog, outputs, faults>>

\* A percentage of the report, or of its alerts, does not fit NUMERIC(8,4):
\* the average may fit when one of the alerts does not.
ReportTooWide(r) == AverageReaches(PCT_LIMIT, Classified(data[r]))
AlertsTooWide(r) ==
    \E a \in Classified(data[r]) : DriftReaches(PCT_LIMIT, a.usd, a.n, a.canonical_usd)

\* write_outputs, first transaction: the report row is replaced.  A commit
\* whose acknowledgement is lost ends the run all the same.
WriteReport(r) ==
    /\ pc[r] = "report"
    /\ ~ReportTooWide(r)
    /\ daily_price_reports' = Stats(Classified(data[r]))
    /\ \/ Goto(r, "alerts") /\ UNCHANGED <<data, faults>>
       \/ End(r, "dead") /\ Fault
    /\ UNCHANGED <<raw, catalog, price_alerts>>

\* A faulty upsert: ON CONFLICT DO NOTHING.
KeepAlerts(table, rows) ==
    table \cup {a \in rows : \A o \in table : ~(o.store = a.store /\ o.sku = a.sku)}

\* A faulty upsert: severity is missing from the DO UPDATE list.
KeepSeverity(table, rows) ==
    LET Old(a) == {o \in table : o.store = a.store /\ o.sku = a.sku}
        Merged(a) == IF Old(a) = {} THEN a
                     ELSE [a EXCEPT !.severity = (CHOOSE o \in Old(a) : TRUE).severity]
    IN  {o \in table : \A a \in rows : ~(o.store = a.store /\ o.sku = a.sku)}
            \cup {Merged(a) : a \in rows}

\* INSERT ... ON CONFLICT (report_date, store_id, sku) DO UPDATE
UpsertAlerts(table, rows) ==
    {o \in table : \A a \in rows : ~(o.store = a.store /\ o.sku = a.sku)} \cup rows

\* write_outputs, second transaction, not reached when nothing is classified.
WriteAlerts(r) ==
    /\ pc[r] = "alerts"
    /\ ~AlertsTooWide(r)
    /\ price_alerts' = UpsertAlerts(price_alerts, Classified(data[r]))
    /\ \/ End(r, "done") /\ UNCHANGED faults
       \/ Classified(data[r]) # {} /\ End(r, "dead") /\ Fault
    /\ UNCHANGED <<raw, catalog, daily_price_reports>>

\* The database refuses a percentage.
ConstraintError(r) ==
    /\ \/ pc[r] = "report" /\ ReportTooWide(r)
       \/ pc[r] = "alerts" /\ AlertsTooWide(r)
    /\ End(r, "dead")
    /\ UNCHANGED <<raw, catalog, outputs, faults>>

\* A statement fails and is rolled back, or the container dies: there is no
\* retry, and the run is over.
Crash(r) ==
    /\ Alive(r)
    /\ Fault
    /\ End(r, "dead")
    /\ UNCHANGED <<raw, catalog, outputs>>

RunStep(r) ==
    \/ LoadSnapshots(r) \/ LoadFx(r) \/ LoadProducts(r) \/ LoadStores(r)
    \/ WriteReport(r) \/ WriteAlerts(r) \/ ConstraintError(r)

Next ==
    \/ \E r \in Runs : Trigger(r) \/ RunStep(r) \/ Crash(r)
    \/ StoreSnapshot \/ StoreFx \/ CatalogStep

Spec == Init /\ [][Next]_vars

-----------------------------------------------------------------------------
(* Properties *)

Severities == {"low", "medium", "critical"}

StageNames == {"idle", "snapshots", "fx", "products", "stores",
               "report", "alerts", "done", "dead"}

Counts == [products_analyzed : Nat, alerts_critical : Nat,
           alerts_medium : Nat, alerts_low : Nat]

Alert == [store : STORES, sku : SKUS, usd : Nat, n : Nat \ {0},
          canonical_usd : USD, severity : Severities]

\* Every variable has its type: in particular an alert averages one snapshot at
\* least and its severity is one that ck_price_alerts_severity admits.
TypeOK ==
    /\ price_snapshots \subseteq SnapshotRow
    /\ fx_rates \subseteq FxRow
    /\ CatalogTypeOK
    /\ pc \in [Runs -> StageNames]
    /\ data \in [Runs -> DayData]
    /\ daily_price_reports \in Counts \cup {NoReport}
    /\ price_alerts \subseteq Alert
    /\ faults \in 0..MaxFaults

\* A day under a catalogue in which everything is active at one price.
Day(snapshots, fx, usd) ==
    [snapshots |-> snapshots, fx |-> fx,
     products |-> [p \in SKUS |-> usd], stores |-> STORES]

\* However runs overlap, fail, or read while rows arrive and the catalogue is
\* edited, an alert in the table is in all its columns the analysis of rows
\* that are in the raw tables, against the one price it names
\* (load_day_window, write_outputs).
AlertsGrounded ==
    \A a \in price_alerts :
        \E snapshots \in SUBSET price_snapshots, fx \in SUBSET fx_rates :
            a \in Classified(Day(snapshots, fx, a.canonical_usd))

\* A stored snapshot that had a rate in force keeps that rate when later ones
\* arrive: an analysis of a day still going on is not undone by the next
\* fetch (normalize_to_usd).
RatesSettle ==
    [][\A s \in price_snapshots :
          /\ \E f \in Quotes(fx_rates, currency[s.store]) : f.at <= s.at
          /\ \A f \in fx_rates' \ fx_rates : f.at > s.at
          => FxRowFor(fx_rates', currency[s.store], s.at)
                = FxRowFor(fx_rates, currency[s.store], s.at)]_vars

Completes(r) == WriteAlerts(r) /\ pc'[r] = "done"

\* When a run completes, and its catalogue has the products and stores of the
\* day's earlier alerts, the day's report counts exactly the alerts in the
\* table, whatever a run that died between the two transactions of
\* write_outputs left there.
ReportMatchesAlerts ==
    [][\A r \in Runs :
          /\ Completes(r)
          /\ \A a \in price_alerts :
                a.sku \in DOMAIN data[r].products /\ a.store \in data[r].stores
          => daily_price_reports = Stats(price_alerts')]_vars

\* All that a completed re-run leaves of earlier ones are alerts of products and
\* stores that its catalogue no longer has: every other pair with an alert is
\* analysed and overwritten, whatever rows came in between (write_outputs).
LeftoversExplained ==
    [][\A r \in Runs : Completes(r) =>
          \A a \in price_alerts' \ Classified(data[r]) :
              a.sku \notin DOMAIN data[r].products \/ a.store \notin data[r].stores]_vars

\* No write of the alerts loses a pair that its run's catalogue still has, or
\* analyses it from fewer snapshots than the alert it overwrites, whatever rates
\* and snapshots came in between and whether or not it is acknowledged: what
\* was once counted is never dropped again (normalize_to_usd, write_outputs).
NeverForgets ==
    [][\A r \in Runs : WriteAlerts(r) =>
          \A a \in price_alerts :
              a.sku \in DOMAIN data[r].products /\ a.store \in data[r].stores
              => \E b \in price_alerts' :
                    b.store = a.store /\ b.sku = a.sku /\ b.n >= a.n]_vars

\* An alert's severity says what its own prices say, and no alert in the table
\* rests on a canonical price of 0 unless every price it averages is 0 as well,
\* whatever was written over it, refused, edited and re-run since
\* (classify_severity, the boundaries of 5 and 15 percent; drift_pct).
SeverityFits ==
    \A a \in price_alerts :
        LET canonical == a.n * a.canonical_usd * SCALE
            Within(low, high) ==
                low * canonical < 100 * a.usd /\ 100 * a.usd < high * canonical
        IN  /\ a.severity = "critical" <=> canonical > 0 /\ ~Within(85, 115)
            /\ a.severity = "medium"   <=> Within(85, 115) /\ ~Within(95, 105)
            /\ canonical = 0 => a.usd = 0

\* When the seeder's image lists all that the mock's does, no batch of the light
\* flow is refused after a seed for a product or store the mock lists, until the
\* mock lists another data.py, whatever was deployed, seeded and edited before
\* (seed, fk of price_snapshots).
CaptureAccepted ==
    [][\/ Seed /\ DOMAIN mock_products \subseteq DOMAIN data_products
       \/ Accepted /\ UNCHANGED mock_products
       => Accepted']_vars

\* What the seeder's docstring guarantees: the canonical prices in the database
\* match the data it was run with.
SeedMatchesData ==
    [][Seed => \A p \in DOMAIN data_products :
          products'[p].canonical_price_usd = data_products[p]]_vars

\* What write_outputs' docstring says: re-running for the same report_date
\* overwrites the previous results, so they are those of the last run alone.
OverwritesPrevious ==
    [][\A r \in Runs : Completes(r) => price_alerts' = Classified(data[r])]_vars

=============================================================================
