# Formal model of multi-country-price-sync

TLA+ modules, TLC configurations and TLAPS proofs for the price
synchronisation pipelines under `src/`. Line numbers refer to that tree
(`light/tasks.py` is `src/src/pipelines/light/tasks.py`, and so on).

## 1. The system

WooCommerce stores in Chile, Mexico and Colombia list products in local
currency. Every 15 minutes a *light* Prefect flow captures prices and exchange
rates; once a day a *heavy* flow turns a day of captures into a report and
alerts against the canonical USD prices. The two share only PostgreSQL.

| part | state | operations | interacts with |
|---|---|---|---|
| Light flow (`light/flow.py`, `light/tasks.py`) | in memory: fetch results, detected events; the step it has reached | fetch three stores and the FX provider concurrently, `quick_drift_check`, `upsert_raw_snapshots`, `upsert_raw_fx`, `upsert_change_events`, `validate_response_health` | HTTP services, Prefect's cache, the raw tables |
| Prefect (external; configured by the task decorators and `deploy/*.py`) | result cache per task key, run states, cron schedules | starts runs, serves a result for 14 minutes, retries a task that raises | both flows |
| Heavy flow (`heavy/flow.py`, `heavy/tasks.py`) | in memory: the day's four data frames | `load_day_window`, `normalize_to_usd`, `detect_drift`, `classify_severity`, `aggregate_report`, `write_outputs` | reads raw tables and catalogue, writes the processed tables |
| Database schema (`shared/models.py`, `migrations/`) | catalogue: `products`, `stores`; raw: `price_snapshots`, `fx_rates`, `price_change_events`, `api_health_log`; processed: `daily_price_reports`, `price_alerts` | keys, foreign keys, `ON CONFLICT`, numeric widths | everything |
| Sessions (`shared/db.py`) | engine and session factory | `db_session`: commit, or rollback and re-raise | both flows |
| Schemas, settings, HTTP client (`shared/`) | none | validation, environment, client construction | both flows |
| Mock stores and seeder (`mock_woocommerce/`) | a fixed catalogue with drift | answers product lists; seeds `products` and `stores` | light flow, catalogue |
| Deployment and infrastructure | none | register schedules, compose files, proxy | Prefect |

What is hard here is not the sequential happy path, which the unit and
integration tests walk, but:

* each flow writes several tables in **separate transactions**, and may die,
  lose the database or have a batch refused between any two of them;
* there is **no concurrency limit**: a cron tick and a manual trigger, or two of
  either, run the same flow at once and share the cache and the tables;
* the **cache replays a capture** up to 14 minutes later into a drift check that
  compares it with what is stored meanwhile, and the cache is on no volume;
* an HTTP error is *returned* (so cached, never retried), any other error is
  *raised* (so retried, and then fails `asyncio.gather` while the other fetches
  are still running);
* the cache lives **one minute less than the cron's period**: that minute is all
  there is for picking a run up and fetching, and every manual trigger shifts
  the record against the cron;
* the heavy flow reads four tables with four statements and **UPSERTs without
  deleting**, while rows arrive and the catalogue is seeded, released anew and
  edited.

What makes each part correct:

* light: one row per pair and minute whatever happens; an event is never out of
  thin air; without overlap the events are exactly the moves between
  consecutive snapshots; a cached re-trigger is invisible; a run ends;
* heavy: an alert is the analysis of rows that exist, with the severity its own
  prices say; a finished run leaves a report that counts its alerts; a re-run
  analyses every pair its catalogue has from no fewer rows than before; a later
  rate does not change an analysis that had one in force;
* tables: raw rows are immutable, keys hold, the check constraints are met;
* cache, retries and schedule: bounded; no record costs two scheduled runs their
  sample, a source that answers is sampled again and again, and no run still
  holds a capture of the day the 03:00 run reads;
* catalogue: after a seed by an image that lists what the mock's does, the foreign
  keys admit all that the mock lists, whatever the catalogue held.

The complete list of hazards, each at its line, is `hazards` in `PROJECT.json`.

## 2. Modules

| module | contents |
|---|---|
| `LightPipeline` | the light flow: any number of runs, the fetch tasks with cache, errors and retries, each upsert a transaction, the raw tables, the clock, faults; all its properties |
| `PriceMonitor` | the abstract specification: batches of prices are observed atomically, and every move is reported in the same step |
| `LossyMonitor` | what is left of that promise when runs die between their transactions: readings in order, only true changes, and what was missed or superseded never changes again |
| `LightRefinement` | the refinement mapping from `LightPipeline` to both |
| `LightMC` | definitions for the small instances of the light flow |
| `FetchCadence` | the fetch of one source in time: the two crons, manual triggers, retries, the life of a cached record, outages |
| `Catalog` | the seed data, its releases, the seeder and the operator's edits of `products` and `stores` |
| `DailyAnalysis` | the pure part of the heavy flow: rate lookup, USD prices, drift, severity, counts |
| `HeavyPipeline` | the heavy flow for one `report_date`: several runs, four reads, two output transactions, rows arriving, a catalogue in motion, faults; its properties |
| `HeavyMC` | its small instances |
| `LightPipelineProofs`, `LightTurnsProofs`, `LightSerialProofs` | theorems about the light flow: in any environment, with runs in turn, and with a durable cache besides |
| `PriceMonitorProofs`, `LightRefinementProofs` | theorems about the two monitors, and about the light flow as an implementation of them |
| `FetchCadenceProofs`, `HeavyPipelineProofs`, `HeavySerialProofs` | theorems about the cadence, the heavy flow and the catalogue, and serial heavy runs |

`HeavyPipeline` extends `DailyAnalysis`, which extends `Catalog`; `LightRefinement`
extends `LightPipeline` and instantiates `LossyMonitor`, which extends
`PriceMonitor`. `FetchCadence` stands
alone: it keeps what `LightPipeline` leaves out (durations) and leaves out what
`LightPipeline` keeps (tables, events, several sources).

Some definitions are marked *faulty* in their comment. They are not part of the
model: each is a plausible bug (a missing reset, a wrong key, a swapped order)
that one of the properties is known to catch, see `mutants` in `PROJECT.json`.

### LightPipeline and the code

| model | code |
|---|---|
| `pc[r]`: idle, fetch, drift, snapshots, fx, events, health, done; failed, dead | the step of `light_price_sync` a run has reached (`light/flow.py:26-56`); an exception has reached the flow; the process is gone |
| `call[r][k]` | the task run of `fetch_store_prices` or `fetch_fx_rates` for source `k`; `res.at` is the fetch's `captured_at`, taken before the request |
| `cache[k]` | Prefect's stored result, with its `cache_expiration` |
| `events[r]` | the flow's local `events` |
| `Respond`, `HttpError`, `RaiseError`, `CacheHit` | the four ways a fetch ends |
| `Gathered` | `asyncio.gather` returns when all calls are done; if one raises, `failed`, while the others go on until `Exit` |
| `Commit`, `DbError`, `ConstraintError` | `db_session`: commit (its acknowledgement may be lost), error and rollback, a refused batch (foreign key, `NUMERIC(8,4)`) |
| `LoseCache` | the worker container is recreated; the result storage is on no volume (`docker-compose.yml:74-103`) |

`Overlap`, `CacheDurable` and `MaxFaults` state the environment: properties that
hold unconditionally are checked and proved without restriction; those that
need runs that do not overlap (*in turn*), or a cache that outlives them as
well (*serial* runs), say so.

Abstractions. A clock tick stands for an instant and two fetches may tie; a
minute is `MINUTE` ticks. A store lists a sku at most once, and malformed
products, which the code skips, are simply missing from a list. Prices are
integers; NUMERIC rounding is left out. Latency and HTTP status of the health
log are abstracted to `ok`. Stores' foreign keys always hold (the flow fetches
only configured stores).

### HeavyPipeline and the code

| model | code |
|---|---|
| `price_snapshots`, `fx_rates` | the raw rows of one `report_date`; `StoreSnapshot`, `StoreFx` are the light flow's upserts: rows are added, one per pair and minute, and never changed, as `WrittenOnce` and `RowsAreUnique` prove of it |
| `CatalogStep` | `Seed`, `Release` or `EditCatalog` of `Catalog` |
| `LoadSnapshots`, `LoadFx`, `LoadProducts`, `LoadStores` | the four statements of `load_day_window` (`heavy/tasks.py:44-97`), each with a snapshot of its own at READ COMMITTED; the last two read the active rows only |
| `Classified(d)` | `classify_severity(detect_drift(normalize_to_usd(...)))`, a function of what was loaded |
| `WriteReport`, `WriteAlerts` | the two transactions of `write_outputs` (`:332-334`, `:374-376`) |
| `ReportTooWide`, `AlertsTooWide`, `ConstraintError` | `avg_drift_pct`, or the `drift_pct` of some alert, does not fit `NUMERIC(8,4)`, and the database refuses the row or the batch |
| `Crash` | any other failure. Heavy tasks have no retries |

USD prices are exact: rates divide `SCALE`, an average is a sum and a count, and
percentages are compared by cross-multiplication, so the doubles' rounding is
left out. A canonical price of 0, which nothing in the table forbids, gives an
infinite drift, which no column holds, or no number between two zeros, which
is below every threshold. A rate of 0, which no constraint of `fx_rates` forbids
either and by which `normalize_to_usd` divides, is not modelled: rates are
positive. The report's average rates and `avg_local_price` are left out. The analysis
of one `report_date` never touches another date's rows, so one date is enough.

### Catalog and the code

| model | code |
|---|---|
| `data_products`, `mock_products` | `PRODUCTS` of `mock_woocommerce/data.py` in the seeder's image, which inserts it, and in the mock's, which lists it (`docker-compose.yml:22-26`, `:54-57`) |
| `products`, `stores` | `app.products` (canonical price, `is_active`) and `app.stores` (`is_active`); a key that is absent is outside the domain |
| `Seed` | `seed()`: both tables, `ON CONFLICT DO NOTHING`, one transaction |
| `Release` | one of the two images is built anew, from another `data.py`, so that they may differ for a while; as often as one likes |
| `EditCatalog` | nothing in `src/` updates a row of the catalogue; an operator does, at most `MaxEdits` times |
| `Accepted` | `fk` of `price_snapshots`: the condition under which `upsert_raw_snapshots` refuses nothing |

Names, countries, currencies and URLs are left out: no release changes
`STORES`.

### FetchCadence and the code

| model | code |
|---|---|
| `phase`, `Tick` | `*/15` of `deploy/deploy_light.py:31`; a run that is due is picked up within `PICKUP` |
| `HEAVY_AT`, `DAY` | `0 3 * * *` of `deploy/deploy_heavy.py:45`, which analyses the day that has ended (`heavy/flow.py:37`) |
| `cache`, `Expire` | `cache_expiration=timedelta(minutes=14)`, from the end of the fetch |
| `StartFetch` | `captured_at` is taken before the request, by every attempt |
| `Respond`, `HttpError` | a result, good or not, is returned and cached (`light/tasks.py:94`, `:113`) |
| `Raise`, `RETRIES` | another exception: retried, then the flow fails, and nothing is cached |
| `Store` | the upserts are over, accepted or refused: the run ends; what they leave in the tables is `LightPipeline`'s matter |
| `Outage`, `Recover`, `flaky` | requests may fail and processes die, or they do not; `MayFail` lets an attempt that began in an outage still fail |
| `seen`, `steady`, `cache.ticks` | ghosts: the age of the newest good capture any run obtained, the time since the last outage, the scheduled runs that used the record |

Every duration is an age or a timer that `Tick` advances, and ages beyond
`LONG` are not told apart, so time is unbounded while the states are finite. The
schedule's run is one slot: by `CadenceSlack` it is over when the next is due.

## 3. Runs

All instances are small. Deadlock checking is off where the runs are finite in
number and the clock, rows and faults bounded, so that every behaviour stops; it
is on in `cadence`, whose time never stops.

| run | instance | shows |
|---|---|---|
| `light_overlap` | 2 overlapping runs, 1 store and FX, 2 prices, clock 0..2, cache lifetime and minute 2 ticks, cache may be lost, 1 fault | `TypeOK`, `UniqueRows`, `PersistedByStage`, `EventsGrounded`, `FirstWriteWins` |
| `light_serial` | 3 serial runs, 2 skus of which one unknown, prices 0, 100, 105, percentage limit 100, 1 fault, clock 0..4 | `EventsBacked`, `ReplayIsNoop`, `ImplementsLossyMonitor`, `PastIsSettled`, `ExactUnlessLost` |
| `light_volatile` | 3 runs in turn, 1 sku, prices 100, 105, 2 faults, the loss of the cache among them, clock 0..3 | `EventsFromLatest` |
| `light_live` | 2 serial runs, 1 retry, fair runs, no fault, HTTP errors and raised errors included | `RunsEnd`, `StepsRunOut`, `FetchedIsStored`, `ImplementsMonitor` |
| `cadence` | the cron's run and a manual one; period 7, cache life 4, pickup 1, fetch 2, storing 1, one retry, a day of 14 with the heavy cron at 8; outages, lost caches and manual triggers without bound | `TypeOK`, `EveryTickSamples`, `NeverBlindForLong`, `DayIsClosed`, `KeepsSampling` |
| `heavy_serial` | 3 serial runs, 2 skus, 1 price, 2 rates, canonical prices 100 and 110, 2 instants, at most 3 raw rows, two releases of either image as often as one likes, one edit, percentage limit 50, 1 fault | `ReportMatchesAlerts`, `LeftoversExplained`, `NeverForgets`, `CaptureAccepted` |
| `heavy_any` | 2 overlapping runs, 1 pair, 2 prices, 2 rates, canonical prices 0, 20 and 24, 3 instants, at most 3 raw rows, one edit, percentage limit 90, 1 fault | `TypeOK`, `AlertsGrounded`, `SeverityFits`, `RatesSettle` |

What these bounds reach. Two runs interleave every step of a run with every step of
another, but from empty tables they raise one event at most: that events stay unique
under overlap, and what a baseline does that is stale already, take a third
run, which does not fit, and rest on the theorems `RowsAreUnique` and
`GroundedAlways`. Three runs in turn make a change, its replay from the cache and a
third price. A minute of two ticks has
two instants in a bucket, and a clock of 4 has three buckets, so captures in
the same, the next and a later minute occur, as do cache hits before and
fetches after expiry. In `light_volatile` a run can die with its snapshots stored,
the cache be lost, and the next run fetch another price within the same minute,
which the table then refuses: the event it raises has no snapshot of its own, so
that `EventsBacked` fails there and `EventsFromLatest` is what remains. Prices 100 and 105 sit exactly on the 5% threshold, 100
and 0 exercise the division guard and the NUMERIC limit. That the steps take the
threshold and the guard from the code is by reading: the properties say which moves
count with the same `Moved` that detects them, and would not notice another one. In
`heavy_any` prices 460 and 483 at rates 21 and 23 are 20, 21, 21.9 and 23 USD: exactly
0%, 5%, 9.5% and 15% above a canonical price of 20, 17% to 4% below one of 24, and
infinitely far from 0, which the width of the column (90% there) refuses;
`SeverityFits` states both boundaries with numbers of its own. Three instants
put rates before, at and after a snapshot. In `heavy_serial` a rate of 2 puts one
product at 50% or beyond while the mean of two is within, so that a report is
committed whose alerts are refused. The seven ticks of
`cadence` keep the order of the real durations, with no slack beyond
`CadenceSlack` (4 + 1 + 2 = 7), the tightest case, and its day is two periods, so
that a capture can cross midnight in every position.

Fairness. `light_live` assumes `WF_vars(RunStep(r))` per run and nothing of the
environment: a live process takes its next step because every HTTP call is
bounded by `http_timeout_s` and PostgreSQL answers or fails. Neither the clock,
nor triggers, nor faults are fair. It is not strong fairness, and nothing says
that an answer is a good one. `cadence` adds `WF_vars(Tick)`, because time passes;
triggers, outages, recoveries and losses of the cache have no fairness, and
`KeepsSampling` asks for a source that answers from some time on. `CadenceSlack`
is an assumption about the deployment, not a fact of the code: worker pickup,
request and retries fit in the minute between 14 and 15. With more latency than
that a scheduled run can find a record of the run before it.

### What the code does not do (runs that must find a violation)

| run | what the repository says | what happens |
|---|---|---|
| `light_lost_event` | `light/flow.py:45`: the upserts' order is independent; README:282: any pipeline can be triggered N times without risk | a run that dies after the snapshots and before the events loses the events for good: the baseline has moved |
| `light_prior` | `light/tasks.py:209-211`: the comparison sees the prior value | with an overlapping run, a slow fetch is compared with a price captured after it |
| `heavy_stale` | `heavy/tasks.py:301`, README:180: a re-run overwrites the previous results | alerts of pairs deactivated since stay |
| `heavy_overlap` | README:282 | two runs of one day leave the report of one beside the alerts of the other |
| `seed_stale` | `mock_woocommerce/seed.py:3-5`: the canonical prices in the database match what the mock returns | a price that `data.py` changes stays the old one in the table: `ON CONFLICT DO NOTHING` |

Divergences met while reading and not given a run: README:157 says that the health
log is off the critical path and written "incluso si los upserts fallan", where
`validate_response_health` is the flow's last step (`light/flow.py:51`), after upserts
that raise, so that a batch refused for an unknown sku leaves no health row (`After`,
`ConstraintError`); `heavy/tasks.py:121` says
"closest-in-time" rate where the code (and README:179) uses the rate in force;
`light/tasks.py:4-6` says that the
cache absorbs overlapping runs "without redundant work", where two runs that start
before either has returned both fetch; README:39 and `models.py:150` say "more than 5%" where `light/tasks.py:254`
tests `>=`; README:279 describes a retention step that `heavy/tasks.py:10` says
was removed.

## 4. Proofs

All theorems hold for every value of the constants that satisfies the modules'
named assumptions (`ConstantsOK`, `AnalysisConstants`, `HeavyConstants`,
`CatalogConstants`, `CadenceConstants`, `CadenceSlack`), with any number of runs
and faults. Those of the modules named `Serial` and `Refinement` state the
environment they need as hypotheses.

Light flow (`LightPipelineProofs`):

* `TypeCorrect`: `TypeOK` is inductive. Retries stay within `RETRIES`, and
  a call or a cached record holds results of its own source.
* `WrittenOnce` (`FirstWriteWins`): every table is only ever extended.
* `RowsAreUnique` (`UniqueRows`): the inductive invariant `UniqueInv` adds
  `EventsOnce`, that a run's local list has one event per pair and instant. It is
  needed because the events of one batch do not conflict with the table but could
  with each other; it follows from the baseline's price being a function of the
  pair, which needs `UniqueRows` again.
* `PersistedAlways`, `GroundedAlways`: `StageInv` carries, for each run, what it
  holds in memory along its stages: past the drift check its events compare
  stored snapshots with its own captures (`Detected`), past the snapshots its
  captures are stored (`Persisted`). Both rest on the tables only growing.

* `StepsAlwaysRunOut` (`StepsRunOut`): a step of anyone either leaves a run where it
  is or lowers its variant, the stages before it and then the attempts and
  stages of one of its fetches. That is the part of `RunsEnd` that can be proved: with
  it a run that keeps taking steps ends, for any number of sources and retries;
  that it keeps taking them is fairness, and stays with TLC.

The theorems about events below fall into layers, each with the weakest hypotheses
it holds under:

| what holds of the light flow | needs |
|---|---|
| keys, immutable rows, grounded events, bounded runs (`LightPipelineProofs`) | nothing |
| an event starts from the latest snapshot of its pair (`FromLatestInTurns`), so from the prior value (`PriorInTurns`) | no overlap |
| an event is the step between consecutive snapshots (`BackedWhenSerial`), a replay detects nothing (`ReplayWhenSerial`), the flow implements `LossyMonitor` (`LightImplementsLossyMonitor`), the past is settled (`LightSettles`) | no overlap, durable cache |
| every move is an event (`LightIsExact`), a re-run leaves no move unreported (`RerunsRepairUnlessLost`) | the same, until a database call or a process fails or a move does not fit its column |
| the flow implements `PriceMonitor` (`LightImplementsMonitor`) | the same, and no such failure ever |

Light flow with runs in turn (`LightTurnsProofs`, `Overlap = FALSE` and nothing else: the
cache may be lost at any moment):

* `ControlInv`: one run at most is alive, the others hold nothing, and past the
  fetches all calls are done.
* `FromLatestInTurns` (`EventsFromLatest`). `OrderInv` is about instants alone: all
  that the tables tell of a source, snapshots and events, is no newer than the
  fetch the acting run has in flight or holds (`Ahead`), nor than a record that can
  still be hit (`Behind`). It must speak of fetches in flight because their
  `captured_at` is taken before the request, and of events because a snapshot
  that meets a full minute leaves only its event behind. So a capture is never
  older than the baseline it is compared with, and rows stored later never come
  between.
* `PriorInTurns` (`ComparesWithPrior`): overlap is the only cause of what `light_prior`
  shows.

Light flow with serial runs (`LightSerialProofs`, `Overlap = FALSE` and a durable
cache; HTTP errors, retries, crashes, lost acknowledgements and refused batches
included):

* `BackedWhenSerial` (`EventsBacked`) and `ReplayWhenSerial` (`ReplayIsNoop`). The
  inductive invariant adds two parts to `ControlInv`. `CacheInv`: a completed fetch is
  what the cache holds for its source; every stored snapshot is of the cached fetch or
  of an earlier minute; a fetch in flight began a cache lifetime after everything
  stored, which is where `CACHE_TTL >= MINUTE` is needed. So a capture is stored
  already, and then its own baseline, or newer than all that is stored of its pair
  (`NewerThanStored`). `EventInv`: what a run has detected and not yet written is the
  step between consecutive snapshots once its captures are stored.

Abstract specifications (`PriceMonitorProofs`):

* `MonitorIsExact`: in `PriceMonitor` the reported changes are always exactly the moves
  between consecutive readings.
* `LossyMonitorIsTrue`, `LossyMonitorSettles`: in `LossyMonitor` they are some of them; a
  missed move stays missed, and only changes of the latest readings of their pair can
  still be lost. Both rest on `KeepMoves`: a batch in order adds exactly its own moves
  (`MovesTo`) to the moves there are.

Refinement (`LightRefinementProofs`):

* `LightImplementsLossyMonitor` (`ImplementsLossyMonitor`), for serial runs: the upsert of
  the snapshots maps to `Observe` of the rows it adds when its commit is acknowledged
  and to `Overlook` when it is not; a run that ends with detected changes in hand maps to
  `Forget`, which must not touch what other runs have written, nor more than the last
  batch; every other step stutters. Writing the events stutters because an event whose
  key is taken is the event in the table, for which the refinement needs
  `UniqueRows` as well.
* `LightImplementsMonitor` (`ImplementsMonitor`), with `MaxFaults = 0` and no move too wide
  for `NUMERIC(8,4)`: then `Overlook` and `Forget` do not occur.
* `LightIsExact` (`ExactUnlessLost`) needs neither of the two as an assumption on the
  constants: as long as `Unharmed` holds no change has been lost, and fetches that fail and
  batches refused for an unknown product lose none. `RerunsRepairUnlessLost`
  (`RerunsRepair`) follows: what `light_lost_event` shows needs such a failure.
  `SmoothIsExact` is the case without any.
* `LightSettles` (`PastIsSettled`): `LossyMonitorSettles` carried through the refinement. It
  is the converse of the repair that the code's comments expect: no later run
  brings a lost change back.

Cadence (`FetchCadenceProofs`): `CadenceTypeCorrect`, `EveryTickAlwaysSamples`,
`NeverBlindAlways`, `DayIsAlwaysClosed`, for any number of manual runs and any
durations with the deployment's slack. `CadenceInv` ties the life of the record to
the phase of the cron (a record that a scheduled run has used is gone when
the next run is due) and bounds the time since the last good capture, or the last
trouble, by the age of the record and the step the scheduled run has reached.

Heavy flow (`HeavyPipelineProofs`):

* `HeavyTypeCorrect`: `TypeOK` says that the report is four counts and that an alert
  holds a sum of USD prices, how many they are, one at least, and a severity the
  check constraint admits. It is inductive together with the finiteness of the
  snapshots, stored and loaded (`TypeInv`), without which neither a sum nor a count
  has a type: that there are no more alerts than snapshots (`ClassifiedFinite`) types the
  report, and `SumBounds` the sums.
* `SeverityAlwaysFits` (`SeverityFits`): a row that the database admits has a severity
  that fits its own average (`ThresholdsFit`), also at a canonical price of 0, where an
  infinite drift is refused, and an upsert replaces a row whole.
* `AverageBetween`: the mean of a pair lies between any bounds of the prices of its
  group. The sum is a fold over a finite set; what it computes is proved from the
  library's well-foundedness of the naturals, as an induction by least
  counterexample: first that the sums of all subsets exist (`SumExists`), then
  what they satisfy (`SumBounds`).
* `AlertsAlwaysGrounded`: `GroundedInv` adds that what a run has loaded is part
  of the raw tables (`Loaded`), which only grow. `CatalogOnlySelects`
  says that the catalogue chooses which pairs are analysed and against which
  price, which the alert names, and never how, so a run that read the catalogue
  between two edits still writes grounded alerts.
* `RatesAlwaysSettle`: from `LaterRatesIgnored`, about the rate lookup alone.
* `RateInForce`: what `FxRowFor` chooses exists and is the rate in force, else
  the first of the day, of the store's own currency. It needs a least
  element in a set of instants that may be infinite (`LeastOf`).
* `CaptureAlwaysAccepted`: about the catalogue, from what `InsertNew` keeps and adds.

Heavy flow with serial runs (`HeavySerialProofs`, `Overlap = FALSE`):

* `NeverForgetsWhenSerial` (`NeverForgets`), `LeftoversExplainedWhenSerial`
  (`LeftoversExplained`) and `ReportMatchesWhenSerial` (`ReportMatchesAlerts`). The invariant says that one run at most is alive
  (`OneAlive`), that an alert counts snapshots that are stored and whose currency has
  a rate (`Backed`), that the run alive has read no fewer than any alert was made of
  (`Abreast`), and that past its first transaction the report is its own
  (`OwnReport`). A run therefore classifies every pair of an earlier alert that its
  catalogue still has, from at least as many snapshots, and replaces it: what
  `heavy_stale` shows is confined to pairs that the catalogue has lost
  (`LeftoverOutOfCatalogue`). Those pairs are what `NeverForgets` leaves open: the
  documents say that their alerts are replaced, the code keeps them.

Model-checked only: liveness under fairness (`RunsEnd`, `FetchedIsStored`,
`KeepsSampling`), which is outside the prover's reach.

## 5. Not modelled

The migrations environment (pure I/O); of the deployment scripts all but the cron
schedules; of the compose files and the proxy all but the missing volume of the
result storage; the mock's noise around its base prices (any prices, in the light
flow's environment) and its HTTP layer, which keeps no state; HTTP client
construction, settings parsing and logging; the engine and session singletons (one
connection at a time per process); columns no property tells apart; the rounding of
doubles and of NUMERIC. `PROJECT.json` lists each part with the reason.

## 6. Plan

1. Done: light flow, abstract monitors and refinement, heavy flow, catalogue and
   cadence, each with its runs; every safety property the passing runs check is
   proved, and the light flow's under the weakest hypotheses found.
2. Next, composition of the two flows over shared raw tables: `DayIsClosed` shows that
   no run that is on time misses the 03:00 read, and what a run that overstays its
   `RUNTIME` costs the report is not modelled.
3. Rounding: `pct_change` and `drift_pct` go through doubles and four decimals, and
   whether a drift next to a threshold keeps its severity is not modelled.
