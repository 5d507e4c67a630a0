--------------------------- MODULE LightPipeline ---------------------------
(***************************************************************************)
(* The light flow (src/pipelines/light): several runs of light_price_sync, *)
(* the Prefect result cache they share, the HTTP services they call and    *)
(* the four raw tables of the app schema they write, one transaction each. *)
(*                                                                         *)
(* A snapshot row and an FX row have the same shape: src is the store (or  *)
(* FX, standing for base_currency), item the sku (or quote_currency), val  *)
(* the local price (or rate) and at the captured_at instant.  now counts   *)
(* clock ticks; captured_minute is the tick divided by MINUTE.             *)
(***************************************************************************)
EXTENDS Integers

CONSTANTS
    Runs,                \* flow runs: cron ticks and manual triggers
    STORE_IDS, FX,       \* the fetched sources: the stores, the FX provider
    SKUS, Catalog,       \* skus a store may list; those in app.products
    QUOTE_CURRENCIES,
    PRICES, RATES,
    PRODUCT_LISTS,       \* the answers a store may give: sku -> price
    RATE_TABLES,         \* the answers the FX provider may give
    drift_threshold_pct,
    PCT_LIMIT,           \* NUMERIC(8,4) holds |pct_change| below this
    RETRIES,             \* retries=2 of the fetch tasks
    CACHE_TTL, MINUTE,   \* in clock ticks
    Overlap,             \* may two runs be alive at once?
    CacheDurable,        \* does the result storage outlive the runs?
    MaxTime, MaxFaults   \* bounds: the clock, and injected faults

Sources == STORE_IDS \cup {FX}

ASSUME ConstantsOK ==
    /\ FX \notin STORE_IDS
    /\ Catalog \subseteq SKUS
    /\ PRICES \subseteq Nat
    /\ RATES \subseteq Nat
    /\ PRODUCT_LISTS \subseteq UNION {[S -> PRICES] : S \in SUBSET SKUS}
    /\ RATE_TABLES \subseteq UNION {[Q -> RATES] : Q \in SUBSET QUOTE_CURRENCIES}
    /\ drift_threshold_pct \in Nat \ {0}
    /\ PCT_LIMIT \in Nat
    /\ RETRIES \in Nat
    /\ MINUTE \in Nat \ {0}
    /\ CACHE_TTL \in Nat /\ CACHE_TTL >= MINUTE
    /\ Overlap \in BOOLEAN
    /\ CacheDurable \in BOOLEAN
    /\ MaxTime \in Nat
    /\ MaxFaults \in Nat

VARIABLES
    now,                  \* the clock
    pc,                   \* where each run's light_price_sync stands
    call,                 \* each run's fetch task for each source
    cache,                \* Prefect's result storage, one key per source
    events,               \* each run's local list of detected changes
    price_snapshots, fx_rates, price_change_events, api_health_log,
    faults                \* faults injected so far

tables == <<price_snapshots, fx_rates, price_change_events, api_health_log>>
vars == <<now, pc, call, cache, events, tables, faults>>

-----------------------------------------------------------------------------
(* Fetch results and table rows. *)

NoItems == [i \in {} |-> 0]

Payload(k) == IF k = FX THEN RATE_TABLES ELSE PRODUCT_LISTS

\* StoreFetchResult and FXFetchResult: error is set exactly when ok is FALSE.
FetchResult(k) == [at : Nat, ok : BOOLEAN, items : Payload(k) \cup {NoItems}]

Failure(t) == [at |-> t, ok |-> FALSE, items |-> NoItems]

NotCached == [until |-> 0, res |-> Failure(0)]

NoCalls == [k \in Sources |-> [st |-> "todo", tries |-> 0, res |-> Failure(0)]]

Minute(t) == t \div MINUTE

Rows(k, res) ==
    {[src |-> k, item |-> i, val |-> res.items[i], at |-> res.at]
        : i \in DOMAIN res.items}

Captures(r) == UNION {Rows(s, call[r][s].res) : s \in STORE_IDS}
FxRows(r)   == Rows(FX, call[r][FX].res)

\* Faulty unique keys: the full instant, or no time at all.
RowKeyByInstant(row) == <<row.src, row.item, row.at>>
RowKeyByItem(row)    == <<row.src, row.item>>

\* pk_price_snapshots and pk_fx_rates; uq_price_change_events.
RowKey(row) == <<row.src, row.item, Minute(row.at)>>
EventKey(e) == <<e.src, e.item, e.at>>

\* A faulty upsert: ON CONFLICT (...) DO UPDATE.
OverwriteRows(table, rows) ==
    {old \in table : \A row \in rows : RowKey(old) # RowKey(row)} \cup rows

\* INSERT ... ON CONFLICT (...) DO NOTHING
InsertRows(table, rows) ==
    table \cup {row \in rows : \A old \in table : RowKey(old) # RowKey(row)}
InsertEvents(table, evs) ==
    table \cup {e \in evs : \A old \in table : EventKey(old) # EventKey(e)}

-----------------------------------------------------------------------------
(* Drift detection against the latest persisted snapshot. *)

Abs(n) == IF n < 0 THEN -n ELSE n

Moved(prev, new) ==
    prev # 0 /\ Abs(new - prev) * 100 >= drift_threshold_pct * prev

\* A faulty baseline: ORDER BY captured_at ASC.
IsOldest(b, c) ==
    /\ b.src = c.src /\ b.item = c.item
    /\ \A o \in price_snapshots :
          o.src = c.src /\ o.item = c.item => o.at >= b.at

\* SELECT DISTINCT ON (store_id, sku) ... ORDER BY captured_at DESC
IsBaseline(b, c) ==
    /\ b.src = c.src /\ b.item = c.item
    /\ \A o \in price_snapshots :
          o.src = c.src /\ o.item = c.item => o.at <= b.at

Change(b, c) == [src |-> c.src, item |-> c.item,
                 prev |-> b.val, new |-> c.val, at |-> c.at]

DetectedChanges(r) ==
    {Change(p[1], p[2]) : p \in
        {q \in price_snapshots \X Captures(r) :
            IsBaseline(q[1], q[2]) /\ Moved(q[1].val, q[2].val)}}

Overflows(e) == Abs(e.new - e.prev) * 100 >= PCT_LIMIT * e.prev

-----------------------------------------------------------------------------
(* The flow: the order of its steps and how a step can end. *)

Alive(r) == pc[r] \notin {"idle", "done", "dead"}

\* Faulty orders: events before the snapshots they compare; the drift check
\* after the snapshots it must precede.
AfterEventsFirst(stage) ==
    CASE stage = "fetch"     -> "drift"
      [] stage = "drift"     -> "events"
      [] stage = "events"    -> "snapshots"
      [] stage = "snapshots" -> "fx"
      [] stage = "fx"        -> "health"

AfterDriftLate(stage) ==
    CASE stage = "fetch"     -> "snapshots"
      [] stage = "snapshots" -> "drift"
      [] stage = "drift"     -> "fx"
      [] stage = "fx"        -> "events"
      [] stage = "events"    -> "health"

After(stage) ==
    CASE stage = "fetch"     -> "drift"
      [] stage = "drift"     -> "snapshots"
      [] stage = "snapshots" -> "fx"
      [] stage = "fx"        -> "events"
      [] stage = "events"    -> "health"

Advance(r) == pc' = [pc EXCEPT ![r] = After(pc[r])] /\ UNCHANGED faults

Fault == faults < MaxFaults /\ faults' = faults + 1

Fail(r) == pc' = [pc EXCEPT ![r] = "failed"]

\* The run's process is gone, and all it held in memory.
End(r, how) ==
    /\ pc' = [pc EXCEPT ![r] = how]
    /\ call' = [call EXCEPT ![r] = NoCalls]
    /\ events' = [events EXCEPT ![r] = {}]

\* db_session's commit: acknowledged, or done by the server and its
\* acknowledgement lost, which the flow sees as an exception.
Commit(r) == Advance(r) \/ (Fault /\ Fail(r))

-----------------------------------------------------------------------------
Init ==
    /\ now = 0
    /\ pc = [r \in Runs |-> "idle"]
    /\ call = [r \in Runs |-> NoCalls]
    /\ cache = [k \in Sources |-> NotCached]
    /\ events = [r \in Runs |-> {}]
    /\ price_snapshots = {} /\ fx_rates = {}
    /\ price_change_events = {} /\ api_health_log = {}
    /\ faults = 0

\* The worker starts a scheduled or manually triggered run.
Trigger(r) ==
    /\ pc[r] = "idle"
    /\ Overlap \/ \A q \in Runs : ~Alive(q)
    /\ pc' = [pc EXCEPT ![r] = "fetch"]
    /\ UNCHANGED <<now, call, cache, events, tables, faults>>

\* The fetch tasks run inside asyncio.gather; when one raises, the others
\* keep running until the failed flow's process exits.
Fetching(r) == pc[r] \in {"fetch", "failed"}

SetCall(r, k, st, tries, res) ==
    call' = [call EXCEPT ![r][k] = [st |-> st, tries |-> tries, res |-> res]]

CacheHit(r, k) ==
    /\ Fetching(r) /\ call[r][k].st = "todo"
    /\ now < cache[k].until
    /\ SetCall(r, k, "done", call[r][k].tries, cache[k].res)
    /\ UNCHANGED <<now, pc, cache, events, tables, faults>>

StartFetch(r, k) ==
    /\ Fetching(r) /\ call[r][k].st = "todo"
    /\ now >= cache[k].until
    /\ SetCall(r, k, "calling", call[r][k].tries, Failure(now))
    /\ UNCHANGED <<now, pc, cache, events, tables, faults>>

\* The task returns: Prefect stores the result, errors included, and its
\* cache_expiration counts from the end of the fetch.
Return(r, k, res) ==
    /\ Fetching(r) /\ call[r][k].st = "calling"
    /\ SetCall(r, k, "done", call[r][k].tries, res)
    /\ cache' = [cache EXCEPT ![k] = [until |-> now + CACHE_TTL, res |-> res]]
    /\ UNCHANGED <<now, pc, events, tables, faults>>

Respond(r, k) ==
    \E items \in Payload(k) :
        Return(r, k, [at |-> call[r][k].res.at, ok |-> TRUE, items |-> items])

HttpError(r, k) == Return(r, k, call[r][k].res)

\* Faulty retries: one too many; never counted.
RaiseErrorOneMore(r, k) ==
    /\ Fetching(r) /\ call[r][k].st = "calling"
    /\ \/ /\ call[r][k].tries <= RETRIES
          /\ SetCall(r, k, "todo", call[r][k].tries + 1, call[r][k].res)
          /\ UNCHANGED pc
       \/ /\ call[r][k].tries > RETRIES
          /\ SetCall(r, k, "raised", call[r][k].tries, call[r][k].res)
          /\ Fail(r)
    /\ UNCHANGED <<now, cache, events, tables, faults>>

RaiseErrorForever(r, k) ==
    /\ Fetching(r) /\ call[r][k].st = "calling"
    /\ SetCall(r, k, "todo", call[r][k].tries, call[r][k].res)
    /\ UNCHANGED <<now, pc, cache, events, tables, faults>>

\* Any other exception (a body that is not JSON, a rate that is no number)
\* escapes the task: Prefect retries it, then gather raises into the flow.
RaiseError(r, k) ==
    /\ Fetching(r) /\ call[r][k].st = "calling"
    /\ \/ /\ call[r][k].tries < RETRIES
          /\ SetCall(r, k, "todo", call[r][k].tries + 1, call[r][k].res)
          /\ UNCHANGED pc
       \/ /\ call[r][k].tries = RETRIES
          /\ SetCall(r, k, "raised", call[r][k].tries, call[r][k].res)
          /\ Fail(r)
    /\ UNCHANGED <<now, cache, events, tables, faults>>

Gathered(r) ==
    /\ pc[r] = "fetch"
    /\ \A k \in Sources : call[r][k].st = "done"
    /\ Advance(r)
    /\ UNCHANGED <<now, call, cache, events, tables>>

quick_drift_check(r) ==
    /\ pc[r] = "drift"
    /\ events' = [events EXCEPT ![r] = DetectedChanges(r)]
    /\ Advance(r)
    /\ UNCHANGED <<now, call, cache, tables>>

upsert_raw_snapshots(r) ==
    /\ pc[r] = "snapshots"
    /\ \A c \in Captures(r) : c.item \in Catalog
    /\ price_snapshots' = InsertRows(price_snapshots, Captures(r))
    /\ IF Captures(r) = {} THEN Advance(r) ELSE Commit(r)
    /\ UNCHANGED <<now, call, cache, events,
                   fx_rates, price_change_events, api_health_log>>

upsert_raw_fx(r) ==
    /\ pc[r] = "fx"
    /\ fx_rates' = InsertRows(fx_rates, FxRows(r))
    /\ IF FxRows(r) = {} THEN Advance(r) ELSE Commit(r)
    /\ UNCHANGED <<now, call, cache, events,
                   price_snapshots, price_change_events, api_health_log>>

upsert_change_events(r) ==
    /\ pc[r] = "events"
    /\ \A e \in events[r] : ~Overflows(e)
    /\ price_change_events' = InsertEvents(price_change_events, events[r])
    /\ IF events[r] = {} THEN Advance(r) ELSE Commit(r)
    /\ UNCHANGED <<now, call, cache, events,
                   price_snapshots, fx_rates, api_health_log>>

\* One row per store and run (its log_id is fresh); none for the FX provider.
validate_response_health(r) ==
    /\ pc[r] = "health"
    /\ api_health_log' = api_health_log \cup
          {[run |-> r, src |-> s, ok |-> call[r][s].res.ok, at |-> call[r][s].res.at]
              : s \in STORE_IDS}
    /\ \/ End(r, "done") /\ UNCHANGED faults
       \/ Fault /\ Fail(r) /\ UNCHANGED <<call, events>>
    /\ UNCHANGED <<now, cache, price_snapshots, fx_rates, price_change_events>>

\* The database refuses the whole batch: a sku that is not in app.products,
\* a pct_change that NUMERIC(8,4) cannot hold.
ConstraintError(r) ==
    /\ \/ pc[r] = "snapshots" /\ \E c \in Captures(r) : c.item \notin Catalog
       \/ pc[r] = "events" /\ \E e \in events[r] : Overflows(e)
    /\ Fail(r)
    /\ UNCHANGED <<now, call, cache, events, tables, faults>>

\* A database call that fails is rolled back; the exception ends the flow.
\* A task with nothing to read or write does not call the database.
DbError(r) ==
    /\ \/ pc[r] \in {"drift", "snapshots"} /\ Captures(r) # {}
       \/ pc[r] = "fx" /\ FxRows(r) # {}
       \/ pc[r] = "events" /\ events[r] # {}
       \/ pc[r] = "health"
    /\ Fault /\ Fail(r)
    /\ UNCHANGED <<now, call, cache, events, tables>>

\* The process of a failed flow exits, cancelling what gather left running.
Exit(r) ==
    /\ pc[r] = "failed"
    /\ End(r, "dead")
    /\ UNCHANGED <<now, cache, tables, faults>>

\* The process dies at any point.
Crash(r) ==
    /\ Alive(r)
    /\ Fault
    /\ End(r, "dead")
    /\ UNCHANGED <<now, cache, tables>>

\* The worker container is recreated; its result storage is on no volume.
LoseCache ==
    /\ ~CacheDurable
    /\ Fault
    /\ cache' = [k \in Sources |-> NotCached]
    /\ UNCHANGED <<now, pc, call, events, tables>>

Tick ==
    /\ now < MaxTime
    /\ now' = now + 1
    /\ UNCHANGED <<pc, call, cache, events, tables, faults>>

\* What the run's process does by itself.
FetchStep(r, k) ==
    \/ CacheHit(r, k) \/ StartFetch(r, k)
    \/ Respond(r, k) \/ HttpError(r, k) \/ RaiseError(r, k)

FlowStep(r) ==
    \/ Gathered(r) \/ quick_drift_check(r)
    \/ upsert_raw_snapshots(r) \/ upsert_raw_fx(r)
    \/ upsert_change_events(r) \/ validate_response_health(r)
    \/ ConstraintError(r) \/ Exit(r)

RunStep(r) == FlowStep(r) \/ \E k \in Sources : FetchStep(r, k)

Next ==
    \/ \E r \in Runs : Trigger(r) \/ RunStep(r) \/ DbError(r) \/ Crash(r)
    \/ LoseCache
    \/ Tick

Spec == Init /\ [][Next]_vars

\* Every HTTP call ends within http_timeout_s and every database call answers,
\* so a live process always takes its next step.
FairSpec == Spec /\ \A r \in Runs : WF_vars(RunStep(r))

-----------------------------------------------------------------------------
(* Properties. *)

Stages == {"idle", "fetch", "drift", "snapshots", "fx", "events", "health",
           "done", "failed", "dead"}

AnyResult == [at : Nat, ok : BOOLEAN,
              items : PRODUCT_LISTS \cup RATE_TABLES \cup {NoItems}]

Call == [st : {"todo", "calling", "done", "raised"},
         tries : 0..RETRIES,
         res : AnyResult]

SnapshotRow == [src : STORE_IDS, item : SKUS, val : PRICES, at : Nat]
FxRow       == [src : {FX}, item : QUOTE_CURRENCIES, val : RATES, at : Nat]
Event       == [src : STORE_IDS, item : SKUS, prev : PRICES, new : PRICES, at : Nat]
HealthRow   == [run : Runs, src : STORE_IDS, ok : BOOLEAN, at : Nat]

\* Every variable has its type: in particular no fetch task is attempted more
\* than RETRIES times again, and a call or a record holds results of its source.
TypeOK ==
    /\ now \in 0..MaxTime
    /\ faults \in 0..MaxFaults
    /\ pc \in [Runs -> Stages]
    /\ call \in [Runs -> [Sources -> Call]]
    /\ cache \in [Sources -> [until : Nat, res : AnyResult]]
    /\ \A k \in Sources :
          /\ cache[k].res \in FetchResult(k)
          /\ \A r \in Runs : call[r][k].res \in FetchResult(k)
    /\ events \in [Runs -> SUBSET Event]
    /\ price_snapshots \subseteq SnapshotRow
    /\ fx_rates \subseteq FxRow
    /\ price_change_events \subseteq Event
    /\ api_health_log \subseteq HealthRow

SameBucket(a, b) ==
    a.src = b.src /\ a.item = b.item /\ Minute(a.at) = Minute(b.at)

\* However runs overlap, crash and retry, the raw tables hold one price and one
\* rate per pair and minute, and one event per pair and instant.
UniqueRows ==
    /\ \A a, b \in price_snapshots : SameBucket(a, b) => a = b
    /\ \A a, b \in fx_rates : SameBucket(a, b) => a = b
    /\ \A a, b \in price_change_events :
          a.src = b.src /\ a.item = b.item /\ a.at = b.at => a = b

Persisted(r) ==
    /\ pc[r] \in {"fx", "events", "health"} =>
          \A c \in Captures(r) : \E o \in price_snapshots : SameBucket(o, c)
    /\ pc[r] \in {"events", "health"} =>
          \A f \in FxRows(r) : \E o \in fx_rates : SameBucket(o, f)
    /\ pc[r] = "health" =>
          \A e \in events[r] : \E o \in price_change_events :
              o.src = e.src /\ o.item = e.item /\ o.at = e.at
    /\ pc[r] = "done" =>
          \A s \in STORE_IDS : \E h \in api_health_log : h.run = r /\ h.src = s

\* light_price_sync persists before it moves on: past an upsert, every row of
\* its batch has its bucket in the table, whoever wrote it, and a finished run
\* has left a health row for every store.
PersistedByStage == \A r \in Runs : Persisted(r)

\* No interleaving reports a change out of thin air: an event's old price is a
\* stored snapshot of the pair, its new price moved past the threshold from it,
\* and a snapshot fills the bucket of the capture that raised it.
EventsGrounded ==
    \A e \in price_change_events :
        /\ Moved(e.prev, e.new)
        /\ \E b \in price_snapshots :
              b.src = e.src /\ b.item = e.item /\ b.val = e.prev
        /\ \E o \in price_snapshots : SameBucket(o, e)

\* Raw rows are written once: no run, however late, retried or stale, removes
\* or rewrites a row of the four tables (ON CONFLICT DO NOTHING).
FirstWriteWins ==
    [][ /\ price_snapshots \subseteq price_snapshots'
        /\ fx_rates \subseteq fx_rates'
        /\ price_change_events \subseteq price_change_events'
        /\ api_health_log \subseteq api_health_log' ]_tables

\* b and c are consecutive snapshots of one pair, b before c.
Consecutive(b, c) ==
    /\ b \in price_snapshots /\ c \in price_snapshots
    /\ b.src = c.src /\ b.item = c.item /\ b.at < c.at
    /\ \A o \in price_snapshots :
          o.src = c.src /\ o.item = c.item => o.at <= b.at \/ o.at >= c.at

\* When runs do not overlap and the result cache outlives them, an event is
\* exactly the step between two consecutive snapshots, even over cache hits,
\* failures and crashes.
EventsBacked ==
    \A e \in price_change_events :
        \E b, c \in price_snapshots :
            Consecutive(b, c) /\ Moved(b.val, c.val) /\ e = Change(b, c)

\* When runs do not overlap, whatever is lost, the result cache included, an
\* event starts from the latest snapshot of its pair at its time: no snapshot is
\* ever stored behind it, and none captured before it was passed over.
EventsFromLatest ==
    \A e \in price_change_events : \E b \in price_snapshots :
        /\ b.src = e.src /\ b.item = e.item /\ b.val = e.prev /\ b.at <= e.at
        /\ \A o \in price_snapshots :
              o.src = e.src /\ o.item = e.item => o.at <= b.at \/ o.at >= e.at

\* When runs do not overlap, a re-trigger served from the cache, whose captures
\* are stored already, detects nothing (README, "Idempotencia").
ReplayIsNoop ==
    [][ \A r \in Runs :
          quick_drift_check(r) /\ Captures(r) \subseteq price_snapshots
              => events'[r] = {} ]_vars

\* No run hangs: retries are bounded, so a triggered run finishes or fails.
RunsEnd == \A r \in Runs : Alive(r) ~> ~Alive(r)

StagesLeft == [idle |-> 8, fetch |-> 7, drift |-> 6, snapshots |-> 5, fx |-> 4,
               events |-> 3, health |-> 2, failed |-> 1, done |-> 0, dead |-> 0]

AttemptsLeft(c) ==
    3 * (RETRIES - c.tries) + [todo |-> 2, calling |-> 1, done |-> 0, raised |-> 0][c.st]

Spends(r) ==
    \/ StagesLeft[pc'[r]] < StagesLeft[pc[r]]
    \/ /\ pc'[r] = pc[r]
       /\ \E k \in Sources :
             /\ AttemptsLeft(call'[r][k]) < AttemptsLeft(call[r][k])
             /\ \A j \in Sources \ {k} : call'[r][j] = call[r][j]

\* Why no run hangs: whatever happens to the others, to the cache and to the
\* database, a step either leaves a run where it is or uses up one of its stages
\* or of the attempts of one of its fetches, and gives nothing back.
StepsRunOut ==
    [][ \A r \in Runs : Spends(r) \/ UNCHANGED <<pc[r], call[r], events[r]>> ]_vars

\* With no fault, what the fetches returned always reaches the tables.
FetchedIsStored ==
    \A r \in Runs, t \in 0..MaxTime :
        (pc[r] = "drift" /\ \E c \in Captures(r) : c.at = t)
            ~> (\E o \in price_snapshots : Minute(o.at) = Minute(t))

-----------------------------------------------------------------------------
(* What the repository says of the flow and the code does not do. *)

\* flow.py: "Idempotent persistence. Order is independent because tables are
\* disjoint"; README: either pipeline can be triggered N times without risk.
\* So a run that gets past its upserts, whatever earlier runs left half done,
\* leaves every move up to its captures reported.
RerunsRepair ==
    \A r \in Runs : pc[r] = "health" =>
        \A b \in price_snapshots, c \in Captures(r) :
            Consecutive(b, c) /\ Moved(b.val, c.val)
                => Change(b, c) \in price_change_events

\* quick_drift_check: it runs before the snapshot upsert "so the comparison sees
\* the prior value": an event's old price was not captured after its new one.
ComparesWithPrior ==
    \A e \in price_change_events : \E b \in price_snapshots :
        b.src = e.src /\ b.item = e.item /\ b.val = e.prev /\ b.at <= e.at

=============================================================================
