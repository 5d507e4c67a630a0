------------------------ MODULE LightPipelineProofs ------------------------
(***************************************************************************)
(* Proofs about the light flow, for any runs, stores, skus, prices, cache  *)
(* lifetime, clock and number of faults, overlapping or not.               *)
(***************************************************************************)
EXTENDS LightPipeline, TLAPS

USE DEF Sources

-----------------------------------------------------------------------------
(* The types of what the helpers return. *)

\* The captures of a store are well-formed snapshot rows.
LEMMA RowsType ==
    ASSUME NEW s \in STORE_IDS, NEW res \in FetchResult(s)
    PROVE  Rows(s, res) \subseteq SnapshotRow
<1>1. Payload(s) = PRODUCT_LISTS
  BY ConstantsOK DEF Payload
<1>2. res.at \in Nat /\ res.items \in PRODUCT_LISTS \cup {NoItems}
  BY <1>1 DEF FetchResult
<1>3. ASSUME NEW i \in DOMAIN res.items
      PROVE  i \in SKUS /\ res.items[i] \in PRICES
  <2>1. CASE res.items = NoItems
    BY <1>3, <2>1 DEF NoItems
  <2>2. CASE res.items \in PRODUCT_LISTS
    <3>1. PICK S \in SUBSET SKUS : res.items \in [S -> PRICES]
      BY <2>2, ConstantsOK
    <3> QED BY <1>3, <3>1
  <2> QED BY <1>2, <2>1, <2>2
<1> QED BY <1>2, <1>3 DEF Rows, SnapshotRow

\* The rates of the FX provider are well-formed rate rows.
LEMMA FxRowsType ==
    ASSUME NEW res \in FetchResult(FX)
    PROVE  Rows(FX, res) \subseteq FxRow
<1>1. res.at \in Nat /\ res.items \in RATE_TABLES \cup {NoItems}
  BY DEF FetchResult, Payload
<1>2. ASSUME NEW i \in DOMAIN res.items
      PROVE  i \in QUOTE_CURRENCIES /\ res.items[i] \in RATES
  <2>1. CASE res.items = NoItems
    BY <1>2, <2>1 DEF NoItems
  <2>2. CASE res.items \in RATE_TABLES
    <3>1. PICK Q \in SUBSET QUOTE_CURRENCIES : res.items \in [Q -> RATES]
      BY <2>2, ConstantsOK
    <3> QED BY <1>2, <3>1
  <2> QED BY <1>1, <2>1, <2>2
<1> QED BY <1>1, <1>2 DEF Rows, FxRow

\* An empty result is a result of every source.
LEMMA FailureType ==
    ASSUME NEW k \in Sources, NEW t \in Nat
    PROVE  Failure(t) \in FetchResult(k) /\ Failure(t) \in AnyResult
BY DEF Failure, FetchResult, AnyResult

\* A result of one source is a result.
LEMMA ResultType ==
    ASSUME NEW k \in Sources, NEW res \in FetchResult(k)
    PROVE  res \in AnyResult
BY DEF FetchResult, AnyResult, Payload

LEMMA CapturesType ==
    ASSUME TypeOK, NEW r \in Runs
    PROVE  Captures(r) \subseteq SnapshotRow /\ FxRows(r) \subseteq FxRow
<1>1. \A s \in STORE_IDS : Rows(s, call[r][s].res) \subseteq SnapshotRow
  BY RowsType DEF TypeOK
<1>2. Rows(FX, call[r][FX].res) \subseteq FxRow
  BY FxRowsType DEF TypeOK
<1> QED BY <1>1, <1>2 DEF Captures, FxRows

\* A detected change is a well-formed event.
LEMMA DetectedType ==
    ASSUME TypeOK, NEW r \in Runs
    PROVE  DetectedChanges(r) \subseteq Event
<1>1. ASSUME NEW b \in price_snapshots, NEW c \in Captures(r)
      PROVE  Change(b, c) \in Event
  BY CapturesType DEF TypeOK, SnapshotRow, Change, Event
<1> QED BY <1>1 DEF DetectedChanges

-----------------------------------------------------------------------------
(* Type correctness. *)

LEMMA InitType == Init => TypeOK
<1> SUFFICES ASSUME Init PROVE TypeOK
  OBVIOUS
<1>1. NoCalls \in [Sources -> Call]
  BY FailureType, ConstantsOK DEF NoCalls, Call
<1>2. NotCached \in [until : Nat, res : AnyResult]
  BY FailureType DEF NotCached
<1> QED
  BY <1>1, <1>2, FailureType, ConstantsOK
  DEF Init, TypeOK, Stages, NoCalls, NotCached

\* The part of the type invariant that a fetch task can disturb.
CallsTyped ==
    /\ call \in [Runs -> [Sources -> Call]]
    /\ cache \in [Sources -> [until : Nat, res : AnyResult]]
    /\ \A k \in Sources :
          /\ cache[k].res \in FetchResult(k)
          /\ \A r \in Runs : call[r][k].res \in FetchResult(k)

\* Moving a task on keeps the types.
LEMMA SetCallType ==
    ASSUME TypeOK, NEW r \in Runs, NEW k \in Sources,
           NEW st \in {"todo", "calling", "done", "raised"},
           NEW tries \in 0..RETRIES, NEW res \in FetchResult(k),
           SetCall(r, k, st, tries, res)
    PROVE  /\ call' \in [Runs -> [Sources -> Call]]
           /\ \A j \in Sources, q \in Runs : call'[q][j].res \in FetchResult(j)
<1> DEFINE rec == [st |-> st, tries |-> tries, res |-> res]
<1>1. rec \in Call
  BY ResultType DEF Call
<1>2. call \in [Runs -> [Sources -> Call]] /\ call' = [call EXCEPT ![r][k] = rec]
  BY DEF TypeOK, SetCall
<1>3. call' \in [Runs -> [Sources -> Call]]
  <2> HIDE DEF rec
  <2> QED BY <1>1, <1>2
<1>4. \A j \in Sources, q \in Runs :
         call'[q][j] = IF q = r /\ j = k THEN rec ELSE call[q][j]
  <2> HIDE DEF rec
  <2> QED BY <1>2
<1>5. ASSUME NEW j \in Sources, NEW q \in Runs
      PROVE  call'[q][j].res \in FetchResult(j)
  <2>1. CASE q = r /\ j = k
    BY <1>4, <2>1
  <2>2. CASE ~(q = r /\ j = k)
    BY <1>4, <2>2 DEF TypeOK
  <2> QED BY <2>1, <2>2
<1> QED BY <1>3, <1>5

\* A task returns a well-formed result.
LEMMA ReturnType ==
    ASSUME TypeOK, NEW r \in Runs, NEW k \in Sources,
           NEW res \in FetchResult(k), Return(r, k, res)
    PROVE  CallsTyped'
<1>1. now + CACHE_TTL \in Nat /\ res \in AnyResult
  BY ResultType, ConstantsOK DEF TypeOK
<1>2. call[r][k].tries \in 0..RETRIES
  BY DEF TypeOK, Call
<1>3. /\ call' \in [Runs -> [Sources -> Call]]
      /\ \A j \in Sources, q \in Runs : call'[q][j].res \in FetchResult(j)
  BY <1>2, SetCallType DEF Return
<1>4. /\ cache' \in [Sources -> [until : Nat, res : AnyResult]]
      /\ \A j \in Sources : cache'[j].res \in FetchResult(j)
  BY <1>1 DEF Return, TypeOK
<1> QED BY <1>3, <1>4 DEF CallsTyped

\* The fetch tasks keep the types of the calls and the cache.
LEMMA FetchType ==
    ASSUME TypeOK, NEW r \in Runs, NEW k \in Sources, FetchStep(r, k)
    PROVE  CallsTyped'
<1>0. /\ call[r][k].tries \in 0..RETRIES
      /\ call[r][k].res \in FetchResult(k) /\ cache[k].res \in FetchResult(k)
  BY DEF TypeOK, Call
<1>1. CASE CacheHit(r, k)
  BY <1>0, <1>1, SetCallType DEF CacheHit, TypeOK, CallsTyped
<1>2. CASE StartFetch(r, k)
  <2>1. Failure(now) \in FetchResult(k)
    BY FailureType DEF TypeOK
  <2> QED BY <1>0, <1>2, <2>1, SetCallType DEF StartFetch, TypeOK, CallsTyped
<1>3. CASE Respond(r, k)
  <2>1. PICK items \in Payload(k) :
           Return(r, k, [at |-> call[r][k].res.at, ok |-> TRUE, items |-> items])
    BY <1>3 DEF Respond
  <2>2. [at |-> call[r][k].res.at, ok |-> TRUE, items |-> items] \in FetchResult(k)
    BY <1>0 DEF FetchResult
  <2> QED BY <2>1, <2>2, ReturnType
<1>4. CASE HttpError(r, k)
  BY <1>0, <1>4, ReturnType DEF HttpError
<1>5. CASE RaiseError(r, k)
  <2>1. CASE /\ call[r][k].tries < RETRIES
             /\ SetCall(r, k, "todo", call[r][k].tries + 1, call[r][k].res)
    <3>1. call[r][k].tries + 1 \in 0..RETRIES
      BY <1>0, <2>1, ConstantsOK
    <3> QED BY <1>0, <1>5, <2>1, <3>1, SetCallType DEF RaiseError, TypeOK, CallsTyped
  <2>2. CASE SetCall(r, k, "raised", call[r][k].tries, call[r][k].res)
    BY <1>0, <1>5, <2>2, SetCallType DEF RaiseError, TypeOK, CallsTyped
  <2> QED BY <1>5, <2>1, <2>2 DEF RaiseError
<1> QED BY <1>1, <1>2, <1>3, <1>4, <1>5 DEF FetchStep

\* What is left of a run whose process is gone.
LEMMA EndType ==
    ASSUME TypeOK, NEW r \in Runs, NEW how \in {"done", "dead"}, End(r, how)
    PROVE  /\ pc' \in [Runs -> Stages]
           /\ call' \in [Runs -> [Sources -> Call]]
           /\ \A k \in Sources, q \in Runs : call'[q][k].res \in FetchResult(k)
           /\ events' \in [Runs -> SUBSET Event]
<1>1. NoCalls \in [Sources -> Call]
  BY FailureType, ConstantsOK DEF NoCalls, Call
<1>2. \A k \in Sources : NoCalls[k].res \in FetchResult(k)
  BY FailureType DEF NoCalls
<1> QED BY <1>1, <1>2 DEF End, TypeOK, Stages

\* An upsert leaves the flow at a stage.
LEMMA CommitType ==
    ASSUME TypeOK, NEW r \in Runs, pc[r] \in {"snapshots", "fx", "events"},
           Advance(r) \/ Commit(r)
    PROVE  pc' \in [Runs -> Stages] /\ faults' \in 0..MaxFaults
<1>1. CASE Advance(r)
  BY <1>1 DEF Advance, After, TypeOK, Stages
<1>2. CASE Fault /\ Fail(r)
  BY <1>2, ConstantsOK DEF Fault, Fail, TypeOK, Stages
<1> QED BY <1>1, <1>2 DEF Commit

\* Every step keeps the types.
LEMMA TypeStep ==
    ASSUME TypeOK, [Next]_vars
    PROVE  TypeOK'
<1> USE DEF TypeOK
<1>1. ASSUME NEW r \in Runs, Trigger(r)
      PROVE  TypeOK'
  BY <1>1 DEF Trigger, tables, Stages
<1>2. ASSUME NEW r \in Runs, NEW k \in Sources, FetchStep(r, k)
      PROVE  TypeOK'
  <2>1. CallsTyped'
    BY <1>2, FetchType
  <2>2. UNCHANGED <<now, events, tables, faults>> /\ (UNCHANGED pc \/ Fail(r))
    BY <1>2 DEF FetchStep, CacheHit, StartFetch, Respond, HttpError, Return, RaiseError
  <2> QED BY <2>1, <2>2 DEF CallsTyped, tables, Fail, Stages
<1>3. ASSUME NEW r \in Runs, Gathered(r)
      PROVE  TypeOK'
  BY <1>3 DEF Gathered, Advance, After, tables, Stages
<1>4. ASSUME NEW r \in Runs, quick_drift_check(r)
      PROVE  TypeOK'
  <2>1. DetectedChanges(r) \subseteq Event
    BY DetectedType
  <2> QED BY <1>4, <2>1 DEF quick_drift_check, Advance, After, tables, Stages
<1>5. ASSUME NEW r \in Runs, upsert_raw_snapshots(r)
      PROVE  TypeOK'
  <2>1. price_snapshots' \subseteq SnapshotRow
    BY <1>5, CapturesType DEF upsert_raw_snapshots, InsertRows
  <2>2. pc' \in [Runs -> Stages] /\ faults' \in 0..MaxFaults
    BY <1>5, CommitType DEF upsert_raw_snapshots
  <2> QED BY <1>5, <2>1, <2>2 DEF upsert_raw_snapshots
<1>6. ASSUME NEW r \in Runs, upsert_raw_fx(r)
      PROVE  TypeOK'
  <2>1. fx_rates' \subseteq FxRow
    BY <1>6, CapturesType DEF upsert_raw_fx, InsertRows
  <2>2. pc' \in [Runs -> Stages] /\ faults' \in 0..MaxFaults
    BY <1>6, CommitType DEF upsert_raw_fx
  <2> QED BY <1>6, <2>1, <2>2 DEF upsert_raw_fx
<1>7. ASSUME NEW r \in Runs, upsert_change_events(r)
      PROVE  TypeOK'
  <2>1. price_change_events' \subseteq Event
    BY <1>7 DEF upsert_change_events, InsertEvents
  <2>2. pc' \in [Runs -> Stages] /\ faults' \in 0..MaxFaults
    BY <1>7, CommitType DEF upsert_change_events
  <2> QED BY <1>7, <2>1, <2>2 DEF upsert_change_events
<1>8. ASSUME NEW r \in Runs, validate_response_health(r)
      PROVE  TypeOK'
  <2>1. api_health_log' \subseteq HealthRow
    BY <1>8 DEF validate_response_health, HealthRow, FetchResult
  <2>2. CASE End(r, "done") /\ UNCHANGED faults
    BY <1>8, <2>1, <2>2, EndType DEF validate_response_health
  <2>3. CASE Fault /\ Fail(r) /\ UNCHANGED <<call, events>>
    BY <1>8, <2>1, <2>3, ConstantsOK DEF validate_response_health, Fail, Fault, Stages
  <2> QED BY <1>8, <2>2, <2>3 DEF validate_response_health
<1>9. ASSUME NEW r \in Runs, ConstraintError(r) \/ DbError(r)
      PROVE  TypeOK'
  BY <1>9, ConstantsOK DEF ConstraintError, DbError, Fail, Fault, tables, Stages
<1>10. ASSUME NEW r \in Runs, Exit(r) \/ Crash(r)
       PROVE  TypeOK'
  <2>1. End(r, "dead") /\ UNCHANGED <<now, cache, tables>> /\ (UNCHANGED faults \/ Fault)
    BY <1>10 DEF Exit, Crash
  <2>2. faults' \in 0..MaxFaults
    BY <2>1, ConstantsOK DEF Fault
  <2> QED BY <2>1, <2>2, EndType DEF tables
<1>11. CASE LoseCache
  <2>1. NotCached \in [until : Nat, res : AnyResult]
    BY FailureType DEF NotCached
  <2>2. \A k \in Sources : NotCached.res \in FetchResult(k)
    BY FailureType DEF NotCached
  <2> QED BY <1>11, <2>1, <2>2, ConstantsOK DEF LoseCache, Fault, tables
<1>12. CASE Tick
  BY <1>12, ConstantsOK DEF Tick, tables
<1>13. CASE UNCHANGED vars
  BY <1>13 DEF vars, tables
<1> QED
  BY <1>1, <1>2, <1>3, <1>4, <1>5, <1>6, <1>7, <1>8, <1>9, <1>10, <1>11, <1>12, <1>13
  DEF Next, RunStep, FlowStep

\* Every variable has its type in every reachable state.
THEOREM TypeCorrect == Spec => []TypeOK
BY InitType, TypeStep, PTL DEF Spec

-----------------------------------------------------------------------------
(* The tables only grow. *)

\* Every step leaves every row in place.
LEMMA TablesGrow ==
    ASSUME [Next]_vars
    PROVE  /\ price_snapshots \subseteq price_snapshots'
           /\ fx_rates \subseteq fx_rates'
           /\ price_change_events \subseteq price_change_events'
           /\ api_health_log \subseteq api_health_log'
<1> USE DEF tables
<1>1. ASSUME NEW r \in Runs, Trigger(r) \/ DbError(r) \/ Crash(r)
      PROVE  UNCHANGED tables
  BY <1>1 DEF Trigger, DbError, Crash
<1>2. ASSUME NEW r \in Runs, NEW k \in Sources, FetchStep(r, k)
      PROVE  UNCHANGED tables
  BY <1>2
  DEF FetchStep, CacheHit, StartFetch, Respond, HttpError, Return, RaiseError
<1>3. ASSUME NEW r \in Runs, FlowStep(r)
      PROVE  /\ price_snapshots \subseteq price_snapshots'
             /\ fx_rates \subseteq fx_rates'
             /\ price_change_events \subseteq price_change_events'
             /\ api_health_log \subseteq api_health_log'
  BY <1>3
  DEF FlowStep, Gathered, quick_drift_check, upsert_raw_snapshots, upsert_raw_fx,
      upsert_change_events, validate_response_health, ConstraintError, Exit,
      InsertRows, InsertEvents
<1>4. CASE LoseCache \/ Tick \/ UNCHANGED vars
  BY <1>4 DEF LoseCache, Tick, vars
<1> QED BY <1>1, <1>2, <1>3, <1>4 DEF Next, RunStep

\* A row once written is never removed or rewritten, by any run, however late.
THEOREM WrittenOnce == Spec => FirstWriteWins
<1>1. [Next]_vars => [ /\ price_snapshots \subseteq price_snapshots'
                      /\ fx_rates \subseteq fx_rates'
                      /\ price_change_events \subseteq price_change_events'
                      /\ api_health_log \subseteq api_health_log' ]_tables
  BY TablesGrow
<1> QED BY <1>1, PTL DEF Spec, FirstWriteWins

-----------------------------------------------------------------------------
(* One row per bucket, one event per instant. *)

OnePerBucket(rows) == \A a, b \in rows : SameBucket(a, b) => a = b

OnePerInstant(evs) ==
    \A a, b \in evs : a.src = b.src /\ a.item = b.item /\ a.at = b.at => a = b

\* The events a run holds in memory are distinct too.
EventsOnce == \A r \in Runs : OnePerInstant(events[r])

UniqueInv == TypeOK /\ UniqueRows /\ EventsOnce

\* ON CONFLICT DO NOTHING keeps one row per bucket.
LEMMA InsertRowsUnique ==
    ASSUME NEW table, NEW rows, OnePerBucket(table), OnePerBucket(rows)
    PROVE  OnePerBucket(InsertRows(table, rows))
BY DEF OnePerBucket, InsertRows, SameBucket, RowKey

\* ... and one event per instant.
LEMMA InsertEventsUnique ==
    ASSUME NEW table, NEW evs, OnePerInstant(table), OnePerInstant(evs)
    PROVE  OnePerInstant(InsertEvents(table, evs))
BY DEF OnePerInstant, InsertEvents, EventKey

\* A run captures each pair once.
LEMMA CapturesUnique ==
    ASSUME NEW r \in Runs
    PROVE  OnePerBucket(Captures(r)) /\ OnePerBucket(FxRows(r))
BY DEF OnePerBucket, SameBucket, Captures, FxRows, Rows

\* A pair has one baseline.
LEMMA BaselineUnique ==
    ASSUME UniqueInv, NEW a \in price_snapshots, NEW b \in price_snapshots,
           NEW c, IsBaseline(a, c), IsBaseline(b, c)
    PROVE  a = b
<1>1. a.at <= b.at /\ b.at <= a.at
  BY DEF IsBaseline
<1>2. a.at \in Nat /\ b.at \in Nat
  BY DEF UniqueInv, TypeOK, SnapshotRow
<1>3. a.at = b.at
  BY <1>1, <1>2
<1> QED BY <1>3 DEF IsBaseline, UniqueInv, UniqueRows, SameBucket

\* The drift check raises at most one event per capture.
LEMMA DetectedUnique ==
    ASSUME UniqueInv, NEW r \in Runs
    PROVE  OnePerInstant(DetectedChanges(r))
<1> SUFFICES ASSUME NEW b1 \in price_snapshots, NEW c1 \in Captures(r),
                    NEW b2 \in price_snapshots, NEW c2 \in Captures(r),
                    IsBaseline(b1, c1), IsBaseline(b2, c2),
                    c1.src = c2.src, c1.item = c2.item, c1.at = c2.at
             PROVE  Change(b1, c1) = Change(b2, c2)
  BY DEF OnePerInstant, DetectedChanges, Change
<1>1. c1 = c2
  BY CapturesUnique DEF OnePerBucket, SameBucket
<1>2. b1 = b2
  BY <1>1, BaselineUnique
<1> QED BY <1>1, <1>2

LEMMA UniqueStep ==
    ASSUME UniqueInv, [Next]_vars
    PROVE  UniqueInv'
<1>0. TypeOK'
  BY TypeStep DEF UniqueInv
<1> USE DEF tables
<1>1. ASSUME NEW r \in Runs, upsert_raw_snapshots(r)
      PROVE  UniqueRows' /\ EventsOnce'
  <2>1. OnePerBucket(price_snapshots')
    BY <1>1, CapturesUnique, InsertRowsUnique
    DEF upsert_raw_snapshots, UniqueInv, UniqueRows, OnePerBucket
  <2> QED BY <1>1, <2>1
    DEF upsert_raw_snapshots, UniqueInv, UniqueRows, EventsOnce, OnePerBucket
<1>2. ASSUME NEW r \in Runs, upsert_raw_fx(r)
      PROVE  UniqueRows' /\ EventsOnce'
  <2>1. OnePerBucket(fx_rates')
    BY <1>2, CapturesUnique, InsertRowsUnique
    DEF upsert_raw_fx, UniqueInv, UniqueRows, OnePerBucket
  <2> QED BY <1>2, <2>1
    DEF upsert_raw_fx, UniqueInv, UniqueRows, EventsOnce, OnePerBucket
<1>3. ASSUME NEW r \in Runs, upsert_change_events(r)
      PROVE  UniqueRows' /\ EventsOnce'
  <2>1. OnePerInstant(price_change_events')
    BY <1>3, InsertEventsUnique
    DEF upsert_change_events, UniqueInv, UniqueRows, EventsOnce, OnePerInstant
  <2> QED BY <1>3, <2>1
    DEF upsert_change_events, UniqueInv, UniqueRows, EventsOnce, OnePerInstant
<1>4. ASSUME NEW r \in Runs, quick_drift_check(r)
      PROVE  UniqueRows' /\ EventsOnce'
  <2>1. \A q \in Runs : events'[q] = IF q = r THEN DetectedChanges(r) ELSE events[q]
    BY <1>4 DEF quick_drift_check, UniqueInv, TypeOK
  <2>2. EventsOnce'
    BY <2>1, DetectedUnique DEF EventsOnce, UniqueInv
  <2> QED BY <1>4, <2>2 DEF quick_drift_check, UniqueInv, UniqueRows
<1>5. ASSUME NEW r \in Runs,
             \/ validate_response_health(r) \/ Exit(r) \/ Crash(r)
      PROVE  UniqueRows' /\ EventsOnce'
  <2>1. \A q \in Runs : events'[q] \in {{}, events[q]}
    BY <1>5 DEF validate_response_health, Exit, Crash, End, UniqueInv, TypeOK
  <2>2. EventsOnce'
    BY <2>1 DEF EventsOnce, OnePerInstant, UniqueInv
  <2> QED BY <1>5, <2>2
    DEF validate_response_health, Exit, Crash, UniqueInv, UniqueRows
<1>6. ASSUME \/ \E r \in Runs : \/ Trigger(r) \/ Gathered(r) \/ ConstraintError(r)
                               \/ DbError(r) \/ \E k \in Sources : FetchStep(r, k)
             \/ LoseCache \/ Tick \/ UNCHANGED vars
      PROVE  UniqueRows' /\ EventsOnce'
  <2>1. UNCHANGED <<events, price_snapshots, fx_rates, price_change_events>>
    BY <1>6
    DEF Trigger, Gathered, ConstraintError, DbError, FetchStep, CacheHit, StartFetch,
        Respond, HttpError, Return, RaiseError, LoseCache, Tick, vars
  <2> QED BY <2>1 DEF UniqueInv, UniqueRows, EventsOnce
<1> QED
  BY <1>0, <1>1, <1>2, <1>3, <1>4, <1>5, <1>6
  DEF UniqueInv, Next, RunStep, FlowStep

\* One price and one rate per pair and minute, one event per pair and instant,
\* however many runs overlap.
THEOREM RowsAreUnique == Spec => []UniqueRows
<1>1. Init => UniqueInv
  BY InitType DEF Init, UniqueInv, UniqueRows, EventsOnce, OnePerInstant
<1>2. UniqueInv => UniqueRows
  BY DEF UniqueInv
<1> QED BY <1>1, <1>2, UniqueStep, PTL DEF Spec

-----------------------------------------------------------------------------
(* What a run has persisted by each stage, and where its events come from. *)

\* The events a run holds compare a stored snapshot with one of its captures.
Detected(r) ==
    pc[r] \in {"snapshots", "fx", "events", "health"} =>
        \A e \in events[r] : \E b \in price_snapshots, c \in Captures(r) :
            /\ b.src = c.src /\ b.item = c.item
            /\ Moved(b.val, c.val)
            /\ e = Change(b, c)

RunInv(r) == Persisted(r) /\ Detected(r)

StageInv == TypeOK /\ EventsGrounded /\ \A r \in Runs : RunInv(r)

\* Stages at which a run has nothing to show.
NothingYet == {"idle", "fetch", "drift", "failed", "dead"}

LEMMA NothingYetInv ==
    ASSUME NEW r \in Runs, pc'[r] \in NothingYet
    PROVE  RunInv(r)'
BY DEF NothingYet, RunInv, Persisted, Detected

\* What other runs do to the tables does not undo what a run has persisted.
LEMMA StepOfOthers ==
    ASSUME StageInv, [Next]_vars, NEW r \in Runs,
           UNCHANGED <<pc[r], call[r], events[r]>>
    PROVE  RunInv(r)'
<1>1. Captures(r)' = Captures(r) /\ FxRows(r)' = FxRows(r)
  BY DEF Captures, FxRows
<1>2. Persisted(r)'
  BY <1>1, TablesGrow DEF StageInv, RunInv, Persisted
<1>3. Detected(r)'
  BY <1>1, TablesGrow DEF StageInv, RunInv, Detected
<1> QED BY <1>2, <1>3 DEF RunInv

\* A step touches one run at most.
Touches(r) ==
    /\ pc' = [pc EXCEPT ![r] = pc'[r]]
    /\ call' = [call EXCEPT ![r] = call'[r]]
    /\ events' = [events EXCEPT ![r] = events'[r]]

LEMMA StepOfOne ==
    ASSUME StageInv, [Next]_vars, NEW r \in Runs, Touches(r), RunInv(r)'
    PROVE  \A q \in Runs : RunInv(q)'
<1> SUFFICES ASSUME NEW q \in Runs, q # r
             PROVE  RunInv(q)'
  OBVIOUS
<1>1. UNCHANGED <<pc[q], call[q], events[q]>>
  BY DEF Touches, StageInv, TypeOK
<1> QED BY <1>1, StepOfOthers

\* A committed batch leaves no row without its bucket.
LEMMA InsertRowsCovers ==
    ASSUME NEW table, NEW rows
    PROVE  \A row \in rows : \E o \in InsertRows(table, rows) : SameBucket(o, row)
BY DEF InsertRows, SameBucket, RowKey

LEMMA InsertEventsCovers ==
    ASSUME NEW table, NEW evs
    PROVE  \A e \in evs : \E o \in InsertEvents(table, evs) :
              o.src = e.src /\ o.item = e.item /\ o.at = e.at
BY DEF InsertEvents, EventKey

\* The steps that leave a run with nothing to show, or do not touch any run.
LEMMA QuietStep ==
    ASSUME StageInv, [Next]_vars, NEW r \in Runs,
           \/ Trigger(r) \/ Gathered(r) \/ ConstraintError(r) \/ DbError(r)
           \/ Exit(r) \/ Crash(r) \/ \E k \in Sources : FetchStep(r, k)
    PROVE  (\A q \in Runs : RunInv(q)') /\ UNCHANGED price_change_events
<1> USE DEF StageInv, TypeOK
<1>1. pc'[r] \in NothingYet
  BY DEF Trigger, Gathered, ConstraintError, DbError, Exit, Crash, End, Fail, Advance,
         After, FetchStep, CacheHit, StartFetch, Respond, HttpError, Return,
         RaiseError, Fetching, NothingYet
<1>2. Touches(r)
  BY DEF Touches, Trigger, Gathered, ConstraintError, DbError, Exit, Crash, End, Fail,
         Advance, After, FetchStep, CacheHit, StartFetch, Respond, HttpError, Return,
         RaiseError, SetCall
<1>3. UNCHANGED price_change_events
  BY DEF tables, Trigger, Gathered, ConstraintError, DbError, Exit, Crash, FetchStep,
         CacheHit, StartFetch, Respond, HttpError, Return, RaiseError
<1> QED BY <1>1, <1>2, <1>3, NothingYetInv, StepOfOne

\* The drift check hands on changes of the captures from the baseline.
LEMMA DriftStep ==
    ASSUME StageInv, [Next]_vars, NEW r \in Runs, quick_drift_check(r)
    PROVE  (\A q \in Runs : RunInv(q)') /\ UNCHANGED price_change_events
<1> USE DEF StageInv, TypeOK
<1>1. /\ pc'[r] = "snapshots" /\ events'[r] = DetectedChanges(r)
      /\ UNCHANGED <<call, price_snapshots, price_change_events>>
  BY DEF quick_drift_check, Advance, After, tables
<1>2. Touches(r)
  BY DEF Touches, quick_drift_check, Advance, After
<1>3. Detected(r)'
  BY <1>1 DEF Detected, DetectedChanges, IsBaseline, Captures
<1>4. Persisted(r)'
  BY <1>1 DEF Persisted
<1> QED BY <1>1, <1>2, <1>3, <1>4, StepOfOne DEF RunInv

\* An upsert commits its batch and moves on, or leaves the run failed.
LEMMA UpsertStep ==
    ASSUME StageInv, [Next]_vars, NEW r \in Runs,
           upsert_raw_snapshots(r) \/ upsert_raw_fx(r) \/ upsert_change_events(r)
    PROVE  \A q \in Runs : RunInv(q)'
<1> USE DEF StageInv, TypeOK
<1>1. /\ UNCHANGED <<call, events>>
      /\ pc' \in {[pc EXCEPT ![r] = "failed"], [pc EXCEPT ![r] = After(pc[r])]}
  BY DEF upsert_raw_snapshots, upsert_raw_fx, upsert_change_events, Commit, Advance, Fail
<1>2. Touches(r)
  BY <1>1 DEF Touches
<1>3. Captures(r)' = Captures(r) /\ FxRows(r)' = FxRows(r)
  BY <1>1 DEF Captures, FxRows
<1>4. CASE pc'[r] = "failed"
  BY <1>2, <1>4, NothingYetInv, StepOfOne DEF NothingYet
<1>5. CASE upsert_raw_snapshots(r) /\ pc'[r] # "failed"
  <2>1. pc[r] = "snapshots" /\ pc'[r] = "fx"
    BY <1>1, <1>5 DEF upsert_raw_snapshots, After
  <2>2. \A c \in Captures(r) : \E o \in price_snapshots' : SameBucket(o, c)
    BY <1>5, InsertRowsCovers DEF upsert_raw_snapshots
  <2>3. Persisted(r)'
    BY <1>3, <2>1, <2>2 DEF Persisted
  <2>4. Detected(r)'
    BY <1>1, <1>3, <2>1, TablesGrow DEF RunInv, Detected
  <2> QED BY <1>2, <2>3, <2>4, StepOfOne DEF RunInv
<1>6. CASE upsert_raw_fx(r) /\ pc'[r] # "failed"
  <2>1. pc[r] = "fx" /\ pc'[r] = "events"
    BY <1>1, <1>6 DEF upsert_raw_fx, After
  <2>2. \A f \in FxRows(r) : \E o \in fx_rates' : SameBucket(o, f)
    BY <1>6, InsertRowsCovers DEF upsert_raw_fx
  <2>3. Persisted(r)'
    BY <1>3, <2>1, <2>2, TablesGrow DEF RunInv, Persisted
  <2>4. Detected(r)'
    BY <1>1, <1>3, <2>1, TablesGrow DEF RunInv, Detected
  <2> QED BY <1>2, <2>3, <2>4, StepOfOne DEF RunInv
<1>7. CASE upsert_change_events(r) /\ pc'[r] # "failed"
  <2>1. pc[r] = "events" /\ pc'[r] = "health"
    BY <1>1, <1>7 DEF upsert_change_events, After
  <2>2. \A e \in events[r] : \E o \in price_change_events' :
           o.src = e.src /\ o.item = e.item /\ o.at = e.at
    BY <1>7, InsertEventsCovers DEF upsert_change_events
  <2>3. Persisted(r)'
    BY <1>1, <1>3, <2>1, <2>2, TablesGrow DEF RunInv, Persisted
  <2>4. Detected(r)'
    BY <1>1, <1>3, <2>1, TablesGrow DEF RunInv, Detected
  <2> QED BY <1>2, <2>3, <2>4, StepOfOne DEF RunInv
<1> QED BY <1>4, <1>5, <1>6, <1>7

\* The health log closes a run.
LEMMA HealthStep ==
    ASSUME StageInv, [Next]_vars, NEW r \in Runs, validate_response_health(r)
    PROVE  (\A q \in Runs : RunInv(q)') /\ UNCHANGED price_change_events
<1> USE DEF StageInv, TypeOK
<1>1. Touches(r) /\ pc'[r] \in {"failed", "done"}
  <2>1. CASE End(r, "done")
    BY <2>1 DEF Touches, End
  <2>2. CASE Fail(r) /\ UNCHANGED <<call, events>>
    BY <2>2 DEF Touches, Fail
  <2> QED BY <2>1, <2>2 DEF validate_response_health
<1>2. ASSUME NEW s \in STORE_IDS
      PROVE  \E h \in api_health_log' : h.run = r /\ h.src = s
  <2> DEFINE row == [run |-> r, src |-> s, ok |-> call[r][s].res.ok,
                     at |-> call[r][s].res.at]
  <2>1. row \in api_health_log'
    BY DEF validate_response_health
  <2>2. row.run = r /\ row.src = s
    OBVIOUS
  <2> QED BY <2>1, <2>2
<1>3. RunInv(r)'
  BY <1>1, <1>2 DEF RunInv, Persisted, Detected
<1> QED BY <1>1, <1>3, StepOfOne DEF validate_response_health

\* What is written as an event was detected from a snapshot that is still there
\* and has its capture's bucket filled.
LEMMA GroundedStep ==
    ASSUME StageInv, [Next]_vars
    PROVE  EventsGrounded'
<1>1. ASSUME NEW e \in price_change_events'
      PROVE  \/ e \in price_change_events
             \/ \E r \in Runs : pc[r] = "events" /\ e \in events[r]
  <2>1. ASSUME NEW r \in Runs, RunStep(r) \/ Trigger(r) \/ DbError(r) \/ Crash(r)
        PROVE  \/ price_change_events' = price_change_events
               \/ /\ pc[r] = "events"
                  /\ price_change_events' \subseteq price_change_events \cup events[r]
    BY <2>1
    DEF RunStep, FlowStep, Gathered, quick_drift_check, upsert_raw_snapshots,
        upsert_raw_fx, upsert_change_events, InsertEvents, validate_response_health,
        ConstraintError, Exit, Trigger, DbError, Crash, FetchStep, CacheHit,
        StartFetch, Respond, HttpError, Return, RaiseError, tables
  <2>2. CASE LoseCache \/ Tick \/ UNCHANGED vars
    BY <1>1, <2>2 DEF LoseCache, Tick, vars, tables
  <2> QED BY <1>1, <2>1, <2>2 DEF Next
<1>2. ASSUME NEW r \in Runs, pc[r] = "events", NEW e \in events[r]
      PROVE  /\ Moved(e.prev, e.new)
             /\ \E b \in price_snapshots :
                   b.src = e.src /\ b.item = e.item /\ b.val = e.prev
             /\ \E o \in price_snapshots : SameBucket(o, e)
  <2>1. PICK b \in price_snapshots, c \in Captures(r) :
           /\ b.src = c.src /\ b.item = c.item
           /\ Moved(b.val, c.val)
           /\ e = Change(b, c)
    BY <1>2 DEF StageInv, RunInv, Detected
  <2>2. PICK o \in price_snapshots : SameBucket(o, c)
    BY <1>2 DEF StageInv, RunInv, Persisted
  <2> QED BY <2>1, <2>2 DEF Change, SameBucket
<1> QED BY <1>1, <1>2, TablesGrow DEF StageInv, EventsGrounded

LEMMA StageStep ==
    ASSUME StageInv, [Next]_vars
    PROVE  StageInv'
<1>1. TypeOK' /\ EventsGrounded'
  BY TypeStep, GroundedStep DEF StageInv
<1>2. \A q \in Runs : RunInv(q)'
  <2>1. CASE \E r \in Runs : Trigger(r) \/ RunStep(r) \/ DbError(r) \/ Crash(r)
    BY <2>1, QuietStep, DriftStep, UpsertStep, HealthStep DEF RunStep, FlowStep
  <2>2. CASE LoseCache \/ Tick \/ UNCHANGED vars
    <3>1. UNCHANGED <<pc, call, events>>
      BY <2>2 DEF LoseCache, Tick, vars
    <3> QED BY <3>1, StepOfOthers
  <2> QED BY <2>1, <2>2 DEF Next
<1> QED BY <1>1, <1>2 DEF StageInv

LEMMA InitStage == Init => StageInv
<1> SUFFICES ASSUME Init PROVE StageInv
  OBVIOUS
<1>1. TypeOK
  BY InitType
<1>2. ASSUME NEW r \in Runs
      PROVE  RunInv(r)
  BY DEF Init, RunInv, Persisted, Detected
<1>3. EventsGrounded
  BY DEF Init, EventsGrounded
<1> QED BY <1>1, <1>2, <1>3 DEF StageInv

\* Past each upsert, what the run fetched is in the tables.
THEOREM PersistedAlways == Spec => []PersistedByStage
<1>1. StageInv => PersistedByStage
  BY DEF StageInv, RunInv, PersistedByStage
<1> QED BY <1>1, InitStage, StageStep, PTL DEF Spec

\* No event comes out of thin air, however runs interleave and fail.
THEOREM GroundedAlways == Spec => []EventsGrounded
<1>1. StageInv => EventsGrounded
  BY DEF StageInv
<1> QED BY <1>1, InitStage, StageStep, PTL DEF Spec

-----------------------------------------------------------------------------
(* A run's stages and attempts are used up. *)

\* The steps of a run, its failures included.
Acts(r) == Trigger(r) \/ RunStep(r) \/ DbError(r) \/ Crash(r)

\* A step of a run leaves the others alone.
LEMMA ActsOnOne ==
    ASSUME TypeOK, NEW r \in Runs, Acts(r), NEW q \in Runs, q # r
    PROVE  UNCHANGED <<pc[q], call[q], events[q]>>
<1> USE DEF TypeOK
<1>1. CASE Trigger(r) \/ Gathered(r) \/ ConstraintError(r) \/ DbError(r)
  BY <1>1 DEF Trigger, Gathered, ConstraintError, DbError, Advance, Fail
<1>2. CASE Exit(r) \/ Crash(r) \/ validate_response_health(r)
  BY <1>2 DEF Exit, Crash, validate_response_health, End, Fail
<1>3. CASE quick_drift_check(r) \/ upsert_raw_snapshots(r) \/ upsert_raw_fx(r)
             \/ upsert_change_events(r)
  BY <1>3 DEF quick_drift_check, upsert_raw_snapshots, upsert_raw_fx, upsert_change_events,
              Commit, Advance, Fail
<1>4. ASSUME NEW k \in Sources, FetchStep(r, k)
      PROVE  UNCHANGED <<pc[q], call[q], events[q]>>
  BY <1>4 DEF FetchStep, CacheHit, StartFetch, Respond, HttpError, Return, RaiseError,
              SetCall, Fail
<1> QED BY <1>1, <1>2, <1>3, <1>4 DEF Acts, RunStep, FlowStep

\* A step of a run moves it on, or moves on one of its fetches.
LEMMA RunSpends ==
    ASSUME TypeOK, NEW r \in Runs, Acts(r)
    PROVE  Spends(r)
<1>. USE DEF TypeOK
<1>2. CASE Trigger(r)
  BY <1>2 DEF Trigger, Spends, StagesLeft
<1>3. CASE Gathered(r) \/ quick_drift_check(r)
  BY <1>3 DEF Gathered, quick_drift_check, Advance, After, Spends, StagesLeft
<1>4. CASE upsert_raw_snapshots(r) \/ upsert_raw_fx(r) \/ upsert_change_events(r)
  BY <1>4 DEF upsert_raw_snapshots, upsert_raw_fx, upsert_change_events, Commit,
              Advance, After, Fail, Spends, StagesLeft
<1>5. CASE validate_response_health(r) \/ ConstraintError(r) \/ DbError(r) \/ Exit(r)
  BY <1>5 DEF validate_response_health, ConstraintError, DbError, Exit, End, Fail,
              Spends, StagesLeft
<1>6. CASE Crash(r)
  <2>1. pc'[r] = "dead" /\ pc[r] \in Stages \ {"idle", "done", "dead"}
    BY <1>6 DEF Crash, Alive, End
  <2> QED BY <2>1 DEF Stages, Spends, StagesLeft
<1>7. ASSUME NEW k \in Sources, FetchStep(r, k)
      PROVE  Spends(r)
  <2>1. call[r][k] \in Call /\ call[r][k].tries \in 0..RETRIES /\ RETRIES \in Nat
    BY ConstantsOK DEF Call
  <2>2. ASSUME NEW st, NEW tries, NEW res, SetCall(r, k, st, tries, res)
        PROVE  /\ call'[r][k].st = st /\ call'[r][k].tries = tries
               /\ \A j \in Sources \ {k} : call'[r][j] = call[r][j]
    BY <2>2 DEF SetCall
  <2>3. ASSUME call'[r][k].tries = call[r][k].tries, pc' = pc,
               \/ call[r][k].st = "todo" /\ call'[r][k].st \in {"calling", "done"}
               \/ call[r][k].st = "calling" /\ call'[r][k].st = "done",
               \A j \in Sources \ {k} : call'[r][j] = call[r][j]
        PROVE  Spends(r)
    <3>1. AttemptsLeft(call'[r][k]) < AttemptsLeft(call[r][k])
      BY <2>1, <2>3 DEF AttemptsLeft
    <3> QED BY <2>3, <3>1 DEF Spends
  <2>4. CASE CacheHit(r, k)
    BY <2>2, <2>3, <2>4 DEF CacheHit
  <2>5. CASE StartFetch(r, k)
    BY <2>2, <2>3, <2>5 DEF StartFetch
  <2>6. CASE Respond(r, k) \/ HttpError(r, k)
    BY <2>2, <2>3, <2>6 DEF Respond, HttpError, Return
  <2>7. CASE RaiseError(r, k)
    <3>1. CASE UNCHANGED pc
      <4>1. /\ call[r][k].st = "calling"
            /\ \/ call'[r][k].st = "todo" /\ call'[r][k].tries = call[r][k].tries + 1
               \/ call'[r][k].st = "raised" /\ call'[r][k].tries = call[r][k].tries
            /\ \A j \in Sources \ {k} : call'[r][j] = call[r][j]
        BY <2>2, <2>7 DEF RaiseError
      <4>2. AttemptsLeft(call'[r][k]) < AttemptsLeft(call[r][k])
        BY <2>1, <4>1 DEF AttemptsLeft
      <4> QED BY <3>1, <4>1, <4>2 DEF Spends
    <3>2. CASE pc' # pc
      <4>1. pc[r] = "fetch" /\ pc'[r] = "failed"
        BY <2>7, <3>2 DEF RaiseError, Fetching, Fail
      <4> QED BY <4>1 DEF Spends, StagesLeft
    <3> QED BY <3>1, <3>2
  <2> QED BY <1>7, <2>4, <2>5, <2>6, <2>7 DEF FetchStep
<1> QED BY <1>2, <1>3, <1>4, <1>5, <1>6, <1>7 DEF Acts, RunStep, FlowStep

\* Every run ends after finitely many steps of its own, for any sources, retries
\* and interleaving: the part of RunsEnd that fairness does not give.
THEOREM StepsAlwaysRunOut == Spec => StepsRunOut
<1>1. ASSUME TypeOK, [Next]_vars, NEW q \in Runs
      PROVE  Spends(q) \/ UNCHANGED <<pc[q], call[q], events[q]>>
  <2>1. ASSUME NEW r \in Runs, Acts(r)
        PROVE  Spends(q) \/ UNCHANGED <<pc[q], call[q], events[q]>>
    <3>1. CASE q = r
      BY <1>1, <2>1, <3>1, RunSpends
    <3>2. CASE q # r
      BY <1>1, <2>1, <3>2, ActsOnOne
    <3> QED BY <3>1, <3>2
  <2>2. CASE LoseCache \/ Tick \/ UNCHANGED vars
    BY <2>2 DEF LoseCache, Tick, vars
  <2> QED BY <1>1, <2>1, <2>2 DEF Next, Acts
<1>2. TypeOK /\ [Next]_vars
        => [\A r \in Runs : Spends(r) \/ UNCHANGED <<pc[r], call[r], events[r]>>]_vars
  BY <1>1
<1> QED BY <1>2, TypeCorrect, PTL DEF Spec, StepsRunOut

=============================================================================
