-------------------------- MODULE LightTurnsProofs --------------------------
(***************************************************************************)
(* Proofs about the light flow when no two runs are alive at once, and     *)
(* whatever else happens: the result cache lost at any moment, crashes,    *)
(* lost acknowledgements, refused batches, HTTP errors and retries.        *)
(*                                                                         *)
(* The argument: a fetch starts after everything known of its source was   *)
(* captured, and a record that can still be hit is of the latest fetch, so *)
(* what a run captures is never older than what the tables already know.   *)
(***************************************************************************)
EXTENDS LightPipelineProofs

USE DEF Sources

SameItem(a, b) == a.src = b.src /\ a.item = b.item

-----------------------------------------------------------------------------
(* Runs: at most one is alive, and the others hold nothing. *)

Past == {"drift", "snapshots", "fx", "events", "health"}

OneAlive == \A q, r \in Runs : Alive(q) /\ Alive(r) => q = r

Quiet(r) == ~Alive(r) => call[r] = NoCalls /\ events[r] = {}

Complete(r) == pc[r] \in Past => \A k \in Sources : call[r][k].st = "done"

ControlInv == TypeOK /\ OneAlive /\ \A r \in Runs : Quiet(r) /\ Complete(r)

\* A run that takes a step is alive, unless it is triggered when none is.
LEMMA ActsAlive ==
    ASSUME ControlInv, Overlap = FALSE, NEW r \in Runs, Acts(r), NEW q \in Runs, q # r
    PROVE  ~Alive(q)
<1>1. Alive(r) \/ \A p \in Runs : ~Alive(p)
  BY DEF Acts, RunStep, FlowStep, Trigger, Gathered, ConstraintError, DbError, Exit,
         Crash, validate_response_health, quick_drift_check, upsert_raw_snapshots,
         upsert_raw_fx, upsert_change_events, FetchStep, CacheHit, StartFetch, Respond,
         HttpError, Return, RaiseError, Fetching, Alive
<1> QED BY <1>1 DEF ControlInv, OneAlive

LEMMA ControlStep ==
    ASSUME ControlInv, Overlap = FALSE, [Next]_vars
    PROVE  ControlInv'
<1>0. TypeOK /\ TypeOK'
  BY TypeStep DEF ControlInv
<1>1. ASSUME NEW r \in Runs, Acts(r)
      PROVE  OneAlive' /\ \A q \in Runs : (Quiet(q) /\ Complete(q))'
  <2>1. \A q \in Runs \ {r} : ~Alive(q) /\ UNCHANGED <<pc[q], call[q], events[q]>>
    BY <1>0, <1>1, ActsAlive, ActsOnOne
  <2>2. OneAlive'
    BY <2>1 DEF OneAlive, Alive
  <2>3. ASSUME NEW q \in Runs, q # r
        PROVE  (Quiet(q) /\ Complete(q))'
    BY <2>1, <2>3 DEF ControlInv, Quiet, Complete, Alive
  <2>4. (Quiet(r) /\ Complete(r))'
    <3> USE <1>0 DEF TypeOK
    <3>1. ASSUME NEW how \in {"done", "dead"}, End(r, how)
          PROVE  (Quiet(r) /\ Complete(r))'
      BY <3>1 DEF End, Quiet, Complete, Past
    <3>2. ASSUME pc'[r] \in {"fetch", "failed"}
          PROVE  (Quiet(r) /\ Complete(r))'
      BY <3>2 DEF Quiet, Complete, Alive, Past
    <3>3. ASSUME pc[r] \in Past, pc'[r] \in Past \cup {"failed"}, call'[r] = call[r]
          PROVE  (Quiet(r) /\ Complete(r))'
      BY <3>3 DEF ControlInv, Quiet, Complete, Alive, Past
    <3>4. CASE Trigger(r) \/ ConstraintError(r) \/ DbError(r)
               \/ \E k \in Sources : FetchStep(r, k)
      BY <3>2, <3>4 DEF Trigger, ConstraintError, DbError, Fail, FetchStep, CacheHit,
             StartFetch, Respond, HttpError, Return, RaiseError, Fetching
    <3>5. CASE Gathered(r)
      BY <3>5 DEF Gathered, Advance, After, Quiet, Complete, Alive, Past
    <3>6. CASE quick_drift_check(r) \/ upsert_raw_snapshots(r) \/ upsert_raw_fx(r)
               \/ upsert_change_events(r)
      BY <3>3, <3>6 DEF quick_drift_check, upsert_raw_snapshots, upsert_raw_fx,
             upsert_change_events, Commit, Advance, After, Fail, Past
    <3>7. CASE validate_response_health(r) \/ Exit(r) \/ Crash(r)
      BY <3>1, <3>2, <3>7 DEF validate_response_health, Exit, Crash, Fail
    <3> QED BY <1>1, <3>4, <3>5, <3>6, <3>7 DEF Acts, RunStep, FlowStep
  <2> QED BY <2>2, <2>3, <2>4
<1>2. CASE LoseCache \/ Tick \/ UNCHANGED vars
  <2>1. UNCHANGED <<pc, call, events>>
    BY <1>2 DEF LoseCache, Tick, vars
  <2> QED BY <1>0, <2>1 DEF ControlInv, OneAlive, Quiet, Complete, Alive
<1> QED BY <1>0, <1>1, <1>2 DEF Next, Acts, ControlInv

LEMMA ControlInit == Init => ControlInv
<1> SUFFICES ASSUME Init PROVE ControlInv
  OBVIOUS
<1>1. \A r \in Runs : pc[r] = "idle" /\ call[r] = NoCalls /\ events[r] = {}
  BY DEF Init
<1> QED BY <1>1, InitType DEF ControlInv, OneAlive, Quiet, Complete, Alive, Past

-----------------------------------------------------------------------------
(* The order of captures: what is known of a source is never newer than what *)
(* the acting run holds of it.                                               *)

\* The instants of a source that a table tells of.
Known(s) ==
    {o.at : o \in {p \in price_snapshots : p.src = s}} \cup
    {e.at : e \in {f \in price_change_events : f.src = s}}

\* All that is known of a source precedes the record that may still be hit.
Behind(s) ==
    /\ cache[s].res.at <= now
    /\ \A t \in Known(s) : t <= now /\ (now < cache[s].until => t <= cache[s].res.at)

\* And the fetch a run has started or finished, which such a record is not
\* older than.
Ahead(r, s) ==
    /\ call[r][s].res.at <= now
    /\ call[r][s].st \in {"calling", "done"} => \A t \in Known(s) : t <= call[r][s].res.at
    /\ call[r][s].st = "done" /\ now < cache[s].until => call[r][s].res.at <= cache[s].res.at

OrderInv ==
    /\ \A s \in STORE_IDS : Behind(s)
    /\ \A r \in Runs, s \in STORE_IDS : Ahead(r, s)

FromLatest(e) ==
    \E b \in price_snapshots :
        /\ b.src = e.src /\ b.item = e.item /\ b.val = e.prev /\ b.at <= e.at
        /\ \A o \in price_snapshots :
              o.src = e.src /\ o.item = e.item => o.at <= b.at \/ o.at >= e.at

\* What a run carries is of its captures, and starts from the latest snapshot.
Carried(r) ==
    pc[r] \in {"snapshots", "fx", "events"} =>
        \A e \in events[r] : e.at = call[r][e.src].res.at /\ FromLatest(e)

TurnsInv ==
    /\ ControlInv /\ OrderInv /\ EventsFromLatest
    /\ \A r \in Runs : Carried(r)

\* The types the proofs compare instants with.
LEMMA InstantTypes ==
    ASSUME TypeOK
    PROVE  /\ now \in Nat
           /\ \A s \in STORE_IDS : cache[s].until \in Nat /\ cache[s].res.at \in Nat
           /\ \A r \in Runs, s \in STORE_IDS : call[r][s].res.at \in Nat
           /\ \A o \in price_snapshots : o.src \in STORE_IDS /\ o.at \in Nat
           /\ \A e \in price_change_events : e.src \in STORE_IDS /\ e.at \in Nat
           /\ \A r \in Runs : \A e \in events[r] : e.src \in STORE_IDS /\ e.at \in Nat
BY DEF TypeOK, Call, AnyResult, SnapshotRow, Event

LEMMA KnownTypes ==
    ASSUME TypeOK, NEW s
    PROVE  \A t \in Known(s) : t \in Nat
BY InstantTypes DEF Known

\* Time passes, calls are forgotten, or the cache is lost.
LEMMA OrderKept ==
    ASSUME TypeOK, OrderInv, UNCHANGED <<price_snapshots, price_change_events>>,
           now' \in {now, now + 1},
           cache' = cache \/ (now' = now /\ \A s \in STORE_IDS : cache'[s] = NotCached),
           \A q \in Runs : call'[q] = call[q] \/ call'[q] = NoCalls
    PROVE  OrderInv'
<1>0. now \in Nat /\ \A s \in STORE_IDS : Known(s)' = Known(s) /\ \A t \in Known(s) : t \in Nat
  BY InstantTypes, KnownTypes DEF Known
<1>1. ASSUME NEW s \in STORE_IDS
      PROVE  Behind(s)'
  <2>1. cache'[s] = cache[s] \/ (cache'[s].until = 0 /\ cache'[s].res.at = 0 /\ now' = now)
    BY DEF NotCached, Failure
  <2> QED BY <1>0, <2>1, InstantTypes DEF OrderInv, Behind
<1>2. ASSUME NEW q \in Runs, NEW s \in STORE_IDS
      PROVE  Ahead(q, s)'
  <2>1. cache'[s] = cache[s] \/ (cache'[s].until = 0 /\ now' = now)
    BY DEF NotCached
  <2>2. CASE call'[q] = call[q]
    BY <1>0, <2>1, <2>2, InstantTypes DEF OrderInv, Ahead
  <2>3. CASE call'[q] = NoCalls
    <3>1. call'[q][s].st = "todo" /\ call'[q][s].res.at = 0
      BY <2>3 DEF NoCalls, Failure
    <3> QED BY <1>0, <3>1 DEF Ahead
  <2> QED BY <2>2, <2>3
<1> QED BY <1>1, <1>2 DEF OrderInv

\* A fetch task moves on.
LEMMA OrderFetch ==
    ASSUME ControlInv, OrderInv, Overlap = FALSE,
           NEW r \in Runs, NEW k \in Sources, FetchStep(r, k)
    PROVE  OrderInv'
<1>0. TypeOK /\ UNCHANGED <<now, price_snapshots, price_change_events>> /\ now \in Nat
  <2>1. UNCHANGED <<now, tables>>
    BY DEF FetchStep, CacheHit, StartFetch, Respond, HttpError, Return, RaiseError
  <2> QED BY <2>1 DEF ControlInv, TypeOK, tables
<1>a. \A s \in STORE_IDS : Known(s)' = Known(s) /\ \A t \in Known(s) : t \in Nat
  BY <1>0, KnownTypes DEF Known
<1>b. \A q \in Runs \ {r}, s \in STORE_IDS :
         call'[q][s] = call[q][s] /\ call[q][s].st = "todo"
  <2> SUFFICES ASSUME NEW q \in Runs, q # r, NEW s \in STORE_IDS
               PROVE  call'[q][s] = call[q][s] /\ call[q][s].st = "todo"
    OBVIOUS
  <2>1. Acts(r)
    BY DEF Acts, RunStep
  <2>2. ~Alive(q) /\ call'[q] = call[q]
    BY <1>0, <2>1, ActsAlive, ActsOnOne
  <2> QED BY <2>2 DEF ControlInv, Quiet, NoCalls
<1>c. ASSUME NEW st, NEW tries, NEW res, SetCall(r, k, st, tries, res)
      PROVE  /\ call'[r][k].st = st /\ call'[r][k].res = res
             /\ \A s \in STORE_IDS \ {k} : call'[r][s] = call[r][s]
  BY <1>0, <1>c DEF SetCall, TypeOK
\* It suffices to look at the one source.
<1>d. ASSUME \A s \in STORE_IDS \ {k} : call'[r][s] = call[r][s] /\ cache'[s] = cache[s],
             k \in STORE_IDS => Ahead(r, k)' /\ Behind(k)'
      PROVE  OrderInv'
  <2>1. ASSUME NEW s \in STORE_IDS
        PROVE  Behind(s)'
    BY <1>0, <1>a, <1>d, <2>1 DEF OrderInv, Behind
  <2>2. ASSUME NEW q \in Runs, NEW s \in STORE_IDS
        PROVE  Ahead(q, s)'
    <3>1. CASE q = r /\ s = k
      BY <1>d, <3>1
    <3>2. CASE q = r /\ s # k
      BY <1>0, <1>a, <1>d, <3>2 DEF OrderInv, Ahead
    <3>3. CASE q # r
      <4>1. call'[q][s] = call[q][s] /\ call[q][s].st = "todo"
        BY <1>b, <3>3
      <4> QED BY <1>0, <4>1 DEF OrderInv, Ahead
    <3> QED BY <3>1, <3>2, <3>3
  <2> QED BY <2>1, <2>2 DEF OrderInv
<1>1. CASE CacheHit(r, k)
  <2>1. /\ call'[r][k].st = "done" /\ call'[r][k].res = cache[k].res /\ now < cache[k].until
        /\ cache' = cache /\ \A s \in STORE_IDS \ {k} : call'[r][s] = call[r][s]
    BY <1>1, <1>c DEF CacheHit
  <2>2. k \in STORE_IDS => Ahead(r, k)' /\ Behind(k)'
    BY <1>0, <1>a, <2>1, InstantTypes DEF OrderInv, Ahead, Behind
  <2> QED BY <1>d, <2>1, <2>2
<1>2. CASE StartFetch(r, k)
  <2>1. /\ call'[r][k].st = "calling" /\ call'[r][k].res = Failure(now)
        /\ cache' = cache /\ \A s \in STORE_IDS \ {k} : call'[r][s] = call[r][s]
    BY <1>2, <1>c DEF StartFetch
  <2>2. call'[r][k].res.at = now
    BY <2>1 DEF Failure
  <2>3. k \in STORE_IDS => Ahead(r, k)' /\ Behind(k)'
    BY <1>0, <1>a, <2>1, <2>2, InstantTypes DEF OrderInv, Ahead, Behind
  <2> QED BY <1>d, <2>1, <2>3
<1>3. ASSUME NEW res, res.at = call[r][k].res.at, Return(r, k, res)
      PROVE  OrderInv'
  <2>1. /\ call[r][k].st = "calling"
        /\ call'[r][k].st = "done" /\ call'[r][k].res = res
        /\ \A s \in STORE_IDS \ {k} : call'[r][s] = call[r][s]
    BY <1>3, <1>c DEF Return
  <2>2. \A s \in STORE_IDS :
            cache'[s] = IF s = k THEN [until |-> now + CACHE_TTL, res |-> res] ELSE cache[s]
    BY <1>0, <1>3 DEF Return, TypeOK
  <2>3. k \in STORE_IDS => cache'[k].res = res
    BY <2>2
  <2>4. k \in STORE_IDS => Ahead(r, k)' /\ Behind(k)'
    BY <1>0, <1>3, <1>a, <2>1, <2>3, InstantTypes DEF OrderInv, Ahead, Behind
  <2> QED BY <1>d, <2>1, <2>2, <2>4
<1>4. CASE Respond(r, k) \/ HttpError(r, k)
  BY <1>3, <1>4 DEF Respond, HttpError
<1>5. CASE RaiseError(r, k)
  <2>1. PICK st \in {"todo", "raised"}, tries \in Int : SetCall(r, k, st, tries, call[r][k].res)
    <3>1. call[r][k].tries \in Int /\ call[r][k].tries + 1 \in Int
      BY <1>0 DEF TypeOK, Call
    <3> QED BY <1>5, <3>1 DEF RaiseError
  <2>2. /\ call'[r][k].st \in {"todo", "raised"} /\ call'[r][k].res = call[r][k].res
        /\ cache' = cache /\ \A s \in STORE_IDS \ {k} : call'[r][s] = call[r][s]
    BY <1>5, <1>c, <2>1 DEF RaiseError
  <2>3. k \in STORE_IDS => Ahead(r, k)' /\ Behind(k)'
    BY <1>0, <1>a, <2>2 DEF OrderInv, Ahead, Behind
  <2> QED BY <1>d, <2>2, <2>3
<1> QED BY <1>1, <1>2, <1>4, <1>5 DEF FetchStep

\* A run past its fetches makes known at most the instants of its own fetches.
LEMMA OrderPublish ==
    ASSUME ControlInv, OrderInv, Overlap = FALSE, NEW r \in Runs, Acts(r), pc[r] \in Past,
           UNCHANGED <<now, call, cache>>,
           \A s \in STORE_IDS : Known(s)' \subseteq Known(s) \cup {call[r][s].res.at}
    PROVE  OrderInv'
<1>0. TypeOK
  BY DEF ControlInv
<1>1. ASSUME NEW s \in STORE_IDS
      PROVE  /\ Ahead(r, s)' /\ Behind(s)'
  <2>1. call[r][s].st = "done"
    BY DEF ControlInv, Complete
  <2>2. \A t \in Known(s) : t \in Nat
    BY <1>0, KnownTypes
  <2> QED BY <1>0, <2>1, <2>2, InstantTypes DEF OrderInv, Ahead, Behind
<1>2. ASSUME NEW q \in Runs, q # r, NEW s \in STORE_IDS
      PROVE  Ahead(q, s)'
  <2>1. call[q][s].st = "todo"
    <3>1. ~Alive(q)
      BY <1>2, ActsAlive
    <3> QED BY <3>1 DEF ControlInv, Quiet, NoCalls
  <2> QED BY <2>1 DEF OrderInv, Ahead
<1> QED BY <1>1, <1>2 DEF OrderInv

\* A capture is of the run's fetch, and nothing known of its source is newer.
LEMMA CapturesAhead ==
    ASSUME ControlInv, OrderInv, NEW r \in Runs, pc[r] \in Past, NEW c \in Captures(r)
    PROVE  /\ c.src \in STORE_IDS /\ c.at = call[r][c.src].res.at
           /\ \A t \in Known(c.src) : t <= c.at
<1>1. c.src \in STORE_IDS /\ c.at = call[r][c.src].res.at
  BY DEF Captures, Rows
<1>2. call[r][c.src].st = "done"
  BY <1>1 DEF ControlInv, Complete
<1> QED BY <1>1, <1>2 DEF OrderInv, Ahead

\* So what the drift check finds starts from the latest snapshot.
LEMMA DetectedFromLatest ==
    ASSUME ControlInv, OrderInv, NEW r \in Runs, pc[r] \in Past, NEW e \in DetectedChanges(r)
    PROVE  e.at = call[r][e.src].res.at /\ FromLatest(e)
<1>1. PICK b \in price_snapshots, c \in Captures(r) : IsBaseline(b, c) /\ e = Change(b, c)
  BY DEF DetectedChanges
<1>2. e.src = c.src /\ e.item = c.item /\ e.prev = b.val /\ e.at = c.at
  BY <1>1 DEF Change
<1>3. b.at \in Known(c.src)
  BY <1>1 DEF IsBaseline, Known
<1>4. b.at <= e.at
  BY <1>2, <1>3, CapturesAhead
<1>5. FromLatest(e)
  BY <1>1, <1>2, <1>4 DEF FromLatest, IsBaseline
<1> QED BY <1>2, <1>5, CapturesAhead

\* Captures that are stored leave it so: none is older than the change.
LEMMA FromLatestStays ==
    ASSUME ControlInv, OrderInv, NEW r \in Runs, upsert_raw_snapshots(r),
           NEW e, FromLatest(e), e.src \in STORE_IDS,
           e.at \in Known(e.src) \/ e.at = call[r][e.src].res.at
    PROVE  FromLatest(e)'
<1>0. /\ pc[r] \in Past /\ price_snapshots \subseteq price_snapshots'
      /\ price_snapshots' \subseteq price_snapshots \cup Captures(r)
  BY DEF upsert_raw_snapshots, InsertRows, Past
<1>1. PICK b \in price_snapshots :
         /\ b.src = e.src /\ b.item = e.item /\ b.val = e.prev /\ b.at <= e.at
         /\ \A o \in price_snapshots :
               o.src = e.src /\ o.item = e.item => o.at <= b.at \/ o.at >= e.at
  BY DEF FromLatest
<1>2. ASSUME NEW o \in Captures(r), o.src = e.src
      PROVE  o.at >= e.at
  <2>1. o.at = call[r][e.src].res.at /\ o.at \in Nat
    BY <1>0, <1>2, CapturesAhead, InstantTypes DEF ControlInv
  <2>2. CASE e.at \in Known(e.src)
    <3>1. e.at <= o.at /\ e.at \in Nat
      BY <1>0, <1>2, <2>2, CapturesAhead, KnownTypes DEF ControlInv
    <3> QED BY <2>1, <3>1
  <2>3. CASE e.at = call[r][e.src].res.at
    BY <2>1, <2>3
  <2> QED BY <2>2, <2>3
<1> QED BY <1>0, <1>1, <1>2 DEF FromLatest

LEMMA OrderStep ==
    ASSUME TurnsInv, Overlap = FALSE, [Next]_vars
    PROVE  OrderInv'
<1>0. TypeOK /\ ControlInv /\ OrderInv
  BY DEF TurnsInv, ControlInv
<1>1. ASSUME NEW r \in Runs, Acts(r), UNCHANGED <<now, cache, price_snapshots, price_change_events>>,
             call'[r] = call[r] \/ call'[r] = NoCalls
      PROVE  OrderInv'
  <2>1. \A q \in Runs : call'[q] = call[q] \/ call'[q] = NoCalls
    BY <1>0, <1>1, ActsOnOne
  <2> QED BY <1>0, <1>1, <2>1, OrderKept
<1>2. ASSUME NEW r \in Runs, Acts(r)
      PROVE  OrderInv'
  <2>1. CASE Trigger(r) \/ Gathered(r) \/ quick_drift_check(r) \/ upsert_raw_fx(r)
             \/ ConstraintError(r) \/ DbError(r)
    BY <1>1, <1>2, <2>1 DEF Trigger, Gathered, quick_drift_check, upsert_raw_fx,
       ConstraintError, DbError, tables
  <2>2. CASE validate_response_health(r) \/ Exit(r) \/ Crash(r)
    BY <1>0, <1>1, <1>2, <2>2 DEF validate_response_health, Exit, Crash, End, TypeOK, tables
  <2>3. ASSUME NEW k \in Sources, FetchStep(r, k)
        PROVE  OrderInv'
    BY <1>0, <2>3, OrderFetch
  <2>4. CASE upsert_raw_snapshots(r)
    <3>1. /\ pc[r] \in Past /\ UNCHANGED <<now, call, cache, price_change_events>>
          /\ price_snapshots' \subseteq price_snapshots \cup Captures(r)
      BY <2>4 DEF upsert_raw_snapshots, InsertRows, Past
    <3>2. \A c \in Captures(r) : c.at = call[r][c.src].res.at
      BY <1>0, <3>1, CapturesAhead
    <3>3. \A s \in STORE_IDS : Known(s)' \subseteq Known(s) \cup {call[r][s].res.at}
      BY <3>1, <3>2 DEF Known
    <3> QED BY <1>0, <1>2, <3>1, <3>3, OrderPublish
  <2>5. CASE upsert_change_events(r)
    <3>1. /\ pc[r] = "events" /\ UNCHANGED <<now, call, cache, price_snapshots>>
          /\ price_change_events' \subseteq price_change_events \cup events[r]
      BY <2>5 DEF upsert_change_events, InsertEvents
    <3>2. \A e \in events[r] : e.at = call[r][e.src].res.at
      BY <3>1 DEF TurnsInv, Carried
    <3>3. \A s \in STORE_IDS : Known(s)' \subseteq Known(s) \cup {call[r][s].res.at}
      BY <3>1, <3>2 DEF Known
    <3> QED BY <1>0, <1>2, <3>1, <3>3, OrderPublish DEF Past
  <2> QED BY <1>2, <2>1, <2>2, <2>3, <2>4, <2>5 DEF Acts, RunStep, FlowStep
<1>3. CASE LoseCache \/ Tick \/ UNCHANGED vars
  <2>1. /\ UNCHANGED <<price_snapshots, price_change_events, call>>
        /\ now' \in {now, now + 1}
        /\ cache' = cache \/ (now' = now /\ \A s \in STORE_IDS : cache'[s] = NotCached)
    BY <1>3 DEF LoseCache, Tick, vars, tables
  <2> QED BY <1>0, <2>1, OrderKept
<1> QED BY <1>2, <1>3 DEF Next, Acts

LEMMA TurnsStep ==
    ASSUME TurnsInv, Overlap = FALSE, [Next]_vars
    PROVE  TurnsInv'
<1>0. /\ ControlInv /\ ControlInv' /\ OrderInv /\ OrderInv' /\ TypeOK
      /\ EventsFromLatest /\ \A q \in Runs : Carried(q)
  BY ControlStep, OrderStep DEF TurnsInv, ControlInv
<1>a. ASSUME UNCHANGED <<price_snapshots, price_change_events>>
      PROVE  EventsFromLatest'
  BY <1>0, <1>a DEF EventsFromLatest
<1>b. ASSUME UNCHANGED price_snapshots, NEW e, FromLatest(e)
      PROVE  FromLatest(e)'
  BY <1>b DEF FromLatest
<1>1. ASSUME NEW r \in Runs, Acts(r)
      PROVE  EventsFromLatest' /\ \A q \in Runs : Carried(q)'
  <2>1. ASSUME NEW q \in Runs, q # r
        PROVE  Carried(q)'
    <3>1. ~Alive(q) /\ pc'[q] = pc[q]
      BY <1>0, <1>1, <2>1, ActsAlive, ActsOnOne
    <3>2. pc'[q] \in {"idle", "done", "dead"}
      BY <3>1 DEF Alive
    <3> QED BY <3>2 DEF Carried
  <2>2. ASSUME pc'[r] \notin {"snapshots", "fx", "events"}
        PROVE  Carried(r)'
    BY <2>2 DEF Carried
  <2>3. CASE Trigger(r) \/ Gathered(r) \/ ConstraintError(r) \/ Exit(r) \/ Crash(r)
             \/ DbError(r) \/ validate_response_health(r)
             \/ \E k \in Sources : FetchStep(r, k)
    <3>1. UNCHANGED <<price_snapshots, price_change_events>>
      BY <2>3 DEF Trigger, Gathered, ConstraintError, Exit, Crash, DbError, FetchStep,
         validate_response_health, CacheHit, StartFetch, Respond, HttpError, Return,
         RaiseError, tables
    <3>2. pc'[r] \notin {"snapshots", "fx", "events"}
      BY <1>0, <2>3 DEF Trigger, Gathered, ConstraintError, Exit, Crash, DbError, FetchStep,
         validate_response_health, CacheHit, StartFetch, Respond, HttpError, Return,
         RaiseError, Fetching, Advance, After, Fail, End, TypeOK
    <3> QED BY <1>a, <2>1, <2>2, <3>1, <3>2
  <2>4. CASE quick_drift_check(r)
    <3>1. /\ pc[r] = "drift" /\ UNCHANGED <<price_snapshots, price_change_events, call>>
          /\ events'[r] = DetectedChanges(r)
      BY <1>0, <2>4 DEF quick_drift_check, tables, TypeOK
    <3>2. \A e \in DetectedChanges(r) : e.at = call[r][e.src].res.at /\ FromLatest(e)
      BY <1>0, <3>1, DetectedFromLatest DEF Past
    <3>3. Carried(r)'
      BY <1>b, <3>1, <3>2 DEF Carried
    <3> QED BY <1>a, <2>1, <3>1, <3>3
  <2>5. CASE upsert_raw_fx(r)
    <3>1. UNCHANGED <<price_snapshots, price_change_events, call, events>> /\ pc[r] = "fx"
      BY <2>5 DEF upsert_raw_fx
    <3>2. Carried(r)'
      BY <1>0, <1>b, <3>1 DEF Carried
    <3> QED BY <1>a, <2>1, <3>1, <3>2
  <2>6. CASE upsert_raw_snapshots(r)
    <3>1. UNCHANGED <<price_change_events, call, events>> /\ pc[r] = "snapshots"
      BY <2>6 DEF upsert_raw_snapshots
    <3>2. ASSUME NEW e \in events[r]
          PROVE  e.at = call'[r][e.src].res.at /\ FromLatest(e)'
      <4>1. e.at = call[r][e.src].res.at /\ FromLatest(e) /\ e.src \in STORE_IDS
        BY <1>0, <3>1, <3>2, InstantTypes DEF Carried
      <4> QED BY <1>0, <2>6, <3>1, <4>1, FromLatestStays
    <3>3. ASSUME NEW e \in price_change_events
          PROVE  FromLatest(e)'
      <4>1. FromLatest(e) /\ e.src \in STORE_IDS /\ e.at \in Known(e.src)
        BY <1>0, <3>3, InstantTypes DEF EventsFromLatest, FromLatest, Known
      <4> QED BY <1>0, <2>6, <4>1, FromLatestStays
    <3>4. EventsFromLatest'
      BY <3>1, <3>3 DEF EventsFromLatest, FromLatest
    <3>5. Carried(r)'
      BY <3>1, <3>2 DEF Carried
    <3> QED BY <2>1, <3>4, <3>5
  <2>7. CASE upsert_change_events(r)
    <3>1. /\ pc[r] = "events" /\ UNCHANGED price_snapshots
          /\ price_change_events' \subseteq price_change_events \cup events[r]
      BY <2>7 DEF upsert_change_events, InsertEvents
    <3>2. pc'[r] \in {"health", "failed"}
      BY <1>0, <2>7 DEF upsert_change_events, Commit, Advance, After, Fail, TypeOK
    <3>3. \A e \in price_change_events' : FromLatest(e)
      BY <1>0, <3>1 DEF Carried, EventsFromLatest, FromLatest
    <3>4. EventsFromLatest'
      BY <1>b, <3>1, <3>3 DEF EventsFromLatest, FromLatest
    <3> QED BY <2>1, <2>2, <3>2, <3>4
  <2> QED BY <1>1, <2>3, <2>4, <2>5, <2>6, <2>7 DEF Acts, RunStep, FlowStep
<1>2. CASE LoseCache \/ Tick \/ UNCHANGED vars
  <2>1. UNCHANGED <<price_snapshots, price_change_events, pc, call, events>>
    BY <1>2 DEF LoseCache, Tick, vars, tables
  <2>2. ASSUME NEW q \in Runs
        PROVE  Carried(q)'
    BY <1>0, <1>b, <2>1 DEF Carried
  <2> QED BY <1>0, <1>a, <2>1, <2>2 DEF TurnsInv
<1> QED BY <1>0, <1>1, <1>2 DEF Next, Acts, TurnsInv

LEMMA TurnsInit == Init => TurnsInv
<1> SUFFICES ASSUME Init PROVE TurnsInv
  OBVIOUS
<1>1. ControlInv /\ TypeOK
  BY ControlInit DEF ControlInv
<1>2. /\ now = 0 /\ price_snapshots = {} /\ price_change_events = {}
      /\ \A s \in STORE_IDS : cache[s] = NotCached
      /\ \A r \in Runs : pc[r] = "idle" /\ call[r] = NoCalls
  BY DEF Init
<1>3. \A s \in STORE_IDS : Behind(s)
  BY <1>2 DEF Behind, Known, NotCached, Failure
<1>4. \A r \in Runs, s \in STORE_IDS : Ahead(r, s)
  BY <1>2 DEF Ahead, NoCalls, Failure
<1> QED BY <1>1, <1>2, <1>3, <1>4 DEF TurnsInv, OrderInv, EventsFromLatest, Carried

\* When runs do not overlap, every event starts from the latest snapshot of its
\* pair at its time, however many results, runs and batches are lost: it is
\* raised before its own snapshot is stored, and nothing slips in between.
THEOREM FromLatestInTurns ==
    ASSUME Overlap = FALSE
    PROVE  Spec => []EventsFromLatest
<1>1. Init => TurnsInv
  BY TurnsInit
<1>2. TurnsInv /\ [Next]_vars => TurnsInv'
  BY TurnsStep
<1>3. TurnsInv => EventsFromLatest
  BY DEF TurnsInv
<1> QED BY <1>1, <1>2, <1>3, PTL DEF Spec

\* So only runs that overlap can make an event compare with a later price than
\* its own: that quick_drift_check "sees the prior value" needs turns, and
\* neither a durable cache nor a run without failures.
THEOREM PriorInTurns ==
    ASSUME Overlap = FALSE
    PROVE  Spec => []ComparesWithPrior
<1>1. Spec => []EventsFromLatest
  BY FromLatestInTurns
<1>2. EventsFromLatest => ComparesWithPrior
  BY DEF EventsFromLatest, ComparesWithPrior
<1> QED BY <1>1, <1>2, PTL

=============================================================================
