------------------------- MODULE LightSerialProofs -------------------------
(***************************************************************************)
(* Proofs about the light flow when no two runs are alive at once and the  *)
(* result cache outlives the runs: cache hits, HTTP errors, retries,       *)
(* crashes, lost acknowledgements and refused batches included.            *)
(*                                                                         *)
(* The argument: a completed fetch is what the cache holds for its source; *)
(* a stored snapshot is part of it or from an earlier minute, because the  *)
(* next fetch starts when the record has expired, at least a minute after  *)
(* it started.  So a capture is either stored already, and then its own    *)
(* baseline, or newer than all that is stored of its pair.                 *)
(***************************************************************************)
EXTENDS LightTurnsProofs

USE DEF Sources

Serial == Overlap = FALSE /\ CacheDurable = TRUE

\* What else happens leaves the runs alone, and the cache too.
LEMMA OtherSteps ==
    ASSUME Serial, LoseCache \/ Tick \/ UNCHANGED vars
    PROVE  /\ UNCHANGED <<pc, call, events, cache, tables>>
           /\ now' \in {now, now + 1}
BY DEF Serial, LoseCache, Tick, vars

-----------------------------------------------------------------------------
(* The cache: every snapshot is of the cached fetch or of an earlier minute. *)

\* A completed fetch is what the cache holds.
Held(r, s) == call[r][s].st = "done" => call[r][s].res = cache[s].res

\* A fetch going on started a cache lifetime after everything stored.
InFlight(r, s) ==
    call[r][s].st = "calling" =>
        \A o \in price_snapshots : o.src = s => o.at + CACHE_TTL <= call[r][s].res.at

Superseded(o) ==
    /\ o.at + CACHE_TTL <= cache[o.src].until
    /\ \/ o \in Rows(o.src, cache[o.src].res)
       \/ Minute(o.at) < Minute(cache[o.src].res.at)

\* Nothing is captured in the future; a record with rows lives CACHE_TTL.
Timed(s) ==
    /\ cache[s].res.at <= now
    /\ Rows(s, cache[s].res) # {} => cache[s].res.at + CACHE_TTL <= cache[s].until

CacheInv ==
    /\ \A o \in price_snapshots : o.at <= now /\ Superseded(o)
    /\ \A s \in STORE_IDS : Timed(s)
    /\ \A r \in Runs, s \in STORE_IDS :
          call[r][s].res.at <= now /\ Held(r, s) /\ InFlight(r, s)

\* A cache lifetime is at least a minute.
LEMMA MinutePasses ==
    ASSUME NEW a \in Nat, NEW b \in Nat, a + CACHE_TTL <= b
    PROVE  Minute(a) < Minute(b)
BY ConstantsOK DEF Minute

LEMMA MinuteMonotone ==
    ASSUME NEW a \in Nat, NEW b \in Nat, Minute(a) < Minute(b)
    PROVE  a < b
BY ConstantsOK DEF Minute

\* The steps that change neither the cache nor the snapshots, and leave a call
\* as it is or forget it.
LEMMA CacheKept ==
    ASSUME TypeOK, CacheInv, now' >= now, now' \in Nat, UNCHANGED <<cache, price_snapshots>>,
           \A q \in Runs : call'[q] = call[q] \/ call'[q] = NoCalls
    PROVE  CacheInv'
<1>1. ASSUME NEW q \in Runs, NEW s \in STORE_IDS
      PROVE  (call[q][s].res.at <= now /\ Held(q, s) /\ InFlight(q, s))'
  <2>1. CASE call'[q] = call[q]
    <3>1. call[q][s].res.at <= now /\ now \in Nat /\ call[q][s].res.at \in Nat
      BY DEF TypeOK, CacheInv, Call, AnyResult
    <3> QED BY <2>1, <3>1 DEF CacheInv, Held, InFlight
  <2>2. CASE call'[q] = NoCalls
    BY <2>2 DEF NoCalls, Failure, Held, InFlight
  <2> QED BY <2>1, <2>2
<1>2. ASSUME NEW o \in price_snapshots'
      PROVE  (o.at <= now /\ Superseded(o))'
  BY <1>2 DEF TypeOK, CacheInv, Superseded, SnapshotRow, Rows
<1>3. ASSUME NEW s \in STORE_IDS
      PROVE  Timed(s)'
  BY <1>3 DEF TypeOK, CacheInv, Timed, Rows, AnyResult
<1> QED BY <1>1, <1>2, <1>3 DEF CacheInv

\* A fetch task moves on.
LEMMA CacheFetch ==
    ASSUME ControlInv, CacheInv, Serial, NEW r \in Runs, NEW k \in Sources, FetchStep(r, k)
    PROVE  CacheInv'
<1>0. TypeOK /\ UNCHANGED <<now, price_snapshots>> /\ now \in Nat
  <2>1. UNCHANGED <<now, tables>>
    BY DEF FetchStep, CacheHit, StartFetch, Respond, HttpError, Return, RaiseError
  <2> QED BY <2>1 DEF ControlInv, TypeOK, tables
<1>n. \A o \in price_snapshots : o.at \in Nat
  BY <1>0 DEF TypeOK, SnapshotRow
<1>a. \A q \in Runs, s \in STORE_IDS : call[q][s].res.at \in Nat /\ cache[s].until \in Nat
  BY <1>0 DEF TypeOK, Call, AnyResult
<1>b. \A q \in Runs \ {r}, s \in STORE_IDS :
         call'[q][s] = call[q][s] /\ call[q][s].st = "todo"
  <2> SUFFICES ASSUME NEW q \in Runs, q # r, NEW s \in STORE_IDS
               PROVE  call'[q][s] = call[q][s] /\ call[q][s].st = "todo"
    OBVIOUS
  <2>1. Acts(r)
    BY DEF Acts, RunStep
  <2>2. ~Alive(q) /\ call'[q] = call[q]
    BY <1>0, <2>1, ActsAlive, ActsOnOne DEF Serial
  <2> QED BY <2>2 DEF ControlInv, Quiet, NoCalls
<1>c. ASSUME NEW st, NEW tries, NEW res, SetCall(r, k, st, tries, res)
      PROVE  /\ call'[r][k].st = st /\ call'[r][k].res = res
             /\ \A s \in STORE_IDS \ {k} : call'[r][s] = call[r][s]
  BY <1>0, <1>c DEF SetCall, TypeOK
\* A step that leaves the cache alone is about the one call.
<1>d. ASSUME UNCHANGED cache,
             k \in STORE_IDS => (call[r][k].res.at <= now /\ Held(r, k) /\ InFlight(r, k))',
             \A s \in STORE_IDS \ {k} : call'[r][s] = call[r][s]
      PROVE  CacheInv'
  <2>1. ASSUME NEW q \in Runs, NEW s \in STORE_IDS
        PROVE  (call[q][s].res.at <= now /\ Held(q, s) /\ InFlight(q, s))'
    <3>1. CASE q = r /\ s = k
      BY <1>d, <3>1
    <3>2. CASE ~(q = r /\ s = k)
      <4>1. call'[q][s] = call[q][s]
        BY <1>b, <1>d, <3>2
      <4> QED BY <1>0, <1>d, <4>1 DEF CacheInv, Held, InFlight
    <3> QED BY <3>1, <3>2
  <2>2. \A o \in price_snapshots' : (o.at <= now /\ Superseded(o))'
    BY <1>0, <1>d DEF CacheInv, Superseded, Rows
  <2>3. \A s \in STORE_IDS : Timed(s)'
    BY <1>0, <1>d DEF CacheInv, Timed, Rows
  <2> QED BY <2>1, <2>2, <2>3 DEF CacheInv
<1>1. CASE CacheHit(r, k)
  <2>1. call'[r][k].st = "done" /\ call'[r][k].res = cache[k].res
    BY <1>1, <1>c DEF CacheHit
  <2>2. UNCHANGED cache /\ \A s \in STORE_IDS \ {k} : call'[r][s] = call[r][s]
    BY <1>1, <1>c DEF CacheHit
  <2>3. k \in STORE_IDS => (call[r][k].res.at <= now /\ Held(r, k) /\ InFlight(r, k))'
    BY <1>0, <2>1, <2>2 DEF CacheInv, Timed, Held, InFlight
  <2> QED BY <1>d, <2>2, <2>3
<1>2. CASE StartFetch(r, k)
  <2>1. call'[r][k].st = "calling" /\ call'[r][k].res.at = now
    <3>1. call'[r][k].st = "calling" /\ call'[r][k].res = Failure(now)
      BY <1>2, <1>c DEF StartFetch
    <3> QED BY <3>1 DEF Failure
  <2>2. UNCHANGED cache /\ \A s \in STORE_IDS \ {k} : call'[r][s] = call[r][s]
    BY <1>2, <1>c DEF StartFetch
  <2>3. ASSUME k \in STORE_IDS, NEW o \in price_snapshots, o.src = k
        PROVE  o.at + CACHE_TTL <= now
    <3>1. cache[k].until <= now /\ o.at + CACHE_TTL <= cache[k].until
      BY <1>2, <2>3 DEF StartFetch, CacheInv, Superseded
    <3> QED BY <1>0, <1>n, <1>a, <2>3, <3>1, ConstantsOK
  <2>4. k \in STORE_IDS => (call[r][k].res.at <= now /\ Held(r, k) /\ InFlight(r, k))'
    BY <1>0, <2>1, <2>3 DEF Held, InFlight
  <2> QED BY <1>d, <2>2, <2>4
<1>3. ASSUME NEW res, res.at = call[r][k].res.at, Return(r, k, res)
      PROVE  CacheInv'
  <2>1. /\ call[r][k].st = "calling"
        /\ call'[r][k].st = "done" /\ call'[r][k].res = res
        /\ \A s \in STORE_IDS \ {k} : call'[r][s] = call[r][s]
    BY <1>3, <1>c DEF Return
  <2>2. \A s \in STORE_IDS :
            cache'[s] = IF s = k THEN [until |-> now + CACHE_TTL, res |-> res] ELSE cache[s]
    BY <1>0, <1>3 DEF Return, TypeOK
  <2>3. k \in STORE_IDS => res.at \in Nat /\ res.at <= now
    BY <1>a, <1>3 DEF CacheInv
  <2>4. ASSUME NEW q \in Runs, NEW s \in STORE_IDS
        PROVE  (call[q][s].res.at <= now /\ Held(q, s) /\ InFlight(q, s))'
    <3>1. CASE q = r /\ s = k
      <4>1. call'[q][s].st = "done" /\ call'[q][s].res = res /\ cache'[s].res = res
        BY <2>1, <2>2, <3>1
      <4> QED BY <1>0, <2>3, <3>1, <4>1 DEF Held, InFlight
    <3>2. CASE q = r /\ s # k
      <4>1. call'[q][s] = call[q][s] /\ cache'[s] = cache[s]
        BY <2>1, <2>2, <3>2
      <4> QED BY <1>0, <4>1 DEF CacheInv, Held, InFlight
    <3>3. CASE q # r
      <4>1. call'[q][s] = call[q][s] /\ call[q][s].st = "todo"
        BY <1>b, <3>3
      <4> QED BY <1>0, <4>1 DEF CacheInv, Held, InFlight
    <3> QED BY <3>1, <3>2, <3>3
  <2>5. ASSUME NEW s \in STORE_IDS
        PROVE  Timed(s)'
    <3>1. CASE s = k
      <4>1. cache'[s].res = res /\ cache'[s].until = now + CACHE_TTL
        BY <2>2, <3>1
      <4> QED BY <1>0, <2>3, <3>1, <4>1, ConstantsOK DEF Timed
    <3>2. CASE s # k
      BY <1>0, <2>2, <3>2 DEF CacheInv, Timed, Rows
    <3> QED BY <3>1, <3>2
  <2>6. ASSUME NEW o \in price_snapshots
        PROVE  (o.at <= now /\ Superseded(o))'
    <3>0. o.src \in STORE_IDS /\ o.at \in Nat /\ o.at <= now
      BY <1>0 DEF TypeOK, SnapshotRow, CacheInv
    <3>1. CASE o.src = k
      <4>1. cache'[o.src].res.at = res.at /\ cache'[o.src].until = now + CACHE_TTL
        BY <2>2, <3>0, <3>1
      <4>2. o.at + CACHE_TTL <= res.at
        BY <1>3, <2>1, <3>0, <3>1 DEF CacheInv, InFlight
      <4>3. Minute(o.at) < Minute(res.at)
        BY <2>3, <3>0, <3>1, <4>2, MinutePasses
      <4>4. o.at + CACHE_TTL <= now + CACHE_TTL
        BY <1>0, <3>0, ConstantsOK
      <4>5. Minute(cache'[o.src].res.at) = Minute(res.at)
        BY <4>1
      <4> QED BY <1>0, <3>0, <4>1, <4>3, <4>4, <4>5 DEF Superseded, Minute
    <3>2. CASE o.src # k
      <4>1. cache'[o.src] = cache[o.src]
        BY <2>2, <3>0, <3>2
      <4> QED BY <1>0, <3>0, <4>1 DEF CacheInv, Superseded, Rows, Minute
    <3> QED BY <3>1, <3>2
  <2> QED BY <1>0, <2>4, <2>5, <2>6 DEF CacheInv
<1>4. CASE Respond(r, k) \/ HttpError(r, k)
  BY <1>3, <1>4 DEF Respond, HttpError
<1>5. CASE RaiseError(r, k)
  <2>1. PICK st \in {"todo", "raised"}, tries \in Int : SetCall(r, k, st, tries, call[r][k].res)
    <3>1. call[r][k].tries \in Int /\ call[r][k].tries + 1 \in Int
      BY <1>0 DEF TypeOK, Call
    <3> QED BY <1>5, <3>1 DEF RaiseError
  <2>2. UNCHANGED cache /\ \A s \in STORE_IDS \ {k} : call'[r][s] = call[r][s]
    BY <1>5, <1>c, <2>1 DEF RaiseError
  <2>3. /\ call'[r][k].st # "done" /\ call'[r][k].st # "calling"
        /\ call'[r][k].res = call[r][k].res
    BY <1>c, <2>1
  <2>4. k \in STORE_IDS => (call[r][k].res.at <= now /\ Held(r, k) /\ InFlight(r, k))'
    BY <1>0, <2>3 DEF CacheInv, Held, InFlight
  <2> QED BY <1>d, <2>2, <2>4
<1> QED BY <1>1, <1>2, <1>4, <1>5 DEF FetchStep

\* The captures of a run past its fetches are rows of the cached results.
LEMMA CapturesCached ==
    ASSUME ControlInv, CacheInv, NEW r \in Runs, pc[r] \in Past, NEW c \in Captures(r)
    PROVE  c.src \in STORE_IDS /\ c \in Rows(c.src, cache[c.src].res)
<1>1. PICK s \in STORE_IDS : c \in Rows(s, call[r][s].res)
  BY DEF Captures
<1>2. c.src = s
  BY <1>1 DEF Rows
<1>3. call[r][s].res = cache[s].res
  BY DEF ControlInv, Complete, CacheInv, Held
<1> QED BY <1>1, <1>2, <1>3

\* The snapshots are stored.
LEMMA CacheUpsert ==
    ASSUME ControlInv, CacheInv, Serial, NEW r \in Runs, upsert_raw_snapshots(r)
    PROVE  CacheInv'
<1>0. /\ UNCHANGED <<now, cache, call>> /\ pc[r] = "snapshots"
      /\ price_snapshots' \subseteq price_snapshots \cup Captures(r)
  BY DEF upsert_raw_snapshots, InsertRows
<1>1. ASSUME NEW o \in price_snapshots'
      PROVE  (o.at <= now /\ Superseded(o))'
  <2>1. CASE o \in price_snapshots
    BY <1>0, <2>1 DEF CacheInv, Superseded, Rows
  <2>2. CASE o \in Captures(r)
    <3>1. o.src \in STORE_IDS /\ o \in Rows(o.src, cache[o.src].res)
      BY <1>0, <2>2, CapturesCached DEF Past
    <3>2. o.at = cache[o.src].res.at /\ Timed(o.src)
      BY <3>1 DEF Rows, CacheInv
    <3> QED BY <1>0, <3>1, <3>2 DEF Timed, Superseded, Rows
  <2> QED BY <1>0, <2>1, <2>2
<1>2. ASSUME NEW q \in Runs, NEW s \in STORE_IDS
      PROVE  (call[q][s].res.at <= now /\ Held(q, s) /\ InFlight(q, s))'
  <2>1. call[q][s].st # "calling"
    <3>1. CASE q = r
      BY <1>0, <3>1 DEF ControlInv, Complete, Past
    <3>2. CASE q # r
      <4>1. ~Alive(q)
        BY <3>2, ActsAlive DEF Acts, RunStep, FlowStep, Serial
      <4> QED BY <4>1 DEF ControlInv, Quiet, NoCalls
    <3> QED BY <3>1, <3>2
  <2> QED BY <1>0, <2>1 DEF CacheInv, Held, InFlight
<1>3. \A s \in STORE_IDS : Timed(s)'
  BY <1>0 DEF CacheInv, Timed, Rows
<1> QED BY <1>1, <1>2, <1>3 DEF CacheInv

LEMMA CacheStep ==
    ASSUME ControlInv, CacheInv, Serial, [Next]_vars
    PROVE  CacheInv'
<1>0. TypeOK /\ now \in Nat
  BY DEF ControlInv, TypeOK
<1>1. ASSUME NEW r \in Runs,
             \/ Trigger(r) \/ Gathered(r) \/ quick_drift_check(r) \/ upsert_raw_fx(r)
             \/ upsert_change_events(r) \/ ConstraintError(r) \/ DbError(r)
      PROVE  CacheInv'
  <2>1. UNCHANGED <<now, cache, price_snapshots, call>>
    BY <1>1 DEF Trigger, Gathered, quick_drift_check, upsert_raw_fx, upsert_change_events,
           ConstraintError, DbError, tables
  <2> QED BY <1>0, <2>1, CacheKept
<1>2. ASSUME NEW r \in Runs, validate_response_health(r) \/ Exit(r) \/ Crash(r)
      PROVE  CacheInv'
  <2>1. UNCHANGED <<now, cache, price_snapshots>>
    BY <1>2 DEF validate_response_health, Exit, Crash, tables
  <2>2. \A q \in Runs : call'[q] = call[q] \/ call'[q] = NoCalls
    BY <1>0, <1>2 DEF validate_response_health, Exit, Crash, End, TypeOK
  <2> QED BY <1>0, <2>1, <2>2, CacheKept
<1>3. CASE LoseCache \/ Tick \/ UNCHANGED vars
  <2>1. UNCHANGED <<cache, price_snapshots, call>> /\ now' \in {now, now + 1}
    BY <1>3, OtherSteps DEF tables
  <2> QED BY <1>0, <2>1, CacheKept
<1> QED BY <1>1, <1>2, <1>3, CacheFetch, CacheUpsert DEF Next, RunStep, FlowStep

LEMMA CacheInit == Init => CacheInv
<1> SUFFICES ASSUME Init PROVE CacheInv
  OBVIOUS
<1>1. /\ price_snapshots = {} /\ now = 0
      /\ \A s \in STORE_IDS : cache[s] = NotCached /\ \A r \in Runs : call[r][s] = NoCalls[s]
  BY DEF Init
<1>2. ASSUME NEW s \in STORE_IDS
      PROVE  Timed(s)
  BY <1>1 DEF Timed, NotCached, Failure, NoItems, Rows
<1>3. ASSUME NEW r \in Runs, NEW s \in STORE_IDS
      PROVE  call[r][s].res.at <= now /\ Held(r, s) /\ InFlight(r, s)
  BY <1>1 DEF NoCalls, Failure, Held, InFlight
<1> QED BY <1>1, <1>2, <1>3 DEF CacheInv

-----------------------------------------------------------------------------
(* The events: the steps between consecutive snapshots of a pair. *)

\* A capture is stored already or newer than all that is stored of its pair.
LEMMA NewerThanStored ==
    ASSUME ControlInv, CacheInv, NEW r \in Runs, pc[r] \in Past,
           NEW b \in price_snapshots, NEW c \in Captures(r), SameItem(b, c)
    PROVE  b = c \/ (Minute(b.at) < Minute(c.at) /\ b.at < c.at)
<1>1. c \in Rows(c.src, cache[c.src].res) /\ b.src = c.src /\ b.item = c.item
  BY CapturesCached DEF SameItem
<1>2. c.at = cache[c.src].res.at /\ c.at \in Nat /\ b.at \in Nat
  <2>1. TypeOK
    BY DEF ControlInv
  <2>2. b \in SnapshotRow /\ c \in SnapshotRow
    BY <2>1, CapturesType DEF TypeOK
  <2> QED BY <1>1, <2>2 DEF Rows, SnapshotRow
<1>3. CASE b \in Rows(c.src, cache[c.src].res)
  BY <1>1, <1>3 DEF Rows
<1>4. CASE Minute(b.at) < Minute(cache[c.src].res.at)
  <2>1. Minute(b.at) < Minute(c.at)
    BY <1>2, <1>4
  <2> QED BY <1>2, <2>1, MinuteMonotone
<1> QED BY <1>1, <1>3, <1>4 DEF CacheInv, Superseded

\* A run captures a pair once.
LEMMA CapturedOnce ==
    ASSUME NEW r \in Runs, NEW c \in Captures(r), NEW d \in Captures(r), SameItem(c, d)
    PROVE  c = d
BY DEF Captures, Rows, SameItem

\* A price has not moved from itself.
LEMMA NotMoved ==
    ASSUME NEW p \in Nat
    PROVE  ~Moved(p, p)
<1> SUFFICES ASSUME p # 0
             PROVE  ~(0 >= drift_threshold_pct * p)
  BY DEF Moved, Abs
<1> QED BY ConstantsOK

\* What the drift check finds is a change from an older snapshot.
LEMMA DetectedOlder ==
    ASSUME ControlInv, CacheInv, NEW r \in Runs, pc[r] \in Past,
           NEW b \in price_snapshots, NEW c \in Captures(r),
           IsBaseline(b, c), Moved(b.val, c.val)
    PROVE  b.at < c.at /\ c \notin price_snapshots
<1>1. c.val \in Nat /\ b.at \in Nat /\ c.at \in Nat
  BY CapturesType, ConstantsOK DEF ControlInv, TypeOK, SnapshotRow
<1>2. b # c
  BY <1>1, NotMoved
<1>3. b.at < c.at
  BY <1>2, NewerThanStored DEF IsBaseline, SameItem
<1> QED BY <1>1, <1>3 DEF IsBaseline

Backing(e) ==
    \E b, c \in price_snapshots :
        Consecutive(b, c) /\ Moved(b.val, c.val) /\ e = Change(b, c)

\* What a run has detected and not yet written.
Unwritten(r) ==
    /\ pc[r] = "snapshots" => events[r] = DetectedChanges(r)
    /\ pc[r] \in {"fx", "events"} => \A e \in events[r] : Backing(e)

EventInv == EventsBacked /\ \A r \in Runs : Unwritten(r)

SerialInv == ControlInv /\ CacheInv /\ EventInv

\* The snapshots a run adds are newer than those of their pairs.
LEMMA AddedNewer ==
    ASSUME ControlInv, CacheInv, NEW r \in Runs, upsert_raw_snapshots(r),
           NEW b \in price_snapshots, NEW o \in price_snapshots' \ price_snapshots,
           SameItem(b, o)
    PROVE  b.at < o.at
<1>1. pc[r] \in Past /\ o \in Captures(r)
  BY DEF upsert_raw_snapshots, InsertRows, Past
<1> QED BY <1>1, NewerThanStored

\* Every capture is then stored.
LEMMA CapturesStored ==
    ASSUME ControlInv, CacheInv, NEW r \in Runs, upsert_raw_snapshots(r),
           NEW c \in Captures(r)
    PROVE  c \in price_snapshots'
<1>1. pc[r] \in Past /\ price_snapshots' = InsertRows(price_snapshots, Captures(r))
  BY DEF upsert_raw_snapshots, Past
<1>2. ASSUME NEW old \in price_snapshots, RowKey(old) = RowKey(c)
      PROVE  old = c
  <2>1. SameItem(old, c) /\ Minute(old.at) = Minute(c.at)
    BY <1>2 DEF RowKey, SameItem
  <2>2. Minute(old.at) \in Int
    BY ConstantsOK DEF ControlInv, TypeOK, SnapshotRow, Minute
  <2> QED BY <1>1, <2>1, <2>2, NewerThanStored
<1> QED BY <1>1, <1>2 DEF InsertRows

\* Newer snapshots leave the older consecutive ones consecutive.
LEMMA BackedStays ==
    ASSUME ControlInv, CacheInv, NEW r \in Runs, upsert_raw_snapshots(r),
           NEW e, Backing(e)
    PROVE  Backing(e)'
<1>1. PICK b \in price_snapshots, c \in price_snapshots :
         Consecutive(b, c) /\ Moved(b.val, c.val) /\ e = Change(b, c)
  BY DEF Backing
<1>2. b \in price_snapshots' /\ c \in price_snapshots'
  BY DEF upsert_raw_snapshots, InsertRows
<1>3. ASSUME NEW o \in price_snapshots', o.src = c.src, o.item = c.item
      PROVE  o.at <= b.at \/ o.at >= c.at
  <2>1. CASE o \in price_snapshots
    BY <1>1, <1>3, <2>1 DEF Consecutive
  <2>2. CASE o \notin price_snapshots
    <3>1. c.at < o.at
      BY <1>3, <2>2, AddedNewer DEF SameItem
    <3>2. c.at \in Nat /\ o.at \in Nat
      <4>1. o \in Captures(r)
        BY <2>2 DEF upsert_raw_snapshots, InsertRows
      <4> QED BY <4>1, CapturesType DEF ControlInv, TypeOK, SnapshotRow
    <3> QED BY <3>1, <3>2
  <2> QED BY <2>1, <2>2
<1>4. Consecutive(b, c)'
  BY <1>1, <1>2, <1>3 DEF Consecutive
<1> QED BY <1>1, <1>2, <1>4 DEF Backing

\* A detected change is backed once its snapshots are stored.
LEMMA DetectedBacked ==
    ASSUME ControlInv, CacheInv, NEW r \in Runs, upsert_raw_snapshots(r),
           NEW e \in DetectedChanges(r)
    PROVE  Backing(e)'
<1>0. pc[r] \in Past /\ price_snapshots' \subseteq price_snapshots \cup Captures(r)
      /\ price_snapshots \subseteq price_snapshots'
  BY DEF upsert_raw_snapshots, InsertRows, Past
<1>1. PICK b \in price_snapshots, c \in Captures(r) :
         IsBaseline(b, c) /\ Moved(b.val, c.val) /\ e = Change(b, c)
  BY DEF DetectedChanges
<1>2. b.at < c.at /\ c.at \in Nat
  BY <1>0, <1>1, DetectedOlder, CapturesType DEF ControlInv, SnapshotRow
<1>3. b \in price_snapshots' /\ c \in price_snapshots'
  BY <1>0, CapturesStored
<1>4. ASSUME NEW o \in price_snapshots', o.src = c.src, o.item = c.item
      PROVE  o.at <= b.at \/ o.at >= c.at
  <2>1. CASE o \in price_snapshots
    BY <1>1, <1>4, <2>1 DEF IsBaseline
  <2>2. CASE o \in Captures(r)
    BY <1>2, <1>4, <2>2, CapturedOnce DEF SameItem
  <2> QED BY <1>0, <2>1, <2>2
<1>5. Consecutive(b, c)'
  BY <1>1, <1>2, <1>3, <1>4 DEF Consecutive, IsBaseline
<1> QED BY <1>1, <1>3, <1>5 DEF Backing

\* Only an upsert of snapshots or events changes what is backed.
LEMMA EventsKept ==
    ASSUME EventInv, UNCHANGED <<price_snapshots, price_change_events>>
    PROVE  EventsBacked'
BY DEF EventInv, EventsBacked, Consecutive

LEMMA EventStep ==
    ASSUME SerialInv, Serial, [Next]_vars
    PROVE  EventInv'
<1>0. ControlInv /\ CacheInv /\ EventInv /\ TypeOK /\ TypeOK'
  BY TypeStep DEF SerialInv, ControlInv
<1>1. ASSUME NEW r \in Runs, Acts(r), EventsBacked', Unwritten(r)'
      PROVE  EventInv'
  <2>1. ASSUME NEW q \in Runs, q # r
        PROVE  Unwritten(q)'
    <3>1. ~Alive(q) /\ pc'[q] = pc[q]
      BY <1>0, <1>1, <2>1, ActsAlive, ActsOnOne DEF Serial
    <3> QED BY <3>1 DEF Alive, Unwritten
  <2> QED BY <1>1, <2>1 DEF EventInv
<1>2. ASSUME NEW r \in Runs,
             \/ Trigger(r) \/ Gathered(r) \/ validate_response_health(r)
             \/ ConstraintError(r) \/ Exit(r) \/ DbError(r) \/ Crash(r)
             \/ \E k \in Sources : FetchStep(r, k)
      PROVE  EventInv'
  <2>1. UNCHANGED <<price_snapshots, price_change_events>>
    BY <1>2 DEF Trigger, Gathered, validate_response_health, ConstraintError, Exit, DbError,
           Crash, FetchStep, CacheHit, StartFetch, Respond, HttpError, Return, RaiseError, tables
  <2>2. pc'[r] \notin {"snapshots", "fx", "events"}
    BY <1>0, <1>2 DEF TypeOK, Trigger, Gathered, validate_response_health, ConstraintError, Exit,
           DbError, Crash, FetchStep, CacheHit, StartFetch, Respond, HttpError, Return,
           RaiseError, Fetching, Advance, After, Fail, End
  <2>3. Unwritten(r)'
    BY <2>2 DEF Unwritten
  <2> QED BY <1>0, <1>1, <1>2, <2>1, <2>3, EventsKept DEF Acts, RunStep, FlowStep
<1>3. ASSUME NEW r \in Runs, quick_drift_check(r)
      PROVE  EventInv'
  <2>1. /\ UNCHANGED <<call, price_snapshots, price_change_events>>
        /\ pc'[r] = "snapshots" /\ events'[r] = DetectedChanges(r)
    BY <1>0, <1>3 DEF TypeOK, quick_drift_check, Advance, After, tables
  <2>2. DetectedChanges(r)' = DetectedChanges(r)
    BY <2>1 DEF DetectedChanges, IsBaseline, Captures
  <2>3. Unwritten(r)'
    BY <2>1, <2>2 DEF Unwritten
  <2> QED BY <1>0, <1>1, <1>3, <2>1, <2>3, EventsKept DEF Acts, RunStep, FlowStep
<1>4. ASSUME NEW r \in Runs, upsert_raw_snapshots(r)
      PROVE  EventInv'
  <2>1. /\ UNCHANGED <<events, price_change_events>> /\ pc[r] = "snapshots"
        /\ pc'[r] \in {"fx", "failed"}
    BY <1>0, <1>4 DEF TypeOK, upsert_raw_snapshots, Commit, Advance, After, Fail
  <2>2. EventsBacked'
    <3>1. ASSUME NEW e \in price_change_events
          PROVE  Backing(e)'
      BY <1>0, <1>4, <3>1, BackedStays DEF EventInv, EventsBacked, Backing
    <3> QED BY <2>1, <3>1 DEF EventsBacked, Backing
  <2>3. \A e \in events[r] : Backing(e)'
    BY <1>0, <1>4, <2>1, DetectedBacked DEF EventInv, Unwritten
  <2>4. Unwritten(r)'
    BY <2>1, <2>3 DEF Unwritten
  <2> QED BY <1>1, <1>4, <2>2, <2>4 DEF Acts, RunStep, FlowStep
<1>5. ASSUME NEW r \in Runs, upsert_raw_fx(r)
      PROVE  EventInv'
  <2>1. /\ UNCHANGED <<events, price_snapshots, price_change_events>> /\ pc[r] = "fx"
        /\ pc'[r] \in {"events", "failed"}
    BY <1>0, <1>5 DEF TypeOK, upsert_raw_fx, Commit, Advance, After, Fail
  <2>2. Unwritten(r)'
    BY <1>0, <2>1 DEF EventInv, Unwritten, Backing, Consecutive
  <2> QED BY <1>0, <1>1, <1>5, <2>1, <2>2, EventsKept DEF Acts, RunStep, FlowStep
<1>6. ASSUME NEW r \in Runs, upsert_change_events(r)
      PROVE  EventInv'
  <2>1. /\ UNCHANGED price_snapshots /\ pc[r] = "events"
        /\ price_change_events' \subseteq price_change_events \cup events[r]
        /\ pc'[r] \in {"health", "failed"}
    BY <1>0, <1>6 DEF TypeOK, upsert_change_events, InsertEvents, Commit, Advance, After, Fail
  <2>2. \A e \in events[r] : Backing(e)
    BY <1>0, <2>1 DEF EventInv, Unwritten
  <2>3. EventsBacked'
    BY <1>0, <2>1, <2>2 DEF EventInv, EventsBacked, Backing, Consecutive
  <2>4. Unwritten(r)'
    BY <2>1 DEF Unwritten
  <2> QED BY <1>1, <1>6, <2>3, <2>4 DEF Acts, RunStep, FlowStep
<1>7. CASE LoseCache \/ Tick \/ UNCHANGED vars
  <2>1. UNCHANGED <<pc, call, events, price_snapshots, price_change_events>>
    BY <1>7, OtherSteps DEF tables
  <2>2. \A r \in Runs : DetectedChanges(r)' = DetectedChanges(r)
    BY <2>1 DEF DetectedChanges, IsBaseline, Captures
  <2>3. \A r \in Runs : Unwritten(r)'
    BY <1>0, <2>1, <2>2 DEF EventInv, Unwritten, Backing, Consecutive
  <2> QED BY <1>0, <2>1, <2>3, EventsKept DEF EventInv
<1> QED BY <1>2, <1>3, <1>4, <1>5, <1>6, <1>7 DEF Next, RunStep, FlowStep

LEMMA SerialStep ==
    ASSUME SerialInv, Serial, [Next]_vars
    PROVE  SerialInv'
BY ControlStep, CacheStep, EventStep DEF SerialInv, Serial

LEMMA SerialInit == Init => SerialInv
<1> SUFFICES ASSUME Init PROVE SerialInv
  OBVIOUS
<1>1. EventInv
  BY DEF Init, EventInv, EventsBacked, Unwritten
<1> QED BY <1>1, ControlInit, CacheInit DEF SerialInv

\* When runs do not overlap and the cache outlives them, an event is exactly the
\* step between two consecutive snapshots.
THEOREM BackedWhenSerial ==
    ASSUME Overlap = FALSE, CacheDurable = TRUE
    PROVE  Spec => []EventsBacked
<1>1. SerialInv /\ [Next]_vars => SerialInv'
  BY SerialStep DEF Serial
<1>2. SerialInv => EventsBacked
  BY DEF SerialInv, EventInv
<1> QED BY <1>1, <1>2, SerialInit, PTL DEF Spec

\* Under the same assumptions a run served from the cache, whose captures are
\* stored already, detects nothing in its drift check.
THEOREM ReplayWhenSerial ==
    ASSUME Overlap = FALSE, CacheDurable = TRUE
    PROVE  Spec => ReplayIsNoop
<1>1. SerialInv /\ [Next]_vars => SerialInv'
  BY SerialStep DEF Serial
<1>2. SerialInv => \A r \in Runs :
          quick_drift_check(r) /\ Captures(r) \subseteq price_snapshots => events'[r] = {}
  <2> SUFFICES ASSUME SerialInv, NEW r \in Runs, quick_drift_check(r),
                      Captures(r) \subseteq price_snapshots
               PROVE  events'[r] = {}
    OBVIOUS
  <2>1. events'[r] = DetectedChanges(r) /\ pc[r] \in Past
    BY DEF SerialInv, ControlInv, TypeOK, quick_drift_check, Past
  <2>2. ASSUME NEW b \in price_snapshots, NEW c \in Captures(r)
        PROVE  ~(IsBaseline(b, c) /\ Moved(b.val, c.val))
    BY <2>1, DetectedOlder DEF SerialInv
  <2> QED BY <2>1, <2>2 DEF DetectedChanges
<1> QED BY <1>1, <1>2, SerialInit, PTL DEF Spec, ReplayIsNoop

=============================================================================
