------------------------- MODULE FetchCadenceProofs -------------------------
(***************************************************************************)
(* Theorems about FetchCadence for every period, lifetime and delay that   *)
(* leaves the slack of CadenceSlack, and any number of manual runs.        *)
(*                                                                         *)
(* CadenceInv is the inductive invariant: it bounds ages by what is left   *)
(* of the timers, places the scheduled run in its period, and bounds the   *)
(* time since the last good capture or the last trouble by the step the    *)
(* scheduled run has reached.                                              *)
(***************************************************************************)
EXTENDS FetchCadence, TLAPS

\* A record is at most as old as its fetch and the life it has used up.
RecordAge ==
    IF cache.left = 0 THEN cache = NotCached
    ELSE cache.age + cache.left <= CACHE_TTL + LATENCY

RunAge(run) ==
    /\ run.st = "calling" => run.age <= run.timer
    /\ run.st = "holding" => run.age <= CACHE_TTL + LATENCY + run.timer

\* Where the scheduled run is in its period.
OnSchedule ==
    /\ runs[cron].st = "due" => phase <= runs[cron].timer
    /\ runs[cron].st \in {"calling", "waiting"} => phase <= PICKUP + runs[cron].timer
    /\ runs[cron].st = "holding" => phase <= PICKUP + LATENCY + runs[cron].timer

\* A record a scheduled run has used expires before the next one.
Served ==
    /\ cache.ticks <= 1
    /\ cache.ticks = 1 => /\ cache.left + phase <= CRON
                          /\ runs[cron].st \in {"idle", "holding"}

\* A good capture, or trouble, lies at most n ticks back.
Within(n) == steady <= n \/ seen <= n

RecordSight == cache.left > 0 => Within(cache.age)

RunSight ==
    /\ runs[cron].st \in {"idle", "holding"} =>
          Within(CACHE_TTL + LATENCY - 1 + phase)
    /\ runs[cron].st = "due" =>
          Within(CACHE_TTL + LATENCY - 1 + CRON + runs[cron].timer)
    /\ runs[cron].st \in {"calling", "waiting"} =>
          Within(CACHE_TTL + LATENCY - 1 + CRON + PICKUP + runs[cron].timer)

CadenceInv ==
    /\ TypeOK
    /\ RecordAge
    /\ \A r \in Runs : RunAge(runs[r])
    /\ OnSchedule
    /\ Served
    /\ flaky => steady = 0
    /\ RecordSight
    /\ RunSight

-----------------------------------------------------------------------------
(* Constants and the initial state. *)

LEMMA Numbers ==
    /\ CRON \in Nat /\ CRON > 0 /\ CACHE_TTL \in Nat /\ CACHE_TTL > 0
    /\ PICKUP \in Nat /\ LATENCY \in Nat /\ RUNTIME \in Nat /\ RETRIES \in Nat
    /\ DAY \in Nat /\ HEAVY_AT \in Nat /\ DAY > 0
    /\ BLIND \in Nat /\ LONG = BLIND + 1 /\ LONG \in Nat
    /\ cron \in Runs
  BY CadenceConstants, CadenceSlack DEF BLIND, LONG

\* Saturation never overstates an age.
LEMMA AgedType ==
    ASSUME NEW n \in 0..LONG
    PROVE  Aged(n) \in 0..LONG /\ Aged(n) <= n + 1
  BY Numbers DEF Aged

LEMMA RunAtType ==
    ASSUME NEW st \in Steps, NEW timer \in Nat, NEW tries \in 0..RETRIES,
           NEW age \in Nat, NEW ok \in BOOLEAN
    PROVE  RunAt(st, timer, tries, age, ok) \in Run
  BY DEF RunAt, Run

LEMMA RecordOfType ==
    ASSUME NEW left \in 0..CACHE_TTL, NEW age \in Nat, NEW ok \in BOOLEAN, NEW ticks \in Nat
    PROVE  RecordOf(left, age, ok, ticks) \in Record
  BY DEF RecordOf, Record

LEMMA RunTypes ==
    /\ Idle \in Run /\ Due \in Run
    /\ Idle.st = "idle" /\ Due.st = "due" /\ Due.timer = 0
  <1>1. 0 \in 0..RETRIES /\ "idle" \in Steps /\ "due" \in Steps
    BY Numbers DEF Steps
  <1>2. Idle \in Run /\ Due \in Run
    BY <1>1, RunAtType DEF Idle, Due
  <1>. QED  BY <1>2 DEF Idle, Due, RunAt

LEMMA InvInit == Init => CadenceInv
  <1>. SUFFICES ASSUME Init  PROVE CadenceInv
    OBVIOUS
  <1>1. TypeOK
    <2>1. \A r \in Runs : runs[r] = Due \/ runs[r] = Idle
      BY DEF Init
    <2>2. \A r \in Runs : runs[r].st # "idle" => runs[r].timer <= Deadline(runs[r].st)
      BY <2>1, RunTypes, Numbers DEF Deadline
    <2>3. runs \in [Runs -> Run]
      BY RunTypes DEF Init
    <2>4. cache \in Record
      <3>1. 0 \in 0..CACHE_TTL
        BY Numbers
      <3>. QED  BY <3>1, RecordOfType DEF Init, NotCached
    <2>. QED  BY <2>2, <2>3, <2>4, Numbers DEF Init, TypeOK
  <1>2. \A r \in Runs : RunAge(runs[r])
    BY RunTypes DEF Init, RunAge
  <1>3. runs[cron] = Due
    BY Numbers DEF Init
  <1>4. cache.left = 0 /\ cache.ticks = 0 /\ cache = NotCached
    BY DEF Init, NotCached, RecordOf
  <1>. QED  BY <1>1, <1>2, <1>3, <1>4, RunTypes, Numbers
            DEF Init, CadenceInv, RecordAge, OnSchedule, Served, RecordSight,
                RunSight, Within

-----------------------------------------------------------------------------
(* Types. *)

\* A run that is not overdue is not overdue after the next tick.
LEMMA OlderType ==
    ASSUME NEW run \in Run, OnTime(run)
    PROVE  /\ Older(run) \in Run
           /\ Older(run).st = run.st
           /\ run.st # "idle" => /\ Older(run).timer = run.timer + 1
                                 /\ Older(run).timer <= Deadline(run.st)
           /\ run.st \in {"calling", "holding"} => Older(run).age = run.age + 1
  <1>1. /\ run.st \in Steps /\ run.timer \in Nat /\ run.age \in Nat
        /\ run.timer + 1 \in Nat /\ run.age + 1 \in Nat
    BY DEF Run
  <1>2. Deadline(run.st) \in Nat \/ run.st = "idle"
    BY <1>1, Numbers DEF Deadline, Steps
  <1>3. CASE run.st = "idle"
    BY <1>3 DEF Older
  <1>4. CASE run.st # "idle"
    <2>. DEFINE age == IF Captured(run) THEN run.age + 1 ELSE run.age
    <2>1. Older(run) = RunAt(run.st, run.timer + 1, run.tries, age, run.ok)
      BY <1>4 DEF Older
    <2>2. age \in Nat /\ (run.st \in {"calling", "holding"} => age = run.age + 1)
      BY <1>1 DEF Captured
    <2>. HIDE DEF age
    <2>3. Older(run) \in Run
      BY <1>1, <2>1, <2>2, RunAtType DEF Run
    <2>. QED  BY <1>1, <1>2, <1>4, <2>1, <2>2, <2>3 DEF RunAt, OnTime
  <1>. QED  BY <1>3, <1>4

LEMMA ExpireType ==
    ASSUME NEW record \in Record
    PROVE  /\ Expire(record) \in Record
           /\ record.left <= 1 => Expire(record) = NotCached
           /\ record.left > 1 => /\ Expire(record).left = record.left - 1
                                 /\ Expire(record).age = record.age + 1
                                 /\ Expire(record).ticks = record.ticks
  <1>1. record.left \in 0..CACHE_TTL /\ record.age \in Nat /\ record.age + 1 \in Nat
    BY DEF Record
  <1>2. CASE record.left <= 1
    <2>1. Expire(record) = RecordOf(0, 0, FALSE, 0)
      BY <1>2 DEF Expire, NotCached
    <2>2. 0 \in 0..CACHE_TTL
      BY Numbers
    <2>3. RecordOf(0, 0, FALSE, 0) \in Record
      BY <2>2, RecordOfType
    <2>4. ~(record.left > 1)
      BY <1>1, <1>2, Numbers
    <2>5. Expire(record) = NotCached
      BY <2>1 DEF NotCached
    <2>. QED  BY <2>1, <2>3, <2>4, <2>5
  <1>3. CASE record.left > 1
    <2>1. Expire(record) = RecordOf(record.left - 1, record.age + 1, record.ok, record.ticks)
      BY <1>1, <1>3 DEF Expire
    <2>2. record.left - 1 \in 0..CACHE_TTL
      BY <1>1, <1>3, Numbers
    <2>3. Expire(record) \in Record
      BY <1>1, <2>1, <2>2, RecordOfType DEF Record
    <2>. QED  BY <1>1, <1>3, <2>1, <2>3 DEF RecordOf
  <1>. QED  BY <1>1, <1>2, <1>3

\* A run's step changes its slot alone.
LEMMA SlotType ==
    ASSUME TypeOK, NEW r \in Runs, NEW run \in Run,
           run.st # "idle" => run.timer <= Deadline(run.st),
           runs' = [runs EXCEPT ![r] = run]
    PROVE  /\ runs' \in [Runs -> Run]
           /\ \A q \in Runs : runs'[q].st # "idle" => runs'[q].timer <= Deadline(runs'[q].st)
           /\ runs'[r] = run
           /\ \A q \in Runs : q # r => runs'[q] = runs[q]
  BY DEF TypeOK

\* What the fields of a run may be.
LEMMA SlotFields ==
    ASSUME TypeOK, NEW r \in Runs
    PROVE  /\ runs[r] \in Run /\ runs[r].st \in Steps /\ runs[r].timer \in Nat
           /\ runs[r].tries \in 0..RETRIES /\ runs[r].age \in Nat /\ runs[r].ok \in BOOLEAN
           /\ runs[r].st = "due" => runs[r].timer <= PICKUP
           /\ runs[r].st \in {"calling", "waiting"} => runs[r].timer <= LATENCY
           /\ runs[r].st = "holding" => runs[r].timer <= RUNTIME
  <1>1. runs[r] \in Run
    BY DEF TypeOK
  <1>2. runs[r].st # "idle" => runs[r].timer <= Deadline(runs[r].st)
    BY DEF TypeOK
  <1>. QED  BY <1>1, <1>2 DEF Run, Deadline

LEMMA RecordFields ==
    ASSUME TypeOK
    PROVE  /\ cache.left \in Nat /\ cache.left <= CACHE_TTL /\ cache.age \in Nat
           /\ cache.ok \in BOOLEAN /\ cache.ticks \in Nat
  BY Numbers DEF TypeOK, Record

LEMMA HoldType ==
    ASSUME TypeOK, NEW r \in Runs, NEW age \in Nat, NEW ok \in BOOLEAN, Hold(r, age, ok)
    PROVE  /\ runs' \in [Runs -> Run]
           /\ \A q \in Runs : runs'[q].st # "idle" => runs'[q].timer <= Deadline(runs'[q].st)
           /\ runs'[r].st = "holding" /\ runs'[r].timer = 0 /\ runs'[r].age = age
           /\ \A q \in Runs : q # r => runs'[q] = runs[q]
           /\ seen' \in 0..LONG /\ seen' <= seen /\ (ok => seen' <= age)
  <1>1. 0 \in 0..RETRIES /\ "holding" \in Steps
    BY Numbers DEF Steps
  <1>. DEFINE held == RunAt("holding", 0, 0, age, ok)
  <1>2. held \in Run
    BY <1>1, RunAtType
  <1>3. held.st = "holding" /\ held.timer = 0 /\ held.age = age
    BY DEF RunAt
  <1>4. runs' = [runs EXCEPT ![r] = held]
    BY DEF Hold
  <1>5. held.timer <= Deadline(held.st)
    BY <1>3, Numbers DEF Deadline
  <1>6. seen' \in 0..LONG /\ seen' <= seen /\ (ok => seen' <= age)
    BY Numbers DEF Hold, Newest, TypeOK
  <1>. HIDE DEF held
  <1>. QED  BY <1>2, <1>3, <1>4, <1>5, <1>6, SlotType

LEMMA ReturnType ==
    ASSUME TypeOK, NEW r \in Runs, NEW ok \in BOOLEAN, Return(r, ok)
    PROVE  TypeOK'
  <1>1. runs[r].age \in Nat
    BY SlotFields
  <1>2. ScheduledUse(r) \in Nat /\ CACHE_TTL \in 0..CACHE_TTL
    BY Numbers DEF ScheduledUse
  <1>3. cache' \in Record
    BY <1>1, <1>2, RecordOfType DEF Return
  <1>4. Hold(r, runs[r].age, ok)
    BY DEF Return
  <1>. QED  BY <1>1, <1>3, <1>4, HoldType DEF Return, TypeOK

LEMMA TypeNext == TypeOK /\ [Next]_vars => TypeOK'
  <1>. SUFFICES ASSUME TypeOK, [Next]_vars  PROVE TypeOK'
    OBVIOUS
  <1>1. CASE Tick
    <2>1. \A r \in Runs : runs'[r] \in Run
                          /\ (runs'[r].st # "idle" => runs'[r].timer <= Deadline(runs'[r].st))
      <3>. SUFFICES ASSUME NEW r \in Runs
                    PROVE  runs'[r] \in Run
                           /\ (runs'[r].st # "idle" => runs'[r].timer <= Deadline(runs'[r].st))
        OBVIOUS
      <3>1. runs[r] \in Run /\ OnTime(runs[r])
        BY <1>1 DEF TypeOK, Tick
      <3>2. CASE runs'[r] = Due
        BY <3>2, RunTypes, Numbers DEF Deadline
      <3>3. CASE runs'[r] = Older(runs[r])
        BY <3>1, <3>3, OlderType
      <3>. QED  BY <1>1, <3>2, <3>3 DEF Tick
    <2>2. runs' \in [Runs -> Run]
      BY <1>1, <2>1 DEF Tick
    <2>3. cache' \in Record
      BY <1>1, ExpireType DEF Tick, TypeOK
    <2>4. steady' \in 0..LONG /\ seen' \in 0..LONG
      BY <1>1, AgedType, Numbers DEF Tick, TypeOK
    <2>5. clock' \in 0 .. DAY - 1 /\ phase' \in 0 .. CRON - 1
      BY <1>1, Numbers DEF Tick, TypeOK
    <2>. QED  BY <1>1, <2>1, <2>2, <2>3, <2>4, <2>5 DEF Tick, TypeOK
  <1>2. CASE LoseCache
    <2>1. 0 \in 0..CACHE_TTL
      BY Numbers
    <2>. QED  BY <1>2, <2>1, RecordOfType DEF LoseCache, NotCached, TypeOK
  <1>3. CASE Outage \/ Recover
    <2>1. UNCHANGED <<clock, phase, runs, cache, seen>>
      BY <1>3 DEF Outage, Recover
    <2>2. flaky' \in BOOLEAN
      BY <1>3 DEF Outage, Recover
    <2>3. steady' = 0 \/ steady' = steady
      BY <1>3 DEF Outage, Recover
    <2>4. steady' \in 0..LONG
      BY <2>3, Numbers DEF TypeOK
    <2>. QED  BY <2>1, <2>2, <2>4 DEF TypeOK
  <1>4. ASSUME NEW r \in Runs, Trigger(r)  PROVE TypeOK'
    <2>1. Due \in Run /\ (Due.st # "idle" => Due.timer <= Deadline(Due.st))
      BY RunTypes, Numbers DEF Deadline
    <2>. QED  BY <1>4, <2>1, SlotType DEF Trigger, TypeOK
  <1>5. ASSUME NEW r \in Runs, CacheHit(r)  PROVE TypeOK'
    <2>1. ScheduledUse(r) \in Nat /\ cache.left \in 0..CACHE_TTL /\ cache.ticks + ScheduledUse(r) \in Nat
      BY RecordFields, Numbers DEF ScheduledUse
    <2>2. cache' \in Record
      BY <1>5, <2>1, RecordFields, RecordOfType DEF CacheHit
    <2>3. Hold(r, cache.age, cache.ok)
      BY <1>5 DEF CacheHit
    <2>. QED  BY <1>5, <2>2, <2>3, RecordFields, HoldType DEF CacheHit, TypeOK
  <1>6. ASSUME NEW r \in Runs, StartFetch(r)  PROVE TypeOK'
    <2>. DEFINE timer == IF runs[r].st = "due" THEN 0 ELSE runs[r].timer
                run == RunAt("calling", timer, runs[r].tries, 0, FALSE)
    <2>1. timer \in Nat /\ timer <= LATENCY
      BY <1>6, SlotFields, Numbers DEF StartFetch, Begins
    <2>. HIDE DEF timer
    <2>2. run \in Run
      BY <2>1, SlotFields, RunAtType DEF Steps
    <2>3. run.st = "calling" /\ run.timer = timer
      BY DEF RunAt
    <2>4. run.timer <= Deadline(run.st)
      BY <2>1, <2>3 DEF Deadline
    <2>5. runs' = [runs EXCEPT ![r] = run]
      BY <1>6 DEF StartFetch, timer
    <2>. HIDE DEF run
    <2>. QED  BY <1>6, <2>2, <2>4, <2>5, SlotType DEF StartFetch, TypeOK
  <1>7. ASSUME NEW r \in Runs, Respond(r) \/ HttpError(r)  PROVE TypeOK'
    BY <1>7, ReturnType DEF Respond, HttpError
  <1>8. ASSUME NEW r \in Runs, Raise(r)  PROVE TypeOK'
    <2>. DEFINE run == RunAt("waiting", runs[r].timer, runs[r].tries + 1, 0, FALSE)
    <2>1. CASE runs[r].tries < RETRIES
      <3>0. runs[r].tries + 1 \in 0..RETRIES /\ "waiting" \in Steps
        BY <2>1, SlotFields, Numbers DEF Steps
      <3>1. run \in Run
        BY <3>0, SlotFields, RunAtType
      <3>2. run.st = "waiting" /\ run.timer = runs[r].timer
        BY DEF RunAt
      <3>3. run.timer <= Deadline(run.st)
        BY <1>8, <3>2, SlotFields DEF Raise, Deadline
      <3>4. runs' = [runs EXCEPT ![r] = run]
        BY <1>8, <2>1 DEF Raise
      <3>. HIDE DEF run
      <3>. QED  BY <1>8, <3>1, <3>3, <3>4, SlotType DEF Raise, TypeOK
    <2>2. CASE ~(runs[r].tries < RETRIES)
      <3>1. runs' = [runs EXCEPT ![r] = Idle]
        BY <1>8, <2>2 DEF Raise
      <3>. QED  BY <1>8, <3>1, RunTypes, SlotType DEF Raise, TypeOK
    <2>. QED  BY <2>1, <2>2
  <1>9. ASSUME NEW r \in Runs, Store(r) \/ Crash(r)  PROVE TypeOK'
    BY <1>9, RunTypes, SlotType DEF Store, Crash, TypeOK
  <1>10. CASE UNCHANGED vars
    BY <1>10 DEF vars, TypeOK
  <1>. QED  BY <1>1, <1>2, <1>3, <1>4, <1>5, <1>6, <1>7, <1>8, <1>9, <1>10
            DEF Next, RunStep

\* Every variable has its type; retries stay bounded and no run is overdue.
THEOREM CadenceTypeCorrect == Spec => []TypeOK
  <1>1. Init => TypeOK
    BY InvInit DEF CadenceInv
  <1>. QED  BY <1>1, TypeNext, PTL DEF Spec

-----------------------------------------------------------------------------
(* The invariant is inductive. *)

\* Time: what has been bounded by a timer is bounded by the timer's next value.
LEMMA InvTick == CadenceInv /\ TypeOK' /\ Tick => CadenceInv'
  <1>. SUFFICES ASSUME CadenceInv, TypeOK', Tick  PROVE CadenceInv'
    OBVIOUS
  <1>. USE Numbers
  <1>0. TypeOK
    BY DEF CadenceInv
  <1>1. /\ cache.left <= 1 => cache' = NotCached
        /\ cache.left > 1 => /\ cache'.left = cache.left - 1
                             /\ cache'.age = cache.age + 1
                             /\ cache'.ticks = cache.ticks
    BY <1>0, ExpireType DEF Tick, TypeOK
  <1>2. NotCached.left = 0 /\ NotCached.ticks = 0
    BY DEF NotCached, RecordOf
  <1>3. \A r \in Runs :
           \/ r = cron /\ phase' = 0 /\ runs'[r] = Due
           \/ /\ r = cron => phase' = phase + 1
              /\ runs'[r].st = runs[r].st
              /\ runs[r].st # "idle" => runs'[r].timer = runs[r].timer + 1
              /\ runs[r].st \in {"calling", "holding"} => runs'[r].age = runs[r].age + 1
    <2>. SUFFICES ASSUME NEW r \in Runs, ~(r = cron /\ phase' = 0)
                  PROVE  /\ r = cron => phase' = phase + 1
                         /\ runs'[r].st = runs[r].st
                         /\ runs[r].st # "idle" => runs'[r].timer = runs[r].timer + 1
                         /\ runs[r].st \in {"calling", "holding"} => runs'[r].age = runs[r].age + 1
      BY DEF Tick
    <2>1. runs[r] \in Run /\ OnTime(runs[r]) /\ runs'[r] = Older(runs[r])
      BY <1>0 DEF Tick, TypeOK
    <2>2. r = cron => phase' = phase + 1
      BY DEF Tick
    <2>. QED  BY <2>1, <2>2, OlderType
  <1>4. /\ seen' \in Nat /\ seen' <= seen + 1 /\ seen \in Nat
        /\ steady' \in Nat /\ steady' <= steady + 1 /\ steady \in Nat
    <2>1. steady' = 0 \/ steady' = Aged(steady)
      BY DEF Tick
    <2>. QED  BY <1>0, <2>1, AgedType DEF Tick, TypeOK
  <1>5. /\ phase \in Nat /\ phase <= CRON - 1
        /\ phase' = phase + 1 \/ (phase' = 0 /\ phase = CRON - 1)
        /\ phase' \in Nat
    BY <1>0 DEF Tick, TypeOK
  <1>6. phase' = 0 => runs[cron].st \in {"idle", "holding"}
    <2>1. runs[cron].st # "idle" => runs[cron].timer < Deadline(runs[cron].st)
      BY DEF Tick, OnTime
    <2>2. /\ runs[cron].st = "due" => runs[cron].timer < PICKUP
          /\ runs[cron].st \in {"calling", "waiting"} => runs[cron].timer < LATENCY
      BY <2>1 DEF Deadline
    <2>3. runs[cron].st \in Steps /\ runs[cron].timer \in Nat
      BY <1>0, SlotFields
    <2>. QED  BY <1>5, <2>2, <2>3, CadenceSlack DEF CadenceInv, OnSchedule, Steps
  <1>7. cache.left \in Nat /\ cache.age \in Nat /\ cache.ticks \in Nat
    BY <1>0, RecordFields
  <1>8. runs[cron].timer \in Nat /\ runs[cron].st \in Steps
    BY <1>0, SlotFields
  <1>c. \/ phase' = 0 /\ runs'[cron] = Due
        \/ /\ phase' = phase + 1 /\ runs'[cron].st = runs[cron].st
           /\ runs[cron].st # "idle" => runs'[cron].timer = runs[cron].timer + 1
    BY <1>3
  <1>9. RecordAge'
    <2>1. CASE cache.left <= 1
      BY <1>1, <1>2, <2>1 DEF RecordAge, NotCached
    <2>2. CASE cache.left > 1
      BY <1>1, <1>7, <2>2 DEF RecordAge, CadenceInv
    <2>. QED  BY <1>7, <2>1, <2>2
  <1>10. ASSUME NEW r \in Runs  PROVE RunAge(runs[r])'
    <2>1. CASE runs'[r] = Due
      BY <2>1, RunTypes DEF RunAge
    <2>2. CASE /\ runs'[r].st = runs[r].st
               /\ runs[r].st # "idle" => runs'[r].timer = runs[r].timer + 1
               /\ runs[r].st \in {"calling", "holding"} => runs'[r].age = runs[r].age + 1
      <3>1. runs[r].timer \in Nat /\ runs[r].age \in Nat
        BY <1>0, SlotFields
      <3>. QED  BY <2>2, <3>1 DEF CadenceInv, RunAge
    <2>. QED  BY <1>3, <2>1, <2>2
  <1>11. OnSchedule'
    BY <1>c, <1>5, <1>8, RunTypes DEF CadenceInv, OnSchedule
  <1>12. Served'
    <2>1. CASE cache.left <= 1
      BY <1>1, <1>2, <2>1 DEF Served
    <2>2. CASE cache.left > 1 /\ cache.ticks = 1
      <3>1. cache.left + phase <= CRON
        BY <2>2 DEF CadenceInv, Served
      <3>2. phase' = phase + 1
        BY <1>5, <1>7, <2>2, <3>1
      <3>3. cache'.left + phase' <= CRON
        BY <1>1, <1>5, <1>7, <2>2, <3>1, <3>2
      <3>. QED  BY <1>1, <1>c, <1>5, <2>2, <3>2, <3>3 DEF CadenceInv, Served
    <2>3. CASE cache.left > 1 /\ cache.ticks # 1
      BY <1>1, <1>7, <2>3 DEF CadenceInv, Served
    <2>. QED  BY <1>7, <2>1, <2>2, <2>3
  <1>13. flaky' => steady' = 0
    BY DEF Tick
  <1>14. RecordSight'
    <2>1. CASE cache.left <= 1
      BY <1>1, <1>2, <2>1 DEF RecordSight
    <2>2. CASE cache.left > 1
      BY <1>1, <1>4, <1>7, <2>2 DEF CadenceInv, RecordSight, Within
    <2>. QED  BY <1>7, <2>1, <2>2
  <1>15. RunSight'
    <2>1. CASE phase' = 0 /\ runs'[cron] = Due
      <3>1. phase = CRON - 1 /\ runs[cron].st \in {"idle", "holding"}
        BY <1>5, <1>6, <2>1
      <3>. QED  BY <1>4, <2>1, <3>1, RunTypes DEF CadenceInv, RunSight, Within
    <2>2. CASE /\ phase' = phase + 1 /\ runs'[cron].st = runs[cron].st
               /\ runs[cron].st # "idle" => runs'[cron].timer = runs[cron].timer + 1
      BY <1>4, <1>5, <1>8, <2>2 DEF CadenceInv, RunSight, Within
    <2>. QED  BY <1>c, <2>1, <2>2
  <1>. QED  BY <1>9, <1>10, <1>11, <1>12, <1>13, <1>14, <1>15 DEF CadenceInv

\* A run's step: the parts of the invariant that are about its slot, its
\* record and the scheduled run follow from facts about the slot alone.
LEMMA InvSlot ==
    ASSUME CadenceInv, TypeOK', NEW r \in Runs,
           \A q \in Runs : q # r => runs'[q] = runs[q],
           UNCHANGED <<phase, flaky, steady>>, seen' <= seen,
           RecordAge', RunAge(runs[r])', RecordSight',
           r = cron => OnSchedule' /\ RunSight',
           r = cron => Served',
           r # cron => cache'.ticks = 0 \/ (cache'.ticks = cache.ticks /\ cache'.left = cache.left)
    PROVE  CadenceInv'
  <1>. USE Numbers
  <1>1. \A q \in Runs : RunAge(runs[q])'
    BY DEF CadenceInv, RunAge
  <1>2. r # cron => runs'[cron] = runs[cron]
    OBVIOUS
  <1>3. OnSchedule'
    BY <1>2 DEF CadenceInv, OnSchedule
  <1>4. Served'
    BY <1>2 DEF CadenceInv, Served
  <1>5. seen \in Nat /\ seen' \in Nat /\ steady \in Nat /\ phase \in Nat /\ runs[cron].timer \in Nat
    BY SlotFields DEF CadenceInv, TypeOK
  <1>6. RunSight'
    BY <1>2, <1>5 DEF CadenceInv, RunSight, Within
  <1>. QED  BY <1>1, <1>3, <1>4, <1>6 DEF CadenceInv

\* A record is served: its age bounds the run's, and its sight the run's.
LEMMA InvHit ==
    ASSUME CadenceInv, TypeOK', NEW r \in Runs, CacheHit(r)
    PROVE  CadenceInv'
  <1>. USE Numbers
  <1>0. TypeOK
    BY DEF CadenceInv
  <1>1. cache.left \in Nat /\ cache.left > 0 /\ cache.age \in Nat /\ cache.ok \in BOOLEAN /\ cache.ticks \in Nat
        /\ cache.left <= CACHE_TTL
    BY <1>0, RecordFields DEF CacheHit
  <1>2. cache'.left = cache.left /\ cache'.age = cache.age
        /\ cache'.ticks = cache.ticks + ScheduledUse(r)
    BY DEF CacheHit, RecordOf
  <1>3. /\ runs'[r].st = "holding" /\ runs'[r].timer = 0 /\ runs'[r].age = cache.age
        /\ \A q \in Runs : q # r => runs'[q] = runs[q]
        /\ seen' \in 0..LONG /\ seen' <= seen
    BY <1>0, <1>1, HoldType DEF CacheHit
  <1>4. cache.age + cache.left <= CACHE_TTL + LATENCY /\ Within(cache.age)
    BY <1>1 DEF CadenceInv, RecordAge, RecordSight
  <1>5. UNCHANGED <<clock, phase, flaky, steady>>
    BY DEF CacheHit
  <1>6. Within(cache.age)'
    BY <1>0, <1>1, <1>2, <1>3, <1>4, <1>5 DEF Within, TypeOK
  <1>7. phase \in Nat /\ phase' = phase /\ seen' \in Nat /\ steady' \in Nat
    BY <1>0, <1>3, <1>5 DEF TypeOK
  <1>8. RecordAge' /\ RunAge(runs[r])' /\ RecordSight'
    BY <1>1, <1>2, <1>3, <1>4, <1>6 DEF RecordAge, RunAge, RecordSight
  <1>9. ASSUME r = cron  PROVE OnSchedule' /\ RunSight' /\ Served'
    <2>1. /\ runs[cron].st = "due" => phase <= runs[cron].timer /\ runs[cron].timer <= PICKUP
          /\ runs[cron].st = "waiting" => /\ phase <= PICKUP + runs[cron].timer
                                          /\ runs[cron].timer <= LATENCY
          /\ runs[cron].st \in {"due", "waiting"} /\ runs[cron].timer \in Nat
      BY <1>0, <1>9, SlotFields DEF CadenceInv, OnSchedule, CacheHit, Begins
    <2>2. phase <= PICKUP + LATENCY
      BY <1>7, <2>1
    <2>3. OnSchedule'
      BY <1>3, <1>7, <1>9, <2>2 DEF OnSchedule
    <2>4. RunSight'
      BY <1>1, <1>2, <1>3, <1>4, <1>6, <1>7, <1>9 DEF RunSight, Within
    <2>5. cache.ticks = 0
      BY <1>1, <2>1 DEF CadenceInv, Served
    <2>6. Served'
      BY <1>1, <1>2, <1>3, <1>7, <1>9, <2>2, <2>5, CadenceSlack DEF Served, ScheduledUse
    <2>. QED  BY <2>3, <2>4, <2>6
  <1>10. r # cron => cache'.ticks = cache.ticks /\ cache'.left = cache.left
    BY <1>1, <1>2 DEF ScheduledUse
  <1>. QED  BY <1>3, <1>5, <1>8, <1>9, <1>10, InvSlot

\* A result is returned: a good one is a capture no older than the call, a bad
\* one means trouble since the call began.
LEMMA InvReturn ==
    ASSUME CadenceInv, TypeOK', NEW r \in Runs, NEW ok \in BOOLEAN, Return(r, ok),
           ok \/ MayFail(r)
    PROVE  CadenceInv'
  <1>. USE Numbers
  <1>0. TypeOK
    BY DEF CadenceInv
  <1>1. /\ runs[r].age \in Nat /\ runs[r].timer \in Nat /\ runs[r].timer <= LATENCY
        /\ runs[r].age <= runs[r].timer
    BY <1>0, SlotFields DEF Return, CadenceInv, RunAge
  <1>2. cache'.left = CACHE_TTL /\ cache'.age = runs[r].age /\ cache'.ticks = ScheduledUse(r)
    BY DEF Return, RecordOf
  <1>3. /\ runs'[r].st = "holding" /\ runs'[r].timer = 0 /\ runs'[r].age = runs[r].age
        /\ \A q \in Runs : q # r => runs'[q] = runs[q]
        /\ seen' \in 0..LONG /\ seen' <= seen /\ (ok => seen' <= runs[r].age)
    BY <1>0, <1>1, HoldType DEF Return
  <1>4. UNCHANGED <<clock, phase, flaky, steady>>
    BY DEF Return
  <1>5. steady' <= runs[r].age \/ seen' <= runs[r].age
    <2>1. CASE ok
      BY <1>3, <2>1
    <2>2. CASE flaky
      BY <1>1, <1>4, <2>2 DEF CadenceInv
    <2>3. CASE steady <= runs[r].age
      BY <1>4, <2>3
    <2>. QED  BY <2>1, <2>2, <2>3 DEF MayFail
  <1>6. phase \in Nat /\ phase' = phase /\ seen' \in Nat /\ steady' \in Nat
    BY <1>0, <1>3, <1>4 DEF TypeOK
  <1>7. RecordAge' /\ RunAge(runs[r])' /\ RecordSight'
    BY <1>1, <1>2, <1>3, <1>5 DEF RecordAge, RunAge, RecordSight, Within
  <1>8. ASSUME r = cron  PROVE OnSchedule' /\ RunSight' /\ Served'
    <2>1. phase <= PICKUP + runs[cron].timer
      BY <1>8 DEF Return, CadenceInv, OnSchedule
    <2>2. phase <= PICKUP + LATENCY
      BY <1>1, <1>6, <1>8, <2>1
    <2>. QED  BY <1>1, <1>2, <1>3, <1>5, <1>6, <1>8, <2>2, CadenceSlack
              DEF OnSchedule, RunSight, Within, Served, ScheduledUse
  <1>9. r # cron => cache'.ticks = 0
    BY <1>2 DEF ScheduledUse
  <1>. QED  BY <1>3, <1>4, <1>7, <1>8, <1>9, InvSlot

\* A step that puts r's slot in another state and touches no record.
LEMMA InvMove ==
    ASSUME CadenceInv, TypeOK', NEW r \in Runs, NEW run \in Run,
           runs' = [runs EXCEPT ![r] = run],
           UNCHANGED <<clock, phase, cache, flaky, steady, seen>>,
           RunAge(run),
           r = cron => OnSchedule' /\ RunSight' /\ (cache.ticks = 1 => run.st \in {"idle", "holding"})
    PROVE  CadenceInv'
  <1>0. TypeOK
    BY DEF CadenceInv
  <1>1. runs'[r] = run /\ \A q \in Runs : q # r => runs'[q] = runs[q]
    BY <1>0 DEF TypeOK
  <1>2. seen' <= seen
    BY <1>0, Numbers DEF TypeOK
  <1>3. RecordAge' /\ RunAge(runs[r])' /\ RecordSight'
    BY <1>1 DEF CadenceInv, RecordAge, RunAge, RecordSight, Within
  <1>4. r = cron => Served'
    BY <1>1 DEF CadenceInv, Served
  <1>. QED  BY <1>1, <1>2, <1>3, <1>4, InvSlot

LEMMA InvStart ==
    ASSUME CadenceInv, TypeOK', NEW r \in Runs, StartFetch(r)
    PROVE  CadenceInv'
  <1>. USE Numbers
  <1>. DEFINE timer == IF runs[r].st = "due" THEN 0 ELSE runs[r].timer
              run == RunAt("calling", timer, runs[r].tries, 0, FALSE)
  <1>0. TypeOK
    BY DEF CadenceInv
  <1>1. timer \in Nat /\ runs[r].timer \in Nat
    BY <1>0, SlotFields
  <1>2. run \in Run
    BY <1>0, <1>1, SlotFields, RunAtType DEF Steps
  <1>3. run.st = "calling" /\ run.timer = timer /\ run.age = 0
    BY DEF RunAt
  <1>4. runs' = [runs EXCEPT ![r] = run]
    BY DEF StartFetch
  <1>5. runs[r].st = "due" => timer = 0 /\ runs[r].timer <= PICKUP
    BY <1>0, SlotFields
  <1>6. runs[r].st = "waiting" => timer = runs[r].timer
    OBVIOUS
  <1>. HIDE DEF run, timer
  <1>7. runs'[r] = run
    BY <1>0, <1>4 DEF TypeOK
  <1>8. RunAge(run)
    BY <1>1, <1>3 DEF RunAge
  <1>9. phase \in Nat /\ steady \in Nat /\ seen \in Nat
        /\ UNCHANGED <<clock, phase, cache, flaky, steady, seen>>
    BY <1>0 DEF TypeOK, StartFetch
  <1>10. ASSUME r = cron
         PROVE  OnSchedule' /\ RunSight' /\ (cache.ticks = 1 => run.st \in {"idle", "holding"})
    <2>1. runs[r].st \in {"due", "waiting"}
      BY DEF StartFetch, Begins
    <2>2. OnSchedule'
      BY <1>1, <1>3, <1>5, <1>6, <1>7, <1>9, <1>10, <2>1 DEF CadenceInv, OnSchedule
    <2>3. RunSight'
      BY <1>1, <1>3, <1>5, <1>6, <1>7, <1>9, <1>10, <2>1 DEF CadenceInv, RunSight, Within
    <2>4. cache.ticks # 1
      BY <1>10, <2>1 DEF CadenceInv, Served
    <2>. QED  BY <2>2, <2>3, <2>4
  <1>. QED  BY <1>2, <1>4, <1>8, <1>9, <1>10, InvMove

\* The slot becomes idle: after its upserts, or in trouble.
LEMMA InvIdle ==
    ASSUME CadenceInv, TypeOK', NEW r \in Runs, runs' = [runs EXCEPT ![r] = Idle],
           UNCHANGED <<clock, phase, cache, flaky, steady, seen>>,
           runs[r].st = "holding" \/ steady <= LATENCY
    PROVE  CadenceInv'
  <1>. USE Numbers
  <1>0. TypeOK
    BY DEF CadenceInv
  <1>1. runs'[r] = Idle
    BY <1>0 DEF TypeOK
  <1>2. phase \in Nat /\ steady \in Nat /\ seen \in Nat
    BY <1>0 DEF TypeOK
  <1>3. RunAge(Idle)
    BY RunTypes DEF RunAge
  <1>4. r = cron => OnSchedule' /\ RunSight'
    BY <1>1, <1>2, RunTypes DEF CadenceInv, OnSchedule, RunSight, Within
  <1>. QED  BY <1>3, <1>4, RunTypes, InvMove

\* Trouble is never long ago for a call that fails.
LEMMA RecentTrouble ==
    ASSUME CadenceInv, NEW r \in Runs, runs[r].st = "calling", MayFail(r)
    PROVE  steady <= LATENCY
  <1>1. /\ runs[r].age \in Nat /\ runs[r].timer <= LATENCY /\ runs[r].timer \in Nat
        /\ runs[r].age <= runs[r].timer /\ steady \in Nat
    BY SlotFields, Numbers DEF CadenceInv, RunAge, TypeOK
  <1>2. CASE flaky
    BY <1>2, Numbers DEF CadenceInv
  <1>3. CASE steady <= runs[r].age
    BY <1>1, <1>3, Numbers
  <1>. QED  BY <1>2, <1>3 DEF MayFail

LEMMA InvRaise ==
    ASSUME CadenceInv, TypeOK', NEW r \in Runs, Raise(r)
    PROVE  CadenceInv'
  <1>. USE Numbers
  <1>0. TypeOK
    BY DEF CadenceInv
  <1>1. steady <= LATENCY
    BY RecentTrouble DEF Raise
  <1>2. CASE ~(runs[r].tries < RETRIES)
    BY <1>1, <1>2, InvIdle DEF Raise
  <1>3. CASE runs[r].tries < RETRIES
    <2>. DEFINE run == RunAt("waiting", runs[r].timer, runs[r].tries + 1, 0, FALSE)
    <2>1. runs[r].tries + 1 \in 0..RETRIES /\ "waiting" \in Steps
      BY <1>0, <1>3, SlotFields DEF Steps
    <2>2. run \in Run
      BY <1>0, <2>1, SlotFields, RunAtType
    <2>3. run.st = "waiting" /\ run.timer = runs[r].timer
      BY DEF RunAt
    <2>4. runs' = [runs EXCEPT ![r] = run]
      BY <1>3 DEF Raise
    <2>. HIDE DEF run
    <2>5. runs'[r] = run
      BY <1>0, <2>4 DEF TypeOK
    <2>6. RunAge(run)
      BY <2>3 DEF RunAge
    <2>7. r = cron => OnSchedule' /\ RunSight' /\ cache.ticks # 1
      BY <2>3, <2>5 DEF Raise, CadenceInv, OnSchedule, RunSight, Within, Served
    <2>. QED  BY <2>2, <2>4, <2>6, <2>7, InvMove DEF Raise
  <1>. QED  BY <1>2, <1>3

LEMMA InvNext == CadenceInv /\ [Next]_vars => CadenceInv'
  <1>. SUFFICES ASSUME CadenceInv, [Next]_vars  PROVE CadenceInv'
    OBVIOUS
  <1>0. TypeOK /\ TypeOK'
    BY TypeNext DEF CadenceInv
  <1>1. CASE Tick
    BY <1>0, <1>1, InvTick
  <1>2. CASE LoseCache
    <2>1. NotCached.left = 0 /\ NotCached.ticks = 0
      BY DEF NotCached, RecordOf
    <2>. QED  BY <1>0, <1>2, <2>1 DEF LoseCache, CadenceInv, RecordAge, RunAge, OnSchedule,
                 Served, RecordSight, RunSight, Within
  <1>3. CASE Outage
    <2>1. phase \in Nat /\ cache.age \in Nat /\ runs[cron].timer \in Nat
      BY <1>0, RecordFields, SlotFields, Numbers DEF TypeOK
    <2>2. steady' = 0 /\ UNCHANGED <<clock, phase, runs, cache, seen>>
      BY <1>3 DEF Outage
    <2>3. RecordSight' /\ RunSight'
      BY <2>1, <2>2, Numbers DEF RecordSight, RunSight, Within
    <2>. QED  BY <1>0, <2>2, <2>3 DEF CadenceInv, RecordAge, RunAge, OnSchedule, Served
  <1>4. CASE Recover
    BY <1>0, <1>4 DEF Recover, CadenceInv, RecordAge, RunAge, OnSchedule,
                 Served, RecordSight, RunSight, Within
  <1>5. ASSUME NEW r \in Runs, Trigger(r)  PROVE CadenceInv'
    <2>1. Due \in Run /\ RunAge(Due)
      BY RunTypes DEF RunAge
    <2>. QED  BY <1>0, <1>5, <2>1, InvMove DEF Trigger
  <1>6. ASSUME NEW r \in Runs, RunStep(r)  PROVE CadenceInv'
    <2>1. CASE CacheHit(r)
      BY <1>0, <2>1, InvHit
    <2>2. CASE StartFetch(r)
      BY <1>0, <2>2, InvStart
    <2>3. CASE Respond(r) \/ HttpError(r)
      BY <1>0, <2>3, InvReturn DEF Respond, HttpError
    <2>4. CASE Raise(r)
      BY <1>0, <2>4, InvRaise
    <2>5. CASE Store(r)
      BY <1>0, <2>5, InvIdle DEF Store
    <2>. QED  BY <1>6, <2>1, <2>2, <2>3, <2>4, <2>5 DEF RunStep
  <1>7. ASSUME NEW r \in Runs, Crash(r)  PROVE CadenceInv'
    <2>1. steady <= LATENCY
      BY <1>7, Numbers DEF Crash, CadenceInv
    <2>. QED  BY <1>0, <1>7, <2>1, InvIdle DEF Crash
  <1>8. CASE UNCHANGED vars
    BY <1>0, <1>8 DEF vars, CadenceInv, RecordAge, RunAge, OnSchedule,
                 Served, RecordSight, RunSight, Within
  <1>. QED  BY <1>1, <1>2, <1>3, <1>4, <1>5, <1>6, <1>7, <1>8 DEF Next

LEMMA InvHolds == Spec => []CadenceInv
  BY InvInit, InvNext, PTL DEF Spec

-----------------------------------------------------------------------------
(* What follows. *)

\* The cache never costs two scheduled runs the same sample, whatever the
\* manual triggers.
THEOREM EveryTickAlwaysSamples == Spec => []EveryTickSamples
  <1>1. CadenceInv => EveryTickSamples
    BY DEF CadenceInv, Served, EveryTickSamples
  <1>. QED  BY <1>1, InvHolds, PTL

\* A source that answers is never unseen for longer than BLIND.
THEOREM NeverBlindAlways == Spec => []NeverBlindForLong
  <1>1. CadenceInv => NeverBlindForLong
    <2>. SUFFICES ASSUME CadenceInv, steady >= BLIND, ~(seen < BLIND)  PROVE FALSE
      BY DEF NeverBlindForLong
    <2>. USE Numbers
    <2>1. /\ phase \in Nat /\ phase <= CRON - 1 /\ steady \in Nat /\ seen \in Nat
          /\ runs[cron].st \in Steps /\ runs[cron].timer \in Nat
          /\ runs[cron].st = "due" => runs[cron].timer <= PICKUP
          /\ runs[cron].st \in {"calling", "waiting"} => runs[cron].timer <= LATENCY
      BY SlotFields DEF CadenceInv, TypeOK
    <2>2. CASE runs[cron].st \in {"idle", "holding"}
      BY <2>1, <2>2 DEF CadenceInv, RunSight, Within, BLIND
    <2>3. CASE runs[cron].st = "due"
      BY <2>1, <2>3 DEF CadenceInv, RunSight, Within, BLIND
    <2>4. CASE runs[cron].st \in {"calling", "waiting"}
      BY <2>1, <2>4 DEF CadenceInv, RunSight, Within, BLIND
    <2>. QED  BY <2>1, <2>2, <2>3, <2>4 DEF Steps
  <1>. QED  BY <1>1, InvHolds, PTL

\* The heavy cron finds the day it reads complete.
THEOREM DayIsAlwaysClosed == Spec => []DayIsClosed
  <1>1. CadenceInv => DayIsClosed
    <2>. SUFFICES ASSUME CadenceInv, NEW r \in Runs, runs[r].st = "holding", runs[r].age > clock
                  PROVE  clock < HEAVY_AT
      BY DEF DayIsClosed
    <2>1. /\ runs[r].age \in Nat /\ runs[r].timer \in Nat /\ clock \in Nat
          /\ runs[r].timer <= RUNTIME
      BY SlotFields, Numbers DEF CadenceInv, TypeOK
    <2>2. runs[r].age <= CACHE_TTL + LATENCY + runs[r].timer
      BY DEF CadenceInv, RunAge
    <2>. QED  BY <2>1, <2>2, Numbers, CadenceSlack
  <1>. QED  BY <1>1, InvHolds, PTL

=============================================================================
