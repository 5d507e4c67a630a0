---------------------------- MODULE FetchCadence ----------------------------
(***************************************************************************)
(* Time in the light flow: the */15 cron, manual triggers, the fetch of    *)
(* one source with its retries, the result cache of 14 minutes, and the    *)
(* 03:00 cron of the heavy flow, which reads the day that has ended.       *)
(*                                                                         *)
(* Every duration is counted from the event it is about (an age, a timer,  *)
(* a remaining life) and Tick advances them together, so that time is      *)
(* unbounded and the states are finite.  The sources are fetched by tasks  *)
(* with cache keys of their own, so one of them stands for each.           *)
(***************************************************************************)
EXTENDS Integers

CONSTANTS
    Runs, cron,           \* one run slot is the schedule's, the others manual
    CRON, CACHE_TTL,      \* in ticks: 15 and 14 minutes
    PICKUP,               \* a due run is picked up by the worker within this,
    LATENCY,              \* a fetch task ends within this, retries included,
    RUNTIME,              \* and from its result to the upserts takes this
    RETRIES,
    DAY, HEAVY_AT         \* a day, and 03:00

\* The longest a working source may stay unseen: a record of an earlier error
\* or an earlier capture, at the end of its life, is served to one scheduled
\* run, and the next one fetches.
BLIND == CACHE_TTL + LATENCY + CRON + PICKUP + LATENCY

\* Ages are not told apart beyond this.
LONG == BLIND + 1

ASSUME CadenceConstants ==
    /\ cron \in Runs
    /\ CRON \in Nat \ {0} /\ CACHE_TTL \in Nat \ {0}
    /\ PICKUP \in Nat /\ LATENCY \in Nat /\ RUNTIME \in Nat
    /\ RETRIES \in Nat
    /\ DAY \in Nat /\ HEAVY_AT \in Nat

\* What the deployment relies on: between the cache's life and the cron's
\* period there is one minute for picking a run up and fetching.
ASSUME CadenceSlack ==
    /\ CACHE_TTL + PICKUP + LATENCY <= CRON
    /\ PICKUP + LATENCY + RUNTIME < CRON
    /\ CACHE_TTL + LATENCY + RUNTIME < HEAVY_AT
    /\ HEAVY_AT < DAY

VARIABLES
    clock,    \* ticks since midnight UTC
    phase,    \* ticks since the schedule last fired
    runs,     \* each slot's run: step, time in it, attempts, what it holds
    cache,    \* Prefect's record for the source
    flaky,    \* may requests fail and processes die?
    steady,   \* ticks since they last could
    seen      \* age of the newest good capture a run has obtained

vars == <<clock, phase, runs, cache, flaky, steady, seen>>

RunAt(st, timer, tries, age, ok) ==
    [st |-> st, timer |-> timer, tries |-> tries, age |-> age, ok |-> ok]

Idle == RunAt("idle", 0, 0, 0, FALSE)
Due  == RunAt("due", 0, 0, 0, FALSE)

RecordOf(left, age, ok, ticks) ==
    [left |-> left, age |-> age, ok |-> ok, ticks |-> ticks]

\* ticks counts the scheduled runs that have used the record.
NotCached == RecordOf(0, 0, FALSE, 0)

Init ==
    /\ clock = 0 /\ phase = 0
    /\ runs = [r \in Runs |-> IF r = cron THEN Due ELSE Idle]
    /\ cache = NotCached
    /\ flaky = TRUE /\ steady = 0
    /\ seen = LONG

-----------------------------------------------------------------------------
(* Time. *)

Deadline(st) == CASE st = "due"                    -> PICKUP
                  [] st \in {"calling", "waiting"} -> LATENCY
                  [] st = "holding"                -> RUNTIME

OnTime(run) == run.st # "idle" => run.timer < Deadline(run.st)

\* A capture ages from captured_at, which every attempt sets anew.
Captured(run) == run.st \in {"calling", "holding"}

Older(run) ==
    IF run.st = "idle" THEN run
    ELSE RunAt(run.st, run.timer + 1, run.tries,
               IF Captured(run) THEN run.age + 1 ELSE run.age, run.ok)

Aged(n) == IF n < LONG THEN n + 1 ELSE LONG

\* A faulty record: without cache_expiration it is served for ever.
NeverExpires(record) ==
    RecordOf(record.left, Aged(record.age), record.ok, record.ticks)

\* cache_expiration: a record that has expired is as good as none.
Expire(record) ==
    IF record.left <= 1 THEN NotCached
    ELSE RecordOf(record.left - 1, record.age + 1, record.ok, record.ticks)

\* A tick passes when nothing is overdue; the schedule fires every CRON ticks.
Tick ==
    /\ \A r \in Runs : OnTime(runs[r])
    /\ clock' = IF clock + 1 = DAY THEN 0 ELSE clock + 1
    /\ phase' = IF phase + 1 = CRON THEN 0 ELSE phase + 1
    /\ runs' = [r \in Runs |-> IF r = cron /\ phase' = 0 THEN Due
                               ELSE Older(runs[r])]
    /\ cache' = Expire(cache)
    /\ steady' = IF flaky THEN 0 ELSE Aged(steady)
    /\ seen' = Aged(seen)
    /\ UNCHANGED flaky

-----------------------------------------------------------------------------
(* A run of light_price_sync, as far as one source is concerned. *)

\* prefect deployment run, at any time.
Trigger(r) ==
    /\ r # cron /\ runs[r].st = "idle"
    /\ runs' = [runs EXCEPT ![r] = Due]
    /\ UNCHANGED <<clock, phase, cache, flaky, steady, seen>>

Begins(r) == runs[r].st \in {"due", "waiting"}

\* The newest good capture a run has obtained, given one of this age.
Newest(age, ok) == IF ok /\ age < seen THEN age ELSE seen

ScheduledUse(r) == IF r = cron THEN 1 ELSE 0

\* The run obtains a result and goes on to the drift check and the upserts.
Hold(r, age, ok) ==
    /\ runs' = [runs EXCEPT ![r] = RunAt("holding", 0, 0, age, ok)]
    /\ seen' = Newest(age, ok)

\* A faulty cache: a hit renews the record (sliding expiration).
SlidingHit(r) ==
    /\ Begins(r) /\ cache.left > 0
    /\ Hold(r, cache.age, cache.ok)
    /\ cache' = RecordOf(CACHE_TTL, cache.age, cache.ok, cache.ticks + ScheduledUse(r))
    /\ UNCHANGED <<clock, phase, flaky, steady>>

CacheHit(r) ==
    /\ Begins(r) /\ cache.left > 0
    /\ Hold(r, cache.age, cache.ok)
    /\ cache' = RecordOf(cache.left, cache.age, cache.ok, cache.ticks + ScheduledUse(r))
    /\ UNCHANGED <<clock, phase, flaky, steady>>

\* captured_at is taken before each attempt.
StartFetch(r) ==
    /\ Begins(r) /\ cache.left = 0
    /\ runs' = [runs EXCEPT ![r] =
          RunAt("calling", IF runs[r].st = "due" THEN 0 ELSE runs[r].timer,
                runs[r].tries, 0, FALSE)]
    /\ UNCHANGED <<clock, phase, cache, flaky, steady, seen>>

\* The task returns: its result is cached, good or not, and lives CACHE_TTL
\* from now.
Return(r, ok) ==
    /\ runs[r].st = "calling"
    /\ Hold(r, runs[r].age, ok)
    /\ cache' = RecordOf(CACHE_TTL, runs[r].age, ok, ScheduledUse(r))
    /\ UNCHANGED <<clock, phase, flaky, steady>>

Respond(r) == Return(r, TRUE)

\* A faulty client: one for the process, which once broken fails for ever.
BrokenClient(r) == TRUE

\* Something was wrong at some time since the attempt began: each attempt has
\* a client of its own.
MayFail(r) == flaky \/ steady <= runs[r].age

\* An error of the request is returned, not raised: no retry, and it is cached.
HttpError(r) == MayFail(r) /\ Return(r, FALSE)

\* Faulty retries: one too many.
RaiseOneMore(r) ==
    /\ runs[r].st = "calling" /\ MayFail(r)
    /\ runs' = [runs EXCEPT ![r] =
          IF runs[r].tries <= RETRIES
          THEN RunAt("waiting", runs[r].timer, runs[r].tries + 1, 0, FALSE)
          ELSE Idle]
    /\ UNCHANGED <<clock, phase, cache, flaky, steady, seen>>

\* Any other error is raised: nothing is cached, and the task is retried.
Raise(r) ==
    /\ runs[r].st = "calling" /\ MayFail(r)
    /\ runs' = [runs EXCEPT ![r] =
          IF runs[r].tries < RETRIES
          THEN RunAt("waiting", runs[r].timer, runs[r].tries + 1, 0, FALSE)
          ELSE Idle]
    /\ UNCHANGED <<clock, phase, cache, flaky, steady, seen>>

\* The upserts, accepted or refused (a sku the catalogue does not know): either
\* way the run is over.  What it leaves in the tables is LightPipeline's matter.
Store(r) ==
    /\ runs[r].st = "holding"
    /\ runs' = [runs EXCEPT ![r] = Idle]
    /\ UNCHANGED <<clock, phase, cache, flaky, steady, seen>>

\* The run dies at any step.
Crash(r) ==
    /\ flaky /\ runs[r].st # "idle"
    /\ runs' = [runs EXCEPT ![r] = Idle]
    /\ UNCHANGED <<clock, phase, cache, flaky, steady, seen>>

\* The worker's container is recreated, without its result storage.
LoseCache ==
    /\ cache' = NotCached
    /\ UNCHANGED <<clock, phase, runs, flaky, steady, seen>>

Outage ==
    /\ ~flaky
    /\ flaky' = TRUE /\ steady' = 0
    /\ UNCHANGED <<clock, phase, runs, cache, seen>>

Recover ==
    /\ flaky
    /\ flaky' = FALSE
    /\ UNCHANGED <<clock, phase, runs, cache, steady, seen>>

RunStep(r) ==
    \/ CacheHit(r) \/ StartFetch(r)
    \/ Respond(r) \/ HttpError(r) \/ Raise(r)
    \/ Store(r)

Next ==
    \/ Tick \/ LoseCache \/ Outage \/ Recover
    \/ \E r \in Runs : Trigger(r) \/ RunStep(r) \/ Crash(r)

Spec == Init /\ [][Next]_vars

\* Time passes and a live run takes its next step; nothing is fair of the
\* triggers, the outages or the cache.
FairSpec == Spec /\ WF_vars(Tick) /\ \A r \in Runs : WF_vars(RunStep(r))

-----------------------------------------------------------------------------
(* Properties *)

Steps == {"idle", "due", "waiting", "calling", "holding"}

Run == [st : Steps, timer : Nat, tries : 0..RETRIES, age : Nat, ok : BOOLEAN]

Record == [left : 0..CACHE_TTL, age : Nat, ok : BOOLEAN, ticks : Nat]

\* Every variable has its type, and no run is overdue.
TypeOK ==
    /\ clock \in 0 .. DAY - 1
    /\ phase \in 0 .. CRON - 1
    /\ runs \in [Runs -> Run]
    /\ \A r \in Runs : runs[r].st # "idle" => runs[r].timer <= Deadline(runs[r].st)
    /\ cache \in Record
    /\ flaky \in BOOLEAN
    /\ steady \in 0..LONG
    /\ seen \in 0..LONG

\* No capture, and no error, is served to two scheduled runs, however manual
\* triggers fill the cache in between: the cache never costs a cron tick its
\* sample twice (CACHE_TTL against the cron of deploy_light).
EveryTickSamples == cache.ticks <= 1

\* A source that has answered for BLIND ticks has been captured within BLIND
\* ticks.  An HTTP error, which no retry repairs, and a capture replayed from
\* the cache each cost a scheduled run its sample, but they do not add up:
\* the data is at most two cron periods old, and not for good without it.
NeverBlindForLong == steady >= BLIND => seen < BLIND

\* When the heavy cron fires no run still holds a capture of the day that has
\* ended, which a replay from the cache after midnight would store under that
\* day once the day has been read (light cron and cache against deploy_heavy).
DayIsClosed ==
    \A r \in Runs :
        runs[r].st = "holding" /\ runs[r].age > clock => clock < HEAVY_AT

\* Whatever outages there were, a source that answers from some time on is
\* fetched again and again: no schedule of manual triggers, each of which may
\* renew the record just before a scheduled run, keeps it from being fetched.
KeepsSampling == <>[](~flaky) => []<>(seen <= LATENCY)

=============================================================================
