----------------------- MODULE LightRefinementProofs -----------------------
(***************************************************************************)
(* What readers see of the light flow, for any stores, skus, prices,       *)
(* number of runs, cache lifetime and clock, when no two runs are alive at *)
(* once and the cache outlives them: it implements PriceMonitor as long as *)
(* nothing fails after the fetches, and LossyMonitor whatever fails.       *)
(*                                                                         *)
(* The argument: the upsert of the snapshots is the observation.  What it  *)
(* adds is newer than all that is stored of its pairs, and what the drift  *)
(* check found is the step to it from the latest stored, so both sides     *)
(* report the same; from then on the run carries the changes to the table. *)
(* A run that fails meanwhile drops what it carries, and that leads to     *)
(* snapshots which are still the latest of their pairs.                    *)
(***************************************************************************)
EXTENDS LightRefinement, LightSerialProofs

USE DEF Sources

Readings == [src : STORE_IDS, item : SKUS, val : PRICES, at : 0..MaxTime]

Carries(r) == pc[r] \in {"fx", "events"}

\* What a run carries leads to the latest snapshots of its pairs.
CarriesLatest(r) ==
    Carries(r) => \A e \in events[r], o \in price_snapshots :
        o.src = e.src /\ o.item = e.item => o.at <= e.at

RefInv == SerialInv /\ UniqueInv /\ \A r \in Runs : CarriesLatest(r)

\* What is pending is what the one acting run carries, before and after.
LEMMA PendingOfOne ==
    ASSUME RefInv, Serial, NEW r \in Runs, Acts(r)
    PROVE  /\ Pending = IF Carries(r) THEN events[r] ELSE {}
           /\ Pending' = IF Carries(r)' THEN events'[r] ELSE {}
<1>1. \A q \in Runs \ {r} : ~Carries(q) /\ pc'[q] = pc[q]
  BY ActsAlive, ActsOnOne DEF RefInv, SerialInv, ControlInv, Alive, Carries, Serial
<1>2. \A e : e \in Pending <=> \E q \in Runs : Carries(q) /\ e \in events[q]
  BY DEF Pending, Carries
<1>3. \A e : e \in Pending' <=> \E q \in Runs : Carries(q)' /\ e \in events'[q]
  BY DEF Pending, Carries
<1>4. \A e : e \in Pending <=> Carries(r) /\ e \in events[r]
  BY <1>1, <1>2
<1>5. \A e : e \in Pending' <=> Carries(r)' /\ e \in events'[r]
  BY <1>1, <1>3 DEF Carries
<1> QED BY <1>4, <1>5

\* The changes detected are those PriceMonitor reports for what the run adds.
LEMMA SameReports ==
    ASSUME RefInv, Serial, NEW r \in Runs, upsert_raw_snapshots(r),
           NEW batch, batch = price_snapshots' \ price_snapshots
    PROVE  DetectedChanges(r) = Monitor!MovesTo(batch)
<1> DEFINE Here == {q \in price_snapshots \X Captures(r) :
                       IsBaseline(q[1], q[2]) /\ Moved(q[1].val, q[2].val)}
           There == {q \in price_snapshots \X batch :
                       /\ Monitor!Latest(q[1]) /\ Monitor!SamePair(q[1], q[2])
                       /\ Moved(q[1].val, q[2].val)}
<1>0. ControlInv /\ CacheInv /\ pc[r] \in Past
  BY DEF RefInv, SerialInv, upsert_raw_snapshots, Past
<1>1. batch \subseteq Captures(r)
  BY DEF upsert_raw_snapshots, InsertRows
<1>2. ASSUME NEW q \in Here
      PROVE  q \in There
  <2>1. q[2] \in batch
    BY <1>0, <1>2, DetectedOlder, CapturesStored
  <2> QED BY <1>2, <2>1 DEF IsBaseline, Monitor!Latest, Monitor!SamePair
<1>3. ASSUME NEW q \in There
      PROVE  q \in Here
  BY <1>1, <1>3 DEF IsBaseline, Monitor!Latest, Monitor!SamePair
<1>4. Here = There
  <2> HIDE DEF Here, There
  <2>1. Here \subseteq There /\ There \subseteq Here
    BY <1>2, <1>3
  <2> QED BY <2>1
<1>5. \A b, c : Change(b, c) = Monitor!Report(b, c)
  BY DEF Change, Monitor!Report
<1>6. {Change(p[1], p[2]) : p \in Here} = {Monitor!Report(p[1], p[2]) : p \in There}
  <2> HIDE DEF Here, There
  <2> QED BY <1>4, <1>5
<1> QED BY <1>6 DEF DetectedChanges, Monitor!MovesTo

\* The upsert of the snapshots keeps a batch of newer readings.
LEMMA UpsertKeeps ==
    ASSUME RefInv, RefInv', Serial, NEW r \in Runs, upsert_raw_snapshots(r)
    PROVE  Monitor!Batch \subseteq Readings /\ Monitor!Keep(Monitor!Batch)
<1> DEFINE batch == price_snapshots' \ price_snapshots
<1>0. ControlInv /\ CacheInv /\ TypeOK /\ CacheInv' /\ TypeOK'
  BY DEF RefInv, SerialInv, ControlInv
<1>1. batch \subseteq Captures(r) /\ price_snapshots' = price_snapshots \cup batch
  BY DEF upsert_raw_snapshots, InsertRows
<1>2. ASSUME NEW o \in batch
      PROVE  o \in Readings
  <2>1. o \in SnapshotRow /\ o.at <= now' /\ now' \in 0..MaxTime
    BY <1>0 DEF TypeOK, CacheInv
  <2>2. o.at \in 0..MaxTime
    BY <2>1, ConstantsOK DEF SnapshotRow
  <2> QED BY <2>1, <2>2 DEF SnapshotRow, Readings
<1>3. \A c, d \in batch : Monitor!SamePair(c, d) => c = d
  BY <1>1, CapturedOnce DEF Monitor!SamePair, SameItem
<1>4. \A c \in batch, h \in price_snapshots : Monitor!SamePair(h, c) => h.at < c.at
  BY <1>0, AddedNewer DEF Monitor!SamePair, SameItem
<1> QED BY <1>1, <1>2, <1>3, <1>4 DEF Monitor!Batch, Monitor!Keep

\* It is an observation, overlooked when its acknowledgement is lost.
LEMMA UpsertObserves ==
    ASSUME RefInv, RefInv', Serial, NEW r \in Runs, upsert_raw_snapshots(r)
    PROVE  \/ Monitor!Observe(Monitor!Batch)
           \/ Monitor!Overlook(Monitor!Batch) /\ faults' # faults
<1>1. /\ pc[r] = "snapshots"
      /\ pc'[r] = "fx" \/ (pc'[r] = "failed" /\ faults' # faults)
      /\ UNCHANGED <<events, price_change_events>>
  BY DEF RefInv, UniqueInv, upsert_raw_snapshots, Commit, Advance, After, Fail, Fault, TypeOK
<1>2. Pending = {} /\ Pending' = IF pc'[r] = "fx" THEN events[r] ELSE {}
  BY <1>1, PendingOfOne DEF Carries, Acts, RunStep, FlowStep
<1>3. events[r] = DetectedChanges(r)
  BY <1>1 DEF RefInv, SerialInv, EventInv, Unwritten
<1>4. DetectedChanges(r) = Monitor!MovesTo(Monitor!Batch)
  BY SameReports DEF Monitor!Batch
<1>5. CASE pc'[r] = "fx"
  BY <1>1, <1>2, <1>3, <1>4, <1>5, UpsertKeeps DEF Monitor!Observe
<1>6. CASE pc'[r] = "failed"
  BY <1>1, <1>2, <1>6, UpsertKeeps DEF Monitor!Overlook
<1> QED BY <1>1, <1>5, <1>6

\* Two backed changes of one pair to one instant are the same.
LEMMA BackedOnce ==
    ASSUME RefInv, NEW e, NEW f, Backing(e), Backing(f),
           e.src = f.src, e.item = f.item, e.at = f.at
    PROVE  e = f
<1>1. PICK b \in price_snapshots, c \in price_snapshots : Consecutive(b, c) /\ e = Change(b, c)
  BY DEF Backing
<1>2. PICK o \in price_snapshots, d \in price_snapshots : Consecutive(o, d) /\ f = Change(o, d)
  BY DEF Backing
<1>3. c = d
  BY <1>1, <1>2 DEF Change, RefInv, UniqueInv, UniqueRows, SameBucket
<1>4. b.at \in Nat /\ o.at \in Nat /\ c.at \in Nat
  BY DEF RefInv, UniqueInv, TypeOK, SnapshotRow
<1>5. b.at = o.at
  BY <1>1, <1>2, <1>3, <1>4 DEF Consecutive
<1>6. b = o
  BY <1>1, <1>2, <1>3, <1>5 DEF Consecutive, RefInv, UniqueInv, UniqueRows, SameBucket
<1> QED BY <1>1, <1>2, <1>3, <1>6

\* So a carried change whose place in the table is taken is in the table.
LEMMA CarriedIsWritten ==
    ASSUME RefInv, NEW r \in Runs, upsert_change_events(r)
    PROVE  price_change_events' = price_change_events \cup events[r]
<1>1. ASSUME NEW e \in events[r], NEW old \in price_change_events, EventKey(old) = EventKey(e)
      PROVE  old = e
  <2>1. Backing(e) /\ Backing(old)
    BY DEF RefInv, SerialInv, EventInv, EventsBacked, Backing, Unwritten, upsert_change_events
  <2> QED BY <1>1, <2>1, BackedOnce DEF EventKey
<1> QED BY <1>1 DEF upsert_change_events, InsertEvents

\* A run that fails while it carries changes drops them: they lead to the latest
\* snapshots of their pairs.
LEMMA DroppedIsForgotten ==
    ASSUME RefInv, Serial, NEW r \in Runs, Acts(r), Carries(r), ~Carries(r)',
           UNCHANGED <<price_snapshots, price_change_events>>
    PROVE  Monitor!Forget
<1>1. Pending = events[r] /\ Pending' = {}
  BY PendingOfOne
<1>2. ASSUME NEW e \in events[r]
      PROVE  \E b, c \in price_snapshots :
                Monitor!Consecutive(b, c) /\ Monitor!Latest(c) /\ e = Monitor!Report(b, c)
  <2>1. PICK b \in price_snapshots, c \in price_snapshots : Consecutive(b, c) /\ e = Change(b, c)
    BY DEF RefInv, SerialInv, EventInv, Unwritten, Backing, Carries
  <2>2. Monitor!Latest(c)
    BY <2>1 DEF RefInv, CarriesLatest, Change, Monitor!Latest, Monitor!SamePair
  <2> QED BY <2>1, <2>2 DEF Consecutive, Change, Monitor!Consecutive, Monitor!SamePair,
             Monitor!Report
<1> QED BY <1>1, <1>2 DEF Monitor!Forget

\* The step loses changes: a commit, a call or the process failed, or the
\* database refuses a percentage.
Loses ==
    \/ faults' # faults
    \/ \E r \in Runs : pc[r] = "events" /\ \E e \in events[r] : Overflows(e)

\* The other steps change what readers see only when they lose something.
LEMMA OthersForget ==
    ASSUME RefInv, RefInv', Serial, [Next]_vars,
           ~ \E r \in Runs : upsert_raw_snapshots(r)
    PROVE  \/ UNCHANGED <<price_snapshots, price_change_events \cup Pending>>
           \/ Monitor!Forget /\ Loses
<1>0. TypeOK
  BY DEF RefInv, UniqueInv
<1>1. ASSUME NEW r \in Runs, upsert_change_events(r)
      PROVE  UNCHANGED <<price_snapshots, price_change_events \cup Pending>>
  <2>1. pc[r] = "events" /\ pc'[r] \in {"health", "failed"} /\ UNCHANGED price_snapshots
    BY <1>0, <1>1 DEF TypeOK, upsert_change_events, Commit, Advance, After, Fail
  <2>2. Pending = events[r] /\ Pending' = {}
    BY <1>1, <2>1, PendingOfOne DEF Carries, Acts, RunStep, FlowStep
  <2> QED BY <1>1, <2>1, <2>2, CarriedIsWritten
<1>2. ASSUME NEW r \in Runs, upsert_raw_fx(r)
      PROVE  \/ UNCHANGED <<price_snapshots, price_change_events \cup Pending>>
             \/ Monitor!Forget /\ Loses
  <2>1. /\ pc[r] = "fx"
        /\ pc'[r] = "events" \/ (pc'[r] = "failed" /\ faults' # faults)
        /\ UNCHANGED <<events, price_snapshots, price_change_events>>
    BY <1>0, <1>2 DEF TypeOK, upsert_raw_fx, Commit, Advance, After, Fail, Fault
  <2>2. CASE pc'[r] = "events"
    BY <1>2, <2>1, <2>2, PendingOfOne DEF Carries, Acts, RunStep, FlowStep
  <2>3. CASE pc'[r] = "failed"
    BY <1>2, <2>1, <2>3, DroppedIsForgotten DEF Carries, Acts, RunStep, FlowStep, Loses
  <2> QED BY <2>1, <2>2, <2>3
<1>3. ASSUME NEW r \in Runs, Carries(r), ConstraintError(r) \/ DbError(r) \/ Crash(r)
      PROVE  Monitor!Forget /\ Loses
  <2>1. /\ pc'[r] \in {"failed", "dead"}
        /\ UNCHANGED <<price_snapshots, price_change_events>>
    BY <1>0, <1>3 DEF TypeOK, ConstraintError, DbError, Crash, Fail, End, tables
  <2>2. faults' # faults \/ ConstraintError(r)
    BY <1>0, <1>3 DEF TypeOK, DbError, Crash, Fault
  <2>3. Loses
    BY <1>3, <2>2 DEF Loses, ConstraintError, Carries
  <2> QED BY <1>3, <2>1, <2>3, DroppedIsForgotten DEF Carries, Acts, RunStep, FlowStep
<1>4. ASSUME NEW r \in Runs, ~Carries(r),
             \/ Trigger(r) \/ Gathered(r) \/ quick_drift_check(r) \/ Exit(r)
             \/ validate_response_health(r) \/ ConstraintError(r) \/ DbError(r) \/ Crash(r)
             \/ \E k \in Sources : FetchStep(r, k)
      PROVE  UNCHANGED <<price_snapshots, price_change_events \cup Pending>>
  <2>1. UNCHANGED <<price_snapshots, price_change_events>>
    BY <1>4 DEF Trigger, Gathered, quick_drift_check, Exit, validate_response_health,
           ConstraintError, DbError, Crash, FetchStep, CacheHit, StartFetch, Respond,
           HttpError, Return, RaiseError, tables
  <2>2. ~Carries(r)'
    BY <1>0, <1>4 DEF Carries, TypeOK, Trigger, Gathered, quick_drift_check, Exit,
           validate_response_health, ConstraintError, DbError, Crash, FetchStep, CacheHit,
           StartFetch, Respond, HttpError, Return, RaiseError, Fetching, Advance, After,
           Fail, End
  <2>3. Pending = {} /\ Pending' = {}
    BY <1>4, <2>2, PendingOfOne DEF Acts, RunStep, FlowStep
  <2> QED BY <2>1, <2>3
<1>5. ASSUME NEW r \in Runs, Carries(r)
      PROVE  /\ ~Trigger(r) /\ ~Gathered(r) /\ ~quick_drift_check(r) /\ ~Exit(r)
             /\ ~validate_response_health(r)
             /\ \A k \in Sources : ~FetchStep(r, k)
  BY <1>5 DEF Carries, Trigger, Gathered, quick_drift_check, Exit, validate_response_health,
         FetchStep, CacheHit, StartFetch, Respond, HttpError, Return, RaiseError, Fetching
<1>6. CASE LoseCache \/ Tick \/ UNCHANGED vars
  <2>1. UNCHANGED <<pc, events, price_snapshots, price_change_events>>
    BY <1>6, OtherSteps DEF tables
  <2>2. Pending' = Pending
    BY <2>1 DEF Pending
  <2> QED BY <2>1, <2>2
<1> QED BY <1>1, <1>2, <1>3, <1>4, <1>5, <1>6 DEF Next, RunStep, FlowStep

\* What a run has just stored is the latest of its pairs, and stays so until the
\* next run stores.
LEMMA CarriesStep ==
    ASSUME RefInv, Serial, [Next]_vars
    PROVE  \A r \in Runs : CarriesLatest(r)'
<1>0. ControlInv /\ CacheInv /\ TypeOK
  BY DEF RefInv, SerialInv, ControlInv
<1>1. ASSUME NEW r \in Runs, Acts(r), CarriesLatest(r)'
      PROVE  \A q \in Runs : CarriesLatest(q)'
  <2>1. ASSUME NEW q \in Runs, q # r
        PROVE  ~Carries(q)'
    BY <1>0, <1>1, <2>1, ActsAlive, ActsOnOne DEF Alive, Carries, Serial
  <2> QED BY <1>1, <2>1 DEF CarriesLatest
<1>2. ASSUME NEW r \in Runs, upsert_raw_snapshots(r)
      PROVE  CarriesLatest(r)'
  <2> SUFFICES ASSUME Carries(r)', NEW e \in events'[r], NEW o \in price_snapshots',
                      o.src = e.src, o.item = e.item
               PROVE  o.at <= e.at
    BY DEF CarriesLatest
  <2>1. e \in DetectedChanges(r) /\ pc[r] \in Past
    BY <1>2 DEF upsert_raw_snapshots, RefInv, SerialInv, EventInv, Unwritten, Past
  <2>2. PICK c \in Captures(r) : e.src = c.src /\ e.item = c.item /\ e.at = c.at
    BY <2>1 DEF DetectedChanges, Change
  <2>3. c.at \in Nat
    BY <1>0, CapturesType DEF SnapshotRow
  <2>4. CASE o \in price_snapshots
    BY <1>0, <2>1, <2>2, <2>3, <2>4, NewerThanStored DEF SameItem, TypeOK, SnapshotRow
  <2>5. CASE o \in Captures(r)
    BY <2>2, <2>3, <2>5, CapturedOnce DEF SameItem
  <2> QED BY <1>2, <2>4, <2>5 DEF upsert_raw_snapshots, InsertRows
<1>3. ASSUME NEW r \in Runs, upsert_raw_fx(r)
      PROVE  CarriesLatest(r)'
  <2>1. Carries(r) /\ UNCHANGED <<events, price_snapshots>>
    BY <1>3 DEF upsert_raw_fx, Carries
  <2> QED BY <2>1 DEF RefInv, CarriesLatest
<1>4. ASSUME NEW r \in Runs,
             \/ Trigger(r) \/ Gathered(r) \/ quick_drift_check(r) \/ Exit(r)
             \/ upsert_change_events(r) \/ validate_response_health(r)
             \/ ConstraintError(r) \/ DbError(r) \/ Crash(r)
             \/ \E k \in Sources : FetchStep(r, k)
      PROVE  CarriesLatest(r)'
  <2>1. ~Carries(r)'
    BY <1>0, <1>4 DEF Carries, TypeOK, Trigger, Gathered, quick_drift_check, Exit,
           upsert_change_events, validate_response_health, ConstraintError, DbError, Crash,
           FetchStep, CacheHit, StartFetch, Respond, HttpError, Return, RaiseError, Fetching,
           Commit, Advance, After, Fail, End
  <2> QED BY <2>1 DEF CarriesLatest
<1>5. CASE LoseCache \/ Tick \/ UNCHANGED vars
  BY <1>5, OtherSteps DEF RefInv, CarriesLatest, Carries, tables
<1> QED BY <1>1, <1>2, <1>3, <1>4, <1>5 DEF Next, Acts, RunStep, FlowStep

LEMMA RefStep ==
    ASSUME RefInv, Serial, [Next]_vars
    PROVE  RefInv'
<1>1. SerialInv' /\ UniqueInv'
  BY SerialStep, UniqueStep DEF RefInv
<1> QED BY <1>1, CarriesStep DEF RefInv

LEMMA RefInit == Init => RefInv /\ Monitor!Init
<1> SUFFICES ASSUME Init PROVE RefInv /\ Monitor!Init
  OBVIOUS
<1>1. UniqueInv
  BY InitType DEF Init, UniqueInv, UniqueRows, EventsOnce, OnePerInstant
<1>2. Pending = {} /\ price_snapshots = {} /\ price_change_events = {}
  BY DEF Init, Pending
<1>3. \A r \in Runs : CarriesLatest(r)
  BY <1>2 DEF CarriesLatest
<1> QED BY <1>1, <1>2, <1>3, SerialInit DEF RefInv, Monitor!Init

\* So a step is an observation, a stutter, or a loss.
LEMMA ViewStep ==
    ASSUME RefInv, Serial, [Next]_vars
    PROVE  \/ Monitor!Batch \subseteq Readings /\ Monitor!Observe(Monitor!Batch)
           \/ UNCHANGED <<price_snapshots, price_change_events \cup Pending>>
           \/ /\ Loses
              /\ \/ Monitor!Batch \subseteq Readings /\ Monitor!Overlook(Monitor!Batch)
                 \/ Monitor!Forget
<1>1. RefInv'
  BY RefStep
<1>2. ASSUME NEW r \in Runs, upsert_raw_snapshots(r)
      PROVE  \/ Monitor!Batch \subseteq Readings /\ Monitor!Observe(Monitor!Batch)
             \/ /\ Loses
                /\ Monitor!Batch \subseteq Readings /\ Monitor!Overlook(Monitor!Batch)
  BY <1>1, <1>2, UpsertKeeps, UpsertObserves DEF Loses
<1>3. CASE ~ \E r \in Runs : upsert_raw_snapshots(r)
  BY <1>1, <1>3, OthersForget
<1> QED BY <1>2, <1>3

-----------------------------------------------------------------------------
(* The refinements. *)

\* The light flow, its four transactions and its cache included, looks like one
\* atomic observation after the other: it implements PriceMonitor.
THEOREM LightImplementsMonitor ==
    ASSUME Overlap = FALSE, CacheDurable = TRUE, MaxFaults = 0,
           \A e \in Event : e.prev # 0 => ~Overflows(e)
    PROVE  Spec => ImplementsMonitor
<1>0. Serial
  BY DEF Serial
<1>1. RefInv /\ [Next]_vars => RefInv'
  BY <1>0, RefStep
<1>2. RefInv /\ RefInv' /\ [Next]_vars
        => [Monitor!Next]_<<price_snapshots, price_change_events \cup Pending>>
  <2> SUFFICES ASSUME RefInv, RefInv', [Next]_vars
               PROVE  [Monitor!Next]_<<price_snapshots, price_change_events \cup Pending>>
    OBVIOUS
  <2>1. faults \in 0..0 /\ faults' \in 0..0
    BY DEF RefInv, UniqueInv, TypeOK
  <2>2. ~ \E r \in Runs : pc[r] = "events" /\ \E e \in events[r] : Overflows(e)
    <3> SUFFICES ASSUME NEW r \in Runs, pc[r] = "events", NEW e \in events[r]
                 PROVE  ~Overflows(e)
      OBVIOUS
    <3>1. Backing(e) /\ e \in Event
      BY DEF RefInv, SerialInv, EventInv, Unwritten, UniqueInv, TypeOK
    <3> QED BY <3>1 DEF Backing, Moved, Change
  <2>3. ~Loses
    BY <2>1, <2>2 DEF Loses
  <2> QED BY <1>0, <2>3, ViewStep DEF Readings, Monitor!Next
<1> QED BY <1>1, <1>2, RefInit, PTL DEF Spec, ImplementsMonitor, Monitor!Spec

\* Whatever fails, it implements LossyMonitor.
THEOREM LightImplementsLossyMonitor ==
    ASSUME Overlap = FALSE, CacheDurable = TRUE
    PROVE  Spec => ImplementsLossyMonitor
<1>0. Serial
  BY DEF Serial
<1>1. RefInv /\ [Next]_vars => RefInv'
  BY <1>0, RefStep
<1>2. RefInv /\ [Next]_vars
        => [Monitor!LossyNext]_<<price_snapshots, price_change_events \cup Pending>>
  BY <1>0, ViewStep DEF Readings, Monitor!LossyNext
<1> QED BY <1>1, <1>2, RefInit, PTL DEF Spec, ImplementsLossyMonitor, Monitor!LossySpec

-----------------------------------------------------------------------------
(* What the monitors promise then holds of the light flow's tables. *)

MonitorFacts == INSTANCE PriceMonitorProofs WITH
    Observation <- Readings,
    history     <- price_snapshots,
    changes     <- price_change_events \cup Pending

\* Both instances are of the same definitions.
LEMMA SameMonitor ==
    /\ \A o : MonitorFacts!Latest(o) <=> Monitor!Latest(o)
    /\ \A batch : MonitorFacts!Keep(batch) <=> Monitor!Keep(batch)
    /\ \A batch : MonitorFacts!MovesTo(batch) = Monitor!MovesTo(batch)
    /\ MonitorFacts!Moves = Monitor!Moves
    /\ MonitorFacts!Batch = Monitor!Batch
    /\ MonitorFacts!Forget <=> Monitor!Forget
<1> USE DEF MonitorFacts!SamePair, Monitor!SamePair, MonitorFacts!Report, Monitor!Report,
            MonitorFacts!Consecutive, Monitor!Consecutive, MonitorFacts!Latest, Monitor!Latest
<1>1. \A o : MonitorFacts!Latest(o) <=> Monitor!Latest(o)
  OBVIOUS
<1>2. \A batch : MonitorFacts!Keep(batch) <=> Monitor!Keep(batch)
  BY DEF MonitorFacts!Keep, Monitor!Keep
<1>3. \A batch : MonitorFacts!MovesTo(batch) = Monitor!MovesTo(batch)
  BY DEF MonitorFacts!MovesTo, Monitor!MovesTo
<1>4. MonitorFacts!Moves = Monitor!Moves
  BY DEF MonitorFacts!Moves, Monitor!Moves
<1>5. MonitorFacts!Batch = Monitor!Batch
  BY DEF MonitorFacts!Batch, Monitor!Batch
<1>6. MonitorFacts!Forget <=> Monitor!Forget
  BY DEF MonitorFacts!Forget, Monitor!Forget
<1> QED BY <1>1, <1>2, <1>3, <1>4, <1>5, <1>6

LEMMA IsMove ==
    ASSUME NEW e, Backing(e)
    PROVE  e \in Monitor!Moves
<1>1. PICK b \in price_snapshots, c \in price_snapshots :
         Consecutive(b, c) /\ Moved(b.val, c.val) /\ e = Change(b, c)
  BY DEF Backing
<1>2. Monitor!Consecutive(b, c) /\ e = Monitor!Report(b, c)
  BY <1>1 DEF Consecutive, Change, Monitor!Consecutive, Monitor!SamePair, Monitor!Report
<1>3. <<b, c>> \in {q \in price_snapshots \X price_snapshots :
                       Monitor!Consecutive(q[1], q[2]) /\ Moved(q[1].val, q[2].val)}
  BY <1>1, <1>2
<1>4. Monitor!Report(<<b, c>>[1], <<b, c>>[2]) \in Monitor!Moves
  BY <1>3 DEF Monitor!Moves
<1> QED BY <1>2, <1>4

\* Keeping a batch adds moves and takes none away.
LEMMA MovesGrow ==
    ASSUME RefInv, Monitor!Batch \subseteq Readings, Monitor!Keep(Monitor!Batch)
    PROVE  Monitor!Moves' = Monitor!Moves \cup Monitor!MovesTo(Monitor!Batch)
<1>1. \A o \in Readings : o.at \in Int
  BY DEF Readings
<1>2. price_snapshots \subseteq Readings
  <2> SUFFICES ASSUME NEW o \in price_snapshots
               PROVE  o \in Readings
    OBVIOUS
  <2>1. o \in SnapshotRow /\ o.at <= now /\ now \in 0..MaxTime
    BY DEF RefInv, UniqueInv, SerialInv, TypeOK, CacheInv
  <2> QED BY <2>1, ConstantsOK DEF SnapshotRow, Readings
<1>3. MonitorFacts!MovesOf(price_snapshots') =
         MonitorFacts!MovesOf(price_snapshots) \cup MonitorFacts!MovesTo(Monitor!Batch)
  BY <1>1, <1>2, SameMonitor, MonitorFacts!KeepMoves
<1>4. Monitor!Moves = MonitorFacts!MovesOf(price_snapshots)
  BY SameMonitor, MonitorFacts!MovesAreSteps
<1>5. Monitor!Moves' = MonitorFacts!MovesOf(price_snapshots')
  BY DEF Monitor!Moves, Monitor!Consecutive, Monitor!SamePair, Monitor!Report,
         MonitorFacts!MovesOf, MonitorFacts!Step, MonitorFacts!SamePair, MonitorFacts!Report
<1> QED BY <1>3, <1>4, <1>5, SameMonitor

LEMMA FaultsGrow ==
    ASSUME TypeOK, [Next]_vars
    PROVE  faults' >= faults
<1>0. faults \in Int
  BY DEF TypeOK
<1>1. ASSUME NEW r \in Runs, FlowStep(r) \/ Trigger(r) \/ DbError(r) \/ Crash(r)
      PROVE  faults' \in {faults, faults + 1}
  BY <1>1 DEF FlowStep, Trigger, Gathered, quick_drift_check, upsert_raw_snapshots,
         upsert_raw_fx, upsert_change_events, validate_response_health, ConstraintError,
         DbError, Exit, Crash, Commit, Advance, Fault
<1>2. ASSUME NEW r \in Runs, NEW k \in Sources, FetchStep(r, k)
      PROVE  faults' = faults
  BY <1>2 DEF FetchStep, CacheHit, StartFetch, Respond, HttpError, Return, RaiseError
<1>3. ASSUME LoseCache \/ Tick \/ UNCHANGED vars
      PROVE  faults' \in {faults, faults + 1}
  BY <1>3 DEF LoseCache, Tick, Fault, vars
<1>4. faults' \in {faults, faults + 1}
  BY <1>1, <1>2, <1>3 DEF Next, RunStep
<1> QED BY <1>0, <1>4

LEMMA ExactStep ==
    ASSUME RefInv, ExactUnlessLost, Serial, [Next]_vars
    PROVE  ExactUnlessLost'
<1> SUFFICES ASSUME Unharmed'
             PROVE  ExactlyTheMoves'
  BY DEF ExactUnlessLost
<1>1. faults = 0 /\ faults' = faults
  <2>1. TypeOK
    BY DEF RefInv, UniqueInv
  <2>2. faults \in Nat
    BY <2>1 DEF TypeOK
  <2> QED BY <2>1, <2>2, FaultsGrow DEF Unharmed
<1>2. ASSUME Monitor!Moves \subseteq Monitor!Moves'
      PROVE  ~Loses /\ price_change_events \cup Pending = Monitor!Moves
  <2>1. \A e \in Monitor!Moves : ~Overflows(e)
    BY <1>2 DEF Unharmed, Overflows
  <2>2. ~Loses
    BY <1>1, <2>1, IsMove DEF Loses, RefInv, SerialInv, EventInv, Unwritten
  <2> QED BY <1>1, <2>1, <2>2 DEF ExactUnlessLost, Unharmed, ExactlyTheMoves,
             Monitor!ExactlyTheMoves
<1>3. CASE Monitor!Batch \subseteq Readings /\ Monitor!Observe(Monitor!Batch)
  <2>1. Monitor!Moves' = Monitor!Moves \cup Monitor!MovesTo(Monitor!Batch)
    BY <1>3, MovesGrow DEF Monitor!Observe
  <2> QED BY <1>2, <1>3, <2>1 DEF Monitor!Observe, ExactlyTheMoves, Monitor!ExactlyTheMoves
<1>4. CASE UNCHANGED <<price_snapshots, price_change_events \cup Pending>>
  <2>1. Monitor!Moves' = Monitor!Moves
    BY <1>4 DEF Monitor!Moves, Monitor!Consecutive
  <2> QED BY <1>2, <1>4, <2>1 DEF ExactlyTheMoves, Monitor!ExactlyTheMoves
<1>5. ASSUME Monitor!Batch \subseteq Readings /\ Monitor!Overlook(Monitor!Batch)
      PROVE  ~Loses
  <2>1. Monitor!Moves' = Monitor!Moves \cup Monitor!MovesTo(Monitor!Batch)
    BY <1>5, MovesGrow DEF Monitor!Overlook
  <2> QED BY <1>2, <2>1
<1>6. ASSUME Monitor!Forget
      PROVE  ~Loses
  <2>1. Monitor!Moves' = Monitor!Moves
    BY <1>6 DEF Monitor!Forget, Monitor!Moves, Monitor!Consecutive
  <2> QED BY <1>2, <2>1
<1> QED BY <1>3, <1>4, <1>5, <1>6, ViewStep

LEMMA ExactInit == Init => ExactUnlessLost
<1> SUFFICES ASSUME Init PROVE ExactUnlessLost
  OBVIOUS
<1>1. price_snapshots = {} /\ price_change_events \cup Pending = {}
  BY RefInit DEF Monitor!Init
<1> QED BY <1>1 DEF ExactUnlessLost, ExactlyTheMoves, Monitor!ExactlyTheMoves, Monitor!Moves

\* The changes written and the ones about to be are exactly the moves between
\* consecutive stored snapshots until a call or a process fails or a move does
\* not fit its column: no other failure loses, invents or repeats one.
THEOREM LightIsExact ==
    ASSUME Overlap = FALSE, CacheDurable = TRUE
    PROVE  Spec => []ExactUnlessLost
<1>1. RefInv /\ ExactUnlessLost /\ [Next]_vars => RefInv' /\ ExactUnlessLost'
  BY RefStep, ExactStep DEF Serial
<1> QED BY <1>1, RefInit, ExactInit, PTL DEF Spec

\* Nothing is ever lost when nothing fails and every move fits its column.
THEOREM SmoothIsExact ==
    ASSUME Overlap = FALSE, CacheDurable = TRUE, MaxFaults = 0,
           \A e \in Event : e.prev # 0 => ~Overflows(e)
    PROVE  Spec => []ExactlyTheMoves
<1>1. RefInv /\ ExactUnlessLost /\ [Next]_vars => RefInv' /\ ExactUnlessLost'
  BY RefStep, ExactStep DEF Serial
<1>2. RefInv /\ ExactUnlessLost => ExactlyTheMoves
  <2> SUFFICES ASSUME RefInv
               PROVE  Unharmed
    BY DEF ExactUnlessLost
  <2>1. TypeOK
    BY DEF RefInv, UniqueInv
  <2>2. faults = 0
    BY <2>1 DEF TypeOK
  <2>3. ASSUME NEW e \in Monitor!Moves
        PROVE  ~Overflows(e)
    <3>1. PICK b \in price_snapshots, c \in price_snapshots :
             Moved(b.val, c.val) /\ b.src = c.src /\ b.item = c.item /\ e = Change(b, c)
      BY DEF Monitor!Moves, Monitor!Consecutive, Monitor!SamePair, Monitor!Report, Change
    <3>2. e \in Event /\ e.prev # 0
      BY <2>1, <3>1 DEF TypeOK, SnapshotRow, Event, Change, Moved
    <3> QED BY <3>2
  <2> QED BY <2>2, <2>3 DEF Unharmed
<1> QED BY <1>1, <1>2, RefInit, ExactInit, PTL DEF Spec

\* So the documentation's claim holds until then: a run that gets past its
\* upserts, re-triggered or not, leaves every move up to its captures reported.
THEOREM RerunsRepairUnlessLost ==
    ASSUME Overlap = FALSE, CacheDurable = TRUE
    PROVE  Spec => [](Unharmed => RerunsRepair)
<1>1. RefInv /\ ExactUnlessLost /\ [Next]_vars => RefInv' /\ ExactUnlessLost'
  BY RefStep, ExactStep DEF Serial
<1>2. RefInv /\ ExactUnlessLost => (Unharmed => RerunsRepair)
  <2> SUFFICES ASSUME RefInv, ExactUnlessLost, Unharmed, NEW r \in Runs, pc[r] = "health",
                      NEW b \in price_snapshots, NEW c \in Captures(r),
                      Consecutive(b, c), Moved(b.val, c.val)
               PROVE  Change(b, c) \in price_change_events
    BY DEF RerunsRepair
  <2>1. ASSUME NEW q \in Runs
        PROVE  pc[q] \notin {"fx", "events"}
    BY DEF RefInv, SerialInv, ControlInv, OneAlive, Alive
  <2>2. Pending = {}
    BY <2>1 DEF Pending
  <2>3. Change(b, c) \in Monitor!Moves
    <3>1. c \in price_snapshots
      BY DEF Consecutive
    <3> QED BY <3>1, IsMove DEF Backing
  <2> QED BY <2>2, <2>3 DEF ExactUnlessLost, ExactlyTheMoves, Monitor!ExactlyTheMoves
<1> QED BY <1>1, <1>2, RefInit, ExactInit, PTL DEF Spec

\* Whatever fails, a move that was not reported by the run that stored it never
\* is, and what is reported of the past stays.
THEOREM LightSettles ==
    ASSUME Overlap = FALSE, CacheDurable = TRUE
    PROVE  Spec => PastIsSettled
<1>1. Spec => ImplementsLossyMonitor
  BY LightImplementsLossyMonitor
<1>2. \A o \in Readings : o.at \in Int
  BY DEF Readings
<1>3. MonitorFacts!LossySpec => MonitorFacts!PastIsSettled
  BY <1>2, MonitorFacts!LossyMonitorSettles
<1>4. Monitor!Init => MonitorFacts!Init
  BY DEF Monitor!Init, MonitorFacts!Init
<1>5. Monitor!LossyNext => MonitorFacts!LossyNext
  BY SameMonitor DEF Monitor!LossyNext, MonitorFacts!LossyNext, Monitor!Observe, Monitor!Overlook,
         MonitorFacts!Observe, MonitorFacts!Overlook, Readings
<1>6. ImplementsLossyMonitor => MonitorFacts!LossySpec
  BY <1>4, <1>5, PTL DEF ImplementsLossyMonitor, Monitor!LossySpec, MonitorFacts!LossySpec
<1>7. MonitorFacts!Settles => Monitor!Settles
  BY SameMonitor DEF Monitor!Settles, MonitorFacts!Settles
<1>8. MonitorFacts!PastIsSettled => PastIsSettled
  BY <1>7, PTL DEF PastIsSettled, Monitor!PastIsSettled, MonitorFacts!PastIsSettled
<1> QED BY <1>1, <1>3, <1>6, <1>8, PTL

=============================================================================
