------------------------- MODULE HeavySerialProofs -------------------------
(***************************************************************************)
(* Theorems about HeavyPipeline when no two runs of a report_date are      *)
(* alive at once (Overlap = FALSE), whatever rows arrive, whatever happens *)
(* to the catalogue, and however many runs die.                            *)
(*                                                                         *)
(* The invariant says that the raw rows an alert was computed from are     *)
(* still there to be read, first in the tables and then, once a run has    *)
(* read them, in its memory: as runs do not overlap, no alert can be       *)
(* written between a run's reads and its own writes.                       *)
(***************************************************************************)
EXTENDS HeavyPipelineProofs

Pair(rows, store, sku) == {s \in rows : s.store = store /\ s.sku = sku}

\* There are as many snapshots of the alert's pair as it was computed from.
Covers(rows, a) == a.n <= Cardinality(Pair(rows, a.store, a.sku))

Backed(a) ==
    /\ a.n \in Nat \ {0}
    /\ Covers(price_snapshots, a)
    /\ Quotes(fx_rates, currency[a.store]) # {}

\* A run has read no less than the alerts in the table are about.
Abreast(r) ==
    \A a \in price_alerts :
        /\ pc[r] \in {"fx", "products", "stores", "report", "alerts"}
              => Covers(data[r].snapshots, a)
        /\ pc[r] \in {"products", "stores", "report", "alerts"}
              => Quotes(data[r].fx, currency[a.store]) # {}

OneAlive == \A q, r \in Runs : Alive(q) /\ Alive(r) => q = r

\* Between the two transactions the report is the run's own.
OwnReport(r) ==
    \A d : pc[r] = "alerts" /\ d = data[r] => daily_price_reports = Stats(Classified(d))

SerialInv ==
    /\ TypeInv
    /\ OneAlive
    /\ \A a \in price_alerts : Backed(a)
    /\ \A r \in Runs : Loaded(r) /\ Abreast(r) /\ OwnReport(r)

-----------------------------------------------------------------------------
(* Groups and pairs. *)

\* A pair is analysed from all its snapshots that were read, or not at all.
LEMMA GroupIsPair ==
    ASSUME NEW d, NEW store \in d.stores, NEW sku, Quotes(d.fx, currency[store]) # {}
    PROVE  Group(d, store, sku) = Pair(d.snapshots, store, sku)
  BY DEF Group, Enriched, Pair

LEMMA GroupNeeds ==
    ASSUME NEW d, NEW store, NEW sku, Group(d, store, sku) # {}
    PROVE  store \in d.stores /\ Quotes(d.fx, currency[store]) # {}
  BY DEF Group, Enriched

LEMMA CardinalityGrows ==
    ASSUME NEW rows, NEW more, IsFiniteSet(more), rows \subseteq more, NEW store, NEW sku
    PROVE  /\ Cardinality(Pair(rows, store, sku)) \in Nat
           /\ Cardinality(Pair(more, store, sku)) \in Nat
           /\ Cardinality(Pair(rows, store, sku)) <= Cardinality(Pair(more, store, sku))
  <1>1. Pair(rows, store, sku) \subseteq Pair(more, store, sku)
    BY DEF Pair
  <1>2. Pair(more, store, sku) \subseteq more
    BY DEF Pair
  <1>3. IsFiniteSet(Pair(more, store, sku))
    BY <1>2, FS_Subset
  <1>4. /\ IsFiniteSet(Pair(rows, store, sku))
        /\ Cardinality(Pair(rows, store, sku)) <= Cardinality(Pair(more, store, sku))
    BY <1>1, <1>3, FS_Subset
  <1>. QED  BY <1>3, <1>4, FS_CardinalityType

LEMMA CoversGrows ==
    ASSUME NEW rows, NEW more, IsFiniteSet(more), rows \subseteq more,
           NEW a, a.n \in Nat, Covers(rows, a)
    PROVE  Covers(more, a)
  BY CardinalityGrows DEF Covers

\* What one analysis leaves of a pair: the size of its group.
LEMMA ClassifiedCounts ==
    ASSUME NEW d, IsFiniteSet(d.snapshots), NEW a \in Classified(d)
    PROVE  /\ a.n \in Nat \ {0}
           /\ a.n = Cardinality(Pair(d.snapshots, a.store, a.sku))
           /\ Quotes(d.fx, currency[a.store]) # {}
  <1>1. PICK p \in STORES \X DOMAIN d.products :
              Group(d, p[1], p[2]) # {} /\ a = Analysed(d, p[1], p[2])
    BY DEF Classified
  <1>2. a.store = p[1] /\ a.sku = p[2] /\ a.n = Cardinality(Group(d, p[1], p[2]))
    BY <1>1 DEF Analysed
  <1>3. p[1] \in d.stores /\ Quotes(d.fx, currency[p[1]]) # {}
    BY <1>1, GroupNeeds
  <1>4. Group(d, p[1], p[2]) = Pair(d.snapshots, p[1], p[2])
    BY <1>3, GroupIsPair
  <1>5. Group(d, p[1], p[2]) \subseteq d.snapshots
    BY <1>4 DEF Pair
  <1>6. IsFiniteSet(Group(d, p[1], p[2]))
    BY <1>5, FS_Subset
  <1>7. /\ Cardinality(Group(d, p[1], p[2])) \in Nat
        /\ Cardinality(Group(d, p[1], p[2])) # 0
    BY <1>1, <1>6, FS_CardinalityType, FS_EmptySet
  <1>. QED  BY <1>2, <1>3, <1>4, <1>7

\* An alert whose rows were read is analysed again while its product and its
\* store are in the catalogue.
LEMMA AnalysedAgain ==
    ASSUME NEW d, NEW a, a.n \in Nat \ {0}, a.store \in STORES,
           IsFiniteSet(d.snapshots), Covers(d.snapshots, a),
           Quotes(d.fx, currency[a.store]) # {},
           a.store \in d.stores, a.sku \in DOMAIN d.products
    PROVE  \E b \in Classified(d) : b.store = a.store /\ b.sku = a.sku
  <1>1. Pair(d.snapshots, a.store, a.sku) # {}
    BY FS_EmptySet DEF Covers
  <1>2. Group(d, a.store, a.sku) # {}
    BY <1>1, GroupIsPair
  <1>3. <<a.store, a.sku>> \in {q \in STORES \X DOMAIN d.products : Group(d, q[1], q[2]) # {}}
    BY <1>2
  <1>4. Analysed(d, a.store, a.sku) \in Classified(d)
    BY <1>3 DEF Classified
  <1>5. /\ Analysed(d, a.store, a.sku).store = a.store
        /\ Analysed(d, a.store, a.sku).sku = a.sku
    BY DEF Analysed
  <1>. QED  BY <1>4, <1>5

-----------------------------------------------------------------------------
(* The invariant, one part after the other. *)

\* A step of run r that is not its end leaves the other runs alone and comes
\* from a live run, or from a trigger when there is none.
LEMMA RunSteps ==
    ASSUME TypeOK, Overlap = FALSE, NEW r \in Runs, Trigger(r) \/ RunStep(r) \/ Crash(r)
    PROVE  /\ \A q \in Runs \ {r} : pc'[q] = pc[q] /\ data'[q] = data[q]
           /\ Alive(r) \/ \A q \in Runs : ~Alive(q)
  <1>1. ASSUME NEW how, End(r, how)
        PROVE  \A q \in Runs \ {r} : pc'[q] = pc[q] /\ data'[q] = data[q]
    BY <1>1 DEF End, Goto, TypeOK
  <1>2. ASSUME NEW how, Goto(r, how)
        PROVE  \A q \in Runs \ {r} : pc'[q] = pc[q]
    BY <1>2 DEF Goto, TypeOK
  <1>3. CASE Trigger(r)
    BY <1>2, <1>3 DEF Trigger
  <1>4. CASE LoadSnapshots(r) \/ LoadFx(r) \/ LoadProducts(r) \/ LoadStores(r)
    <2>1. \A q \in Runs \ {r} : data'[q] = data[q]
      BY <1>4 DEF LoadSnapshots, LoadFx, LoadProducts, LoadStores, TypeOK
    <2>. QED  BY <1>2, <1>4, <2>1
              DEF LoadSnapshots, LoadFx, LoadProducts, LoadStores, Alive
  <1>5. CASE WriteReport(r)
    BY <1>1, <1>2, <1>5 DEF WriteReport, Alive
  <1>6. CASE WriteAlerts(r)
    BY <1>1, <1>6 DEF WriteAlerts, Alive
  <1>7. CASE ConstraintError(r)
    BY <1>1, <1>7 DEF ConstraintError, Alive
  <1>8. CASE Crash(r)
    BY <1>1, <1>8 DEF Crash
  <1>. QED  BY <1>3, <1>4, <1>5, <1>6, <1>7, <1>8 DEF RunStep

LEMMA OtherSteps ==
    ASSUME StoreSnapshot \/ StoreFx \/ CatalogStep \/ UNCHANGED vars
    PROVE  UNCHANGED <<pc, data, daily_price_reports, price_alerts>>
  BY DEF StoreSnapshot, StoreFx, CatalogStep, vars, outputs

LEMMA OneAliveNext ==
    ASSUME SerialInv, Overlap = FALSE, [Next]_vars
    PROVE  OneAlive'
  <1>1. CASE StoreSnapshot \/ StoreFx \/ CatalogStep \/ UNCHANGED vars
    BY <1>1, OtherSteps DEF SerialInv, OneAlive, Alive
  <1>2. ASSUME NEW r \in Runs, Trigger(r) \/ RunStep(r) \/ Crash(r)
        PROVE  OneAlive'
    <2>1. /\ \A q \in Runs \ {r} : pc'[q] = pc[q]
          /\ Alive(r) \/ \A q \in Runs : ~Alive(q)
      BY <1>2, RunSteps DEF SerialInv, TypeInv
    <2>2. \A q \in Runs \ {r} : ~Alive(q)'
      BY <2>1 DEF SerialInv, OneAlive, Alive
    <2>. QED  BY <2>2 DEF OneAlive
  <1>. QED  BY <1>1, <1>2 DEF Next

\* An alert is backed by the tables from the moment it is written.
LEMMA BackedNext ==
    ASSUME SerialInv, [Next]_vars, NEW a \in price_alerts'
    PROVE  Backed(a)'
  <1>1. /\ price_snapshots \subseteq price_snapshots' /\ fx_rates \subseteq fx_rates'
        /\ IsFiniteSet(price_snapshots')
    BY RawGrows, FiniteNext DEF SerialInv, TypeInv
  <1>. SUFFICES ASSUME TRUE
                PROVE  /\ a.n \in Nat \ {0}
                       /\ Covers(price_snapshots', a)
                       /\ Quotes(fx_rates', currency[a.store]) # {}
    BY DEF Backed, Covers, Pair, Quotes
  <1>2. CASE a \in price_alerts
    <2>1. /\ a.n \in Nat \ {0} /\ Covers(price_snapshots, a)
          /\ Quotes(fx_rates, currency[a.store]) # {}
      BY <1>2 DEF SerialInv, Backed
    <2>2. Covers(price_snapshots', a)
      BY <1>1, <2>1, CoversGrows
    <2>. QED  BY <1>1, <2>1, <2>2 DEF Quotes
  <1>3. CASE a \notin price_alerts
    <2>1. PICK r \in Runs : a \in Classified(data[r])
      BY <1>3, AlertsWritten, UpsertRows DEF WriteAlerts
    <2>2. /\ data[r].snapshots \subseteq price_snapshots' /\ data[r].fx \subseteq fx_rates'
      BY <1>1 DEF SerialInv, Loaded
    <2>3. IsFiniteSet(data[r].snapshots)
      BY <1>1, <2>2, FS_Subset
    <2>4. /\ a.n \in Nat \ {0}
          /\ a.n = Cardinality(Pair(data[r].snapshots, a.store, a.sku))
          /\ Quotes(data[r].fx, currency[a.store]) # {}
      BY <2>1, <2>3, ClassifiedCounts
    <2>5. Covers(data[r].snapshots, a)
      BY <2>4 DEF Covers
    <2>6. Covers(price_snapshots', a)
      BY <1>1, <2>2, <2>4, <2>5, CoversGrows
    <2>. QED  BY <2>2, <2>4, <2>6 DEF Quotes
  <1>. QED  BY <1>2, <1>3

\* A run keeps abreast of the alerts: it reads what backs them, and no other
\* run writes any before it is done.
LEMMA AbreastNext ==
    ASSUME SerialInv, Overlap = FALSE, [Next]_vars, NEW q \in Runs
    PROVE  Abreast(q)'
  <1>. DEFINE later == {"products", "stores", "report", "alerts"}
  <1>0. TypeOK /\ Abreast(q) /\ \A a \in price_alerts : Backed(a)
    BY DEF SerialInv, TypeInv
  <1>1. CASE StoreSnapshot \/ StoreFx \/ CatalogStep \/ UNCHANGED vars
    BY <1>0, <1>1, OtherSteps DEF Abreast
  <1>2. ASSUME NEW r \in Runs, Trigger(r) \/ RunStep(r) \/ Crash(r)
        PROVE  Abreast(q)'
    <2>1. /\ \A p \in Runs \ {r} : pc'[p] = pc[p] /\ data'[p] = data[p]
          /\ Alive(r) \/ \A p \in Runs : ~Alive(p)
      BY <1>0, <1>2, RunSteps
    <2>2. CASE q # r
      <3>1. ~Alive(q) /\ pc'[q] = pc[q]
        BY <2>1, <2>2 DEF SerialInv, OneAlive
      <3>. QED  BY <3>1 DEF Abreast, Alive
    <2>3. CASE q = r
      <3>1. ASSUME NEW how \in {"dead", "done"}, End(r, how)
            PROVE  Abreast(q)'
        BY <1>0, <2>3, <3>1 DEF End, Goto, TypeOK, Abreast
      <3>2. ASSUME NEW how, Goto(r, how)  PROVE pc'[q] = how
        BY <1>0, <2>3, <3>2 DEF Goto, TypeOK
      <3>3. CASE Trigger(r)
        BY <3>2, <3>3 DEF Trigger, Abreast
      <3>4. CASE LoadSnapshots(r)
        <4>1. pc'[q] = "fx" /\ price_alerts' = price_alerts
          BY <3>2, <3>4 DEF LoadSnapshots, outputs
        <4>2. data'[q].snapshots = price_snapshots
          BY <1>0, <2>3, <3>4 DEF LoadSnapshots, TypeOK, DayData
        <4>. QED  BY <1>0, <4>1, <4>2 DEF Abreast, Backed
      <3>5. CASE LoadFx(r)
        <4>1. pc[q] = "fx" /\ pc'[q] = "products" /\ price_alerts' = price_alerts
          BY <2>3, <3>2, <3>5 DEF LoadFx, outputs
        <4>2. data'[q].fx = fx_rates /\ data'[q].snapshots = data[q].snapshots
          BY <1>0, <2>3, <3>5 DEF LoadFx, TypeOK, DayData
        <4>. QED  BY <1>0, <4>1, <4>2 DEF Abreast, Backed
      <3>6. CASE LoadProducts(r)
        <4>1. pc[q] = "products" /\ pc'[q] = "stores" /\ price_alerts' = price_alerts
          BY <2>3, <3>2, <3>6 DEF LoadProducts, outputs
        <4>2. data'[q].fx = data[q].fx /\ data'[q].snapshots = data[q].snapshots
          BY <1>0, <2>3, <3>6 DEF LoadProducts, TypeOK, DayData
        <4>. QED  BY <1>0, <4>1, <4>2 DEF Abreast
      <3>7. CASE LoadStores(r)
        <4>1. pc[q] = "stores" /\ pc'[q] = "report" /\ price_alerts' = price_alerts
          BY <2>3, <3>2, <3>7 DEF LoadStores, outputs
        <4>2. data'[q].fx = data[q].fx /\ data'[q].snapshots = data[q].snapshots
          BY <1>0, <2>3, <3>7 DEF LoadStores, TypeOK, DayData
        <4>. QED  BY <1>0, <4>1, <4>2 DEF Abreast
      <3>8. CASE WriteReport(r)
        <4>1. CASE Goto(r, "alerts") /\ UNCHANGED data
          <5>1. /\ pc[q] = "report" /\ pc'[q] = "alerts" /\ price_alerts' = price_alerts
                /\ data' = data
            BY <2>3, <3>2, <3>8, <4>1 DEF WriteReport
          <5>. QED  BY <1>0, <5>1 DEF Abreast
        <4>. QED  BY <3>1, <3>8, <4>1 DEF WriteReport
      <3>9. CASE WriteAlerts(r) \/ ConstraintError(r) \/ Crash(r)
        BY <3>1, <3>9 DEF WriteAlerts, ConstraintError, Crash
      <3>. QED  BY <1>2, <3>3, <3>4, <3>5, <3>6, <3>7, <3>8, <3>9 DEF RunStep
    <2>. QED  BY <2>2, <2>3
  <1>. QED  BY <1>1, <1>2 DEF Next

LEMMA OwnReportNext ==
    ASSUME SerialInv, Overlap = FALSE, [Next]_vars, NEW q \in Runs
    PROVE  OwnReport(q)'
  <1>. SUFFICES ASSUME pc'[q] = "alerts"
                PROVE  daily_price_reports' = Stats(Classified(data'[q]))
    BY DEF OwnReport
  <1>0. TypeOK /\ OwnReport(q)
    BY DEF SerialInv, TypeInv
  <1>1. CASE StoreSnapshot \/ StoreFx \/ CatalogStep \/ UNCHANGED vars
    BY <1>0, <1>1, OtherSteps DEF OwnReport
  <1>2. ASSUME NEW r \in Runs, Trigger(r) \/ RunStep(r) \/ Crash(r)
        PROVE  daily_price_reports' = Stats(Classified(data'[q]))
    <2>1. /\ \A p \in Runs \ {r} : pc'[p] = pc[p] /\ data'[p] = data[p]
          /\ Alive(r) \/ \A p \in Runs : ~Alive(p)
      BY <1>0, <1>2, RunSteps
    <2>2. q = r
      BY <2>1 DEF SerialInv, OneAlive, Alive
    <2>3. ASSUME NEW how, Goto(r, how)  PROVE how = "alerts"
      BY <1>0, <2>2, <2>3 DEF Goto, TypeOK
    <2>4. WriteReport(r) /\ Goto(r, "alerts") /\ UNCHANGED data
      BY <1>2, <2>3 DEF RunStep, Trigger, LoadSnapshots, LoadFx, LoadProducts, LoadStores,
                        WriteReport, WriteAlerts, ConstraintError, Crash, End
    <2>. QED  BY <2>2, <2>4 DEF WriteReport
  <1>. QED  BY <1>1, <1>2 DEF Next

LEMMA SerialInit == Init => SerialInv
  <1>. SUFFICES ASSUME Init  PROVE SerialInv
    OBVIOUS
  <1>1. TypeInv
    BY TypeInit
  <1>2. price_alerts = {} /\ \A r \in Runs : pc[r] = "idle" /\ data[r] = NoData
    BY DEF Init
  <1>3. \A r \in Runs : Loaded(r) /\ Abreast(r) /\ OwnReport(r) /\ ~Alive(r)
    BY <1>2 DEF Loaded, NoData, Abreast, OwnReport, Alive
  <1>. QED  BY <1>1, <1>2, <1>3 DEF SerialInv, OneAlive

LEMMA SerialNext == Overlap = FALSE /\ SerialInv /\ [Next]_vars => SerialInv'
  <1>. SUFFICES ASSUME Overlap = FALSE, SerialInv, [Next]_vars
                PROVE  SerialInv'
    OBVIOUS
  <1>1. TypeInv'
    BY TypeNext DEF SerialInv
  <1>2. \A r \in Runs : Loaded(r)'
    BY LoadedNext DEF SerialInv, TypeInv
  <1>3. \A r \in Runs : Abreast(r)' /\ OwnReport(r)'
    BY AbreastNext, OwnReportNext
  <1>4. OneAlive' /\ \A a \in price_alerts' : Backed(a)'
    BY OneAliveNext, BackedNext
  <1>. QED  BY <1>1, <1>2, <1>3, <1>4 DEF SerialInv

LEMMA SerialAlways ==
    ASSUME Overlap = FALSE
    PROVE  Spec => []SerialInv
  <1>1. SerialInv /\ [Next]_vars => SerialInv'
    BY SerialNext
  <1>. QED  BY <1>1, SerialInit, PTL DEF Spec

-----------------------------------------------------------------------------
(* The properties of serial runs. *)

\* Without overlap no re-run loses a pair that its catalogue has, or analyses it
\* from fewer snapshots than the alert it overwrites.
THEOREM NeverForgetsWhenSerial ==
    ASSUME Overlap = FALSE
    PROVE  Spec => NeverForgets
  <1>1. ASSUME SerialInv, NEW r \in Runs, WriteAlerts(r), NEW a \in price_alerts,
               a.sku \in DOMAIN data[r].products, a.store \in data[r].stores
        PROVE  \E b \in price_alerts' : b.store = a.store /\ b.sku = a.sku /\ b.n >= a.n
    <2>1. a.n \in Nat \ {0} /\ a.store \in STORES
      BY <1>1 DEF SerialInv, TypeInv, Backed, TypeOK, Alert
    <2>2. Covers(data[r].snapshots, a) /\ Quotes(data[r].fx, currency[a.store]) # {}
      BY <1>1 DEF SerialInv, Abreast, WriteAlerts
    <2>3. IsFiniteSet(data[r].snapshots)
      BY <1>1 DEF SerialInv, TypeInv
    <2>4. PICK b \in Classified(data[r]) : b.store = a.store /\ b.sku = a.sku
      BY <1>1, <2>1, <2>2, <2>3, AnalysedAgain
    <2>5. b \in price_alerts'
      BY <1>1 DEF WriteAlerts, UpsertAlerts
    <2>6. b.n \in Nat /\ b.n = Cardinality(Pair(data[r].snapshots, b.store, b.sku))
      BY <2>3, ClassifiedCounts
    <2>7. b.n >= a.n
      BY <2>1, <2>2, <2>4, <2>6 DEF Covers
    <2>. QED  BY <2>4, <2>5, <2>7
  <1>2. SerialInv /\ [Next]_vars
        => [\A r \in Runs : WriteAlerts(r) =>
              \A a \in price_alerts :
                  a.sku \in DOMAIN data[r].products /\ a.store \in data[r].stores
                  => \E b \in price_alerts' :
                        b.store = a.store /\ b.sku = a.sku /\ b.n >= a.n]_vars
    BY <1>1
  <1>. QED  BY <1>2, SerialAlways, PTL DEF Spec, NeverForgets

\* What a completing run does not analyse again is out of its catalogue.
LEMMA LeftoverOutOfCatalogue ==
    ASSUME SerialInv, NEW r \in Runs, WriteAlerts(r),
           NEW a \in price_alerts' \ Classified(data[r])
    PROVE  a.sku \notin DOMAIN data[r].products \/ a.store \notin data[r].stores
  <1>. SUFFICES ASSUME a.sku \in DOMAIN data[r].products, a.store \in data[r].stores
                PROVE  FALSE
    OBVIOUS
  <1>1. /\ a \in price_alerts /\ pc[r] = "alerts"
        /\ \A b \in Classified(data[r]) : ~(b.store = a.store /\ b.sku = a.sku)
    BY DEF WriteAlerts, UpsertAlerts
  <1>2. IsFiniteSet(data[r].snapshots)
    BY DEF SerialInv, TypeInv
  <1>3. a.n \in Nat \ {0} /\ a.store \in STORES
    BY <1>1 DEF SerialInv, TypeInv, Backed, TypeOK, Alert
  <1>4. Covers(data[r].snapshots, a) /\ Quotes(data[r].fx, currency[a.store]) # {}
    BY <1>1 DEF SerialInv, Abreast
  <1>5. \E b \in Classified(data[r]) : b.store = a.store /\ b.sku = a.sku
    BY <1>2, <1>3, <1>4, AnalysedAgain
  <1>. QED  BY <1>1, <1>5

\* Without overlap the only alerts a completed run leaves of earlier ones are of
\* products and stores its catalogue no longer has: deactivation is all that
\* stands between write_outputs and "overwrites previous results".
THEOREM LeftoversExplainedWhenSerial ==
    ASSUME Overlap = FALSE
    PROVE  Spec => LeftoversExplained
  <1>1. SerialInv /\ [Next]_vars
        => [\A r \in Runs : Completes(r) =>
              \A a \in price_alerts' \ Classified(data[r]) :
                  a.sku \notin DOMAIN data[r].products \/ a.store \notin data[r].stores]_vars
    BY LeftoverOutOfCatalogue DEF Completes
  <1>. QED  BY <1>1, SerialAlways, PTL DEF Spec, LeftoversExplained

\* Without overlap a run that completes over a catalogue with the earlier
\* alerts' pairs leaves a report that counts the alerts in the table.
THEOREM ReportMatchesWhenSerial ==
    ASSUME Overlap = FALSE
    PROVE  Spec => ReportMatchesAlerts
  <1>1. ASSUME SerialInv, [Next]_vars, NEW r \in Runs, Completes(r),
               \A a \in price_alerts :
                  a.sku \in DOMAIN data[r].products /\ a.store \in data[r].stores
        PROVE  daily_price_reports = Stats(price_alerts')
    <2>1. WriteAlerts(r) /\ pc[r] = "alerts"
      BY <1>1 DEF Completes, WriteAlerts
    <2>2. ASSUME NEW a \in price_alerts', a \notin Classified(data[r])
          PROVE  FALSE
      <3>1. a \in price_alerts
        BY <2>1, <2>2 DEF WriteAlerts, UpsertAlerts
      <3>. QED  BY <1>1, <2>1, <2>2, <3>1, LeftoverOutOfCatalogue
    <2>3. price_alerts' = Classified(data[r])
      BY <2>1, <2>2 DEF WriteAlerts, UpsertAlerts
    <2>. QED  BY <1>1, <2>1, <2>3 DEF SerialInv, OwnReport
  <1>2. SerialInv /\ [Next]_vars
        => [\A r \in Runs :
              /\ Completes(r)
              /\ \A a \in price_alerts :
                    a.sku \in DOMAIN data[r].products /\ a.store \in data[r].stores
              => daily_price_reports = Stats(price_alerts')]_vars
    BY <1>1
  <1>. QED  BY <1>2, SerialAlways, PTL DEF Spec, ReportMatchesAlerts

=============================================================================
