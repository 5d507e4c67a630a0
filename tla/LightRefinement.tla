-------------------------- MODULE LightRefinement --------------------------
(***************************************************************************)
(* When runs do not overlap and the result cache outlives them, the light  *)
(* flow implements PriceMonitor as long as nothing fails after the         *)
(* fetches, and LossyMonitor otherwise: the upsert of the snapshots is the *)
(* moment a batch is observed, and a detected change counts as reported    *)
(* from then on, although price_change_events gets it two steps later.     *)
(***************************************************************************)
EXTENDS LightPipeline

\* Detected changes whose snapshots are stored and that are still to be written.
Pending == UNION {events[r] : r \in {q \in Runs : pc[q] \in {"fx", "events"}}}

Monitor == INSTANCE LossyMonitor WITH
    Observation <- [src : STORE_IDS, item : SKUS, val : PRICES, at : 0..MaxTime],
    history     <- price_snapshots,
    changes     <- price_change_events \cup Pending

\* light_price_sync as a whole, four transactions and a cache included, looks
\* like one atomic observation after the other: no move is missed, invented or
\* reported twice, and stale cached fetches are invisible.
ImplementsMonitor == Monitor!Spec

\* When runs do not overlap and nothing fails, the changes written and the ones
\* about to be are exactly the moves between consecutive stored snapshots.
ExactlyTheMoves == Monitor!ExactlyTheMoves

-----------------------------------------------------------------------------
(* What remains of it when runs fail: LossyMonitor, under the same mapping. *)

\* Runs that do not overlap, whatever else fails, keep prices in the order they
\* were read and report true changes or none: failures after the upsert of the
\* snapshots lose changes of that batch, never those of an earlier one.
ImplementsLossyMonitor == Monitor!LossySpec

\* A move that the run which stored it did not report is lost for good: neither
\* a re-run served from the cache nor a later fetch brings it back, and what is
\* reported of the past never changes.
PastIsSettled == Monitor!PastIsSettled

\* No database call failed, no process died, and every stored move fits its
\* column.
Unharmed == faults = 0 /\ \A e \in Monitor!Moves : ~Overflows(e)

\* Until then nothing is lost: fetches that fail, and batches that the database
\* refuses for an unknown product, cost no event.
ExactUnlessLost == Unharmed => ExactlyTheMoves

=============================================================================
