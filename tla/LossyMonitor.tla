---------------------------- MODULE LossyMonitor ----------------------------
(***************************************************************************)
(* What is left of PriceMonitor's promise when runs of the light flow fail *)
(* between their transactions: readings are still kept in order and what   *)
(* is reported is still true, but the changes of a batch may be lost, and  *)
(* only those of the latest batch of their pair.                           *)
(***************************************************************************)
EXTENDS PriceMonitor

\* The snapshots are stored, and the run ends before its changes are written.
Overlook(batch) == Keep(batch) /\ UNCHANGED changes

\* A run that was to write changes fails: all it carried lead to latest readings.
Forget ==
    /\ changes' \subseteq changes
    /\ \A e \in changes \ changes' : \E b, c \in history :
          Consecutive(b, c) /\ Latest(c) /\ e = Report(b, c)
    /\ UNCHANGED history

\* The readings a step adds.
Batch == history' \ history

LossyNext ==
    \/ Batch \subseteq Observation /\ (Observe(Batch) \/ Overlook(Batch))
    \/ Forget

LossySpec == Init /\ [][LossyNext]_<<history, changes>>

\* No change is invented: each reported is a move between consecutive readings.
OnlyMoves == changes \subseteq Moves

\* The past is settled: a move that is not reported never will be, and a change
\* whose pair has a newer reading than it leads to stays as it is.
Settles ==
    /\ (Moves \ changes) \cap changes' = {}
    /\ \A e \in changes \ changes' : \E c \in history :
          Latest(c) /\ e.src = c.src /\ e.item = c.item /\ e.at = c.at

PastIsSettled == [][Settles]_<<history, changes>>

=============================================================================
