--------------------------- MODULE PriceMonitor ---------------------------
(***************************************************************************)
(* What the light pipeline promises its readers (the dashboards and the    *)
(* heavy pipeline), with its runs, its cache and its four transactions     *)
(* left out: prices are observed in batches, later than what is known of   *)
(* the same pair, and every move past the threshold is reported in the     *)
(* same step.                                                              *)
(***************************************************************************)
EXTENDS Integers

CONSTANTS Observation,        \* the readings: [src, item, val, at]
          Moved(_, _)         \* did the price move past the threshold?

VARIABLES history,            \* the readings kept
          changes             \* the moves reported

TypeOK ==
    /\ history \subseteq Observation
    /\ changes \subseteq
          [src : {o.src : o \in Observation}, item : {o.item : o \in Observation},
           prev : {o.val : o \in Observation}, new : {o.val : o \in Observation},
           at : {o.at : o \in Observation}]

SamePair(a, b) == a.src = b.src /\ a.item = b.item

Latest(o) ==
    /\ o \in history
    /\ \A h \in history : SamePair(h, o) => h.at <= o.at

Report(b, c) == [src |-> c.src, item |-> c.item,
                 prev |-> b.val, new |-> c.val, at |-> c.at]

Init == history = {} /\ changes = {}

\* A batch holds at most one reading of a pair, newer than all kept ones.
Keep(batch) ==
    /\ \A c, d \in batch : SamePair(c, d) => c = d
    /\ \A c \in batch, h \in history : SamePair(h, c) => h.at < c.at
    /\ history' = history \cup batch

\* The moves to the readings of a batch from the latest ones kept.
MovesTo(batch) ==
    {Report(p[1], p[2]) : p \in
        {q \in history \X batch :
            Latest(q[1]) /\ SamePair(q[1], q[2]) /\ Moved(q[1].val, q[2].val)}}

Observe(batch) == Keep(batch) /\ changes' = changes \cup MovesTo(batch)

Next == \E batch \in SUBSET Observation : Observe(batch)

Spec == Init /\ [][Next]_<<history, changes>>

Consecutive(b, c) ==
    /\ SamePair(b, c) /\ b.at < c.at
    /\ \A h \in history : SamePair(h, c) => h.at <= b.at \/ h.at >= c.at

\* The moves between consecutive readings of a pair.
Moves ==
    {Report(p[1], p[2]) : p \in
        {q \in history \X history :
            Consecutive(q[1], q[2]) /\ Moved(q[1].val, q[2].val)}}

\* What the promise comes to: at any moment the changes reported are all the
\* moves between consecutive readings of a pair, and nothing else.
ExactlyTheMoves == changes = Moves

=============================================================================
