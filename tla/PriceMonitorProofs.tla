------------------------- MODULE PriceMonitorProofs -------------------------
(* What PriceMonitor and LossyMonitor promise follows from their steps, for *)
(* any readings.                                                            *)
EXTENDS LossyMonitor, TLAPS

Step(h, b, c) ==
    /\ SamePair(b, c) /\ b.at < c.at
    /\ \A o \in h : SamePair(o, c) => o.at <= b.at \/ o.at >= c.at
    /\ Moved(b.val, c.val)

MovesOf(h) ==
    {Report(p[1], p[2]) : p \in {q \in h \X h : Step(h, q[1], q[2])}}

Inv == history \subseteq Observation /\ changes = MovesOf(history)

LEMMA InMoves ==
    ASSUME NEW h, NEW e
    PROVE  e \in MovesOf(h) <=> \E b, c \in h : Step(h, b, c) /\ e = Report(b, c)
<1>1. ASSUME e \in MovesOf(h)
      PROVE  \E b, c \in h : Step(h, b, c) /\ e = Report(b, c)
  BY <1>1 DEF MovesOf
<1>2. ASSUME NEW b \in h, NEW c \in h, Step(h, b, c)
      PROVE  Report(b, c) \in MovesOf(h)
  <2>1. <<b, c>> \in {q \in h \X h : Step(h, q[1], q[2])}
    BY <1>2
  <2>2. Report(<<b, c>>[1], <<b, c>>[2]) \in MovesOf(h)
    BY <2>1 DEF MovesOf
  <2> QED BY <2>2
<1> QED BY <1>1, <1>2

LEMMA InMovesTo ==
    ASSUME NEW batch, NEW e
    PROVE  e \in MovesTo(batch) <=>
              \E b \in history, c \in batch :
                  Latest(b) /\ SamePair(b, c) /\ Moved(b.val, c.val) /\ e = Report(b, c)
<1>1. ASSUME e \in MovesTo(batch)
      PROVE  \E b \in history, c \in batch :
                Latest(b) /\ SamePair(b, c) /\ Moved(b.val, c.val) /\ e = Report(b, c)
  BY <1>1 DEF MovesTo
<1>2. ASSUME NEW b \in history, NEW c \in batch,
             Latest(b), SamePair(b, c), Moved(b.val, c.val)
      PROVE  Report(b, c) \in MovesTo(batch)
  <2>1. <<b, c>> \in
           {q \in history \X batch :
               Latest(q[1]) /\ SamePair(q[1], q[2]) /\ Moved(q[1].val, q[2].val)}
    BY <1>2
  <2>2. Report(<<b, c>>[1], <<b, c>>[2]) \in MovesTo(batch)
    BY <2>1 DEF MovesTo
  <2> QED BY <2>2
<1> QED BY <1>1, <1>2

\* Keeping a batch adds the moves from the latest readings, and leaves the
\* pairs of consecutive readings there were.
LEMMA KeepMoves ==
    ASSUME \A o \in Observation : o.at \in Int, history \subseteq Observation,
           NEW batch \in SUBSET Observation, Keep(batch)
    PROVE  MovesOf(history') = MovesOf(history) \cup MovesTo(batch)
<1>0. /\ history' = history \cup batch
      /\ \A c, d \in batch : SamePair(c, d) => c = d
      /\ \A c \in batch, h \in history : SamePair(h, c) => h.at < c.at
  BY DEF Keep
<1>1. history' \subseteq Observation /\ \A o \in history' : o.at \in Int
  BY <1>0
<1>2. ASSUME NEW b \in history, NEW c \in history
      PROVE  Step(history, b, c) <=> Step(history', b, c)
  <2>1. \A o \in batch : SamePair(o, c) => o.at >= c.at
    BY <1>0, <1>1 DEF SamePair
  <2> QED BY <1>0, <2>1 DEF Step
<1>3. ASSUME NEW b \in history, NEW c \in batch
      PROVE  (Latest(b) /\ SamePair(b, c) /\ Moved(b.val, c.val)) <=> Step(history', b, c)
  <2>1. ASSUME Latest(b), SamePair(b, c), Moved(b.val, c.val)
        PROVE  Step(history', b, c)
    <3>1. ASSUME NEW o \in history', SamePair(o, c)
          PROVE  o.at <= b.at \/ o.at >= c.at
      <4>1. CASE o \in history
        BY <2>1, <3>1, <4>1 DEF Latest, SamePair
      <4>2. CASE o \in batch
        BY <1>0, <1>1, <3>1, <4>2
      <4> QED BY <1>0, <4>1, <4>2
    <3> QED BY <1>0, <2>1, <3>1 DEF Step
  <2>2. ASSUME Step(history', b, c)
        PROVE  Latest(b)
    <3> SUFFICES ASSUME NEW o \in history, SamePair(o, b)
                 PROVE  o.at <= b.at
      BY DEF Latest
    <3>1. SamePair(o, c)
      BY <2>2 DEF SamePair, Step
    <3>2. o.at < c.at /\ o \in history' /\ c \in history' /\ b \in history'
      BY <1>0, <3>1
    <3> QED BY <1>1, <2>2, <3>1, <3>2 DEF Step
  <2> QED BY <2>1, <2>2 DEF Step
<1>4. ASSUME NEW b \in batch, NEW c \in history'
      PROVE  ~Step(history', b, c)
  <2>1. CASE c \in history
    <3>1. SamePair(b, c) => c.at < b.at
      BY <1>0, <2>1 DEF SamePair
    <3> QED BY <1>0, <1>1, <3>1 DEF Step
  <2>2. CASE c \in batch
    BY <1>0, <1>1, <2>2 DEF Step
  <2> QED BY <1>0, <2>1, <2>2
<1>5. ASSUME NEW e
      PROVE  e \in MovesOf(history') <=> e \in MovesOf(history) \/ e \in MovesTo(batch)
  <2>1. e \in MovesOf(history) <=>
           \E b, c \in history : Step(history, b, c) /\ e = Report(b, c)
    BY InMoves
  <2>2. e \in MovesTo(batch) <=>
           \E b \in history, c \in batch :
              Latest(b) /\ SamePair(b, c) /\ Moved(b.val, c.val) /\ e = Report(b, c)
    BY InMovesTo
  <2>3. e \in MovesOf(history') <=>
           \E b, c \in history' : Step(history', b, c) /\ e = Report(b, c)
    BY InMoves
  <2> QED BY <1>0, <1>2, <1>3, <1>4, <2>1, <2>2, <2>3
<1> QED BY <1>5

LEMMA MovesAreSteps == Moves = MovesOf(history)
BY DEF Moves, MovesOf, Step, Consecutive

\* The changes reported are all the moves between consecutive readings, and
\* only those: what readers of price_change_events may rely on.
THEOREM MonitorIsExact ==
    ASSUME \A o \in Observation : o.at \in Int
    PROVE  Spec => []ExactlyTheMoves
<1>1. Init => Inv
  BY DEF Init, Inv, MovesOf
<1>2. Inv /\ [Next]_<<history, changes>> => Inv'
  <2>1. ASSUME Inv, UNCHANGED <<history, changes>>
        PROVE  Inv'
    BY <2>1 DEF Inv, MovesOf
  <2>2. ASSUME Inv, NEW batch \in SUBSET Observation, Observe(batch)
        PROVE  Inv'
    <3>1. MovesOf(history') = MovesOf(history) \cup MovesTo(batch)
      BY <2>2, KeepMoves DEF Inv, Observe
    <3> QED BY <2>2, <3>1 DEF Inv, Observe, Keep, MovesOf
  <2> QED BY <2>1, <2>2 DEF Next
<1>3. Inv => ExactlyTheMoves
  BY MovesAreSteps DEF Inv, ExactlyTheMoves
<1> QED BY <1>1, <1>2, <1>3, PTL DEF Spec

-----------------------------------------------------------------------------
(* What remains when runs fail. *)

LossyInv == history \subseteq Observation /\ changes \subseteq MovesOf(history)

LEMMA LossyStep ==
    ASSUME \A o \in Observation : o.at \in Int,
           LossyInv, [LossyNext]_<<history, changes>>
    PROVE  LossyInv'
<1>1. ASSUME NEW batch \in SUBSET Observation, Keep(batch),
             changes' \subseteq changes \cup MovesTo(batch)
      PROVE  LossyInv'
  <2>1. MovesOf(history') = MovesOf(history) \cup MovesTo(batch)
    BY <1>1, KeepMoves DEF LossyInv
  <2>2. MovesOf(history)' = MovesOf(history')
    BY DEF MovesOf, Step, SamePair, Report
  <2> QED BY <1>1, <2>1, <2>2 DEF LossyInv, Keep
<1>2. CASE Forget \/ UNCHANGED <<history, changes>>
  BY <1>2 DEF LossyInv, Forget, MovesOf
<1> QED BY <1>1, <1>2 DEF LossyNext, Observe, Overlook

\* Whatever is lost, no change is invented.
THEOREM LossyMonitorIsTrue ==
    ASSUME \A o \in Observation : o.at \in Int
    PROVE  LossySpec => []OnlyMoves
<1>1. Init => LossyInv
  BY DEF Init, LossyInv
<1>2. LossyInv /\ [LossyNext]_<<history, changes>> => LossyInv'
  BY LossyStep
<1>3. LossyInv => OnlyMoves
  BY MovesAreSteps DEF LossyInv, OnlyMoves
<1> QED BY <1>1, <1>2, <1>3, PTL DEF LossySpec

\* What is not reported with its batch is never reported, and what is reported
\* is final once its pair has a newer reading.
THEOREM LossyMonitorSettles ==
    ASSUME \A o \in Observation : o.at \in Int
    PROVE  LossySpec => PastIsSettled
<1>1. Init => LossyInv
  BY DEF Init, LossyInv
<1>2. LossyInv /\ [LossyNext]_<<history, changes>> => LossyInv'
  BY LossyStep
<1>3. LossyInv /\ [LossyNext]_<<history, changes>> => [Settles]_<<history, changes>>
  <2> SUFFICES ASSUME LossyInv, LossyNext
               PROVE  Settles
    OBVIOUS
  <2>1. ASSUME NEW batch \in SUBSET Observation, Observe(batch)
        PROVE  Settles
    <3>1. ASSUME NEW e \in Moves, e \in MovesTo(batch)
          PROVE  FALSE
      <4>1. PICK b \in history, c \in history : e = Report(b, c)
        BY <3>1, MovesAreSteps, InMoves
      <4>2. PICK a \in history, d \in batch : e = Report(a, d)
        BY <3>1, InMovesTo
      <4>3. SamePair(c, d) /\ c.at = d.at
        BY <4>1, <4>2 DEF Report, SamePair
      <4>4. c.at < d.at /\ c.at \in Int
        BY <2>1, <4>3 DEF Observe, Keep, LossyInv
      <4> QED BY <4>3, <4>4
    <3> QED BY <2>1, <3>1 DEF Observe, Settles
  <2>2. ASSUME NEW batch, Overlook(batch)
        PROVE  Settles
    BY <2>2 DEF Overlook, Settles
  <2>3. ASSUME Forget
        PROVE  Settles
    BY <2>3 DEF Forget, Report, Settles
  <2> QED BY <2>1, <2>2, <2>3 DEF LossyNext
<1> QED BY <1>1, <1>2, <1>3, PTL DEF LossySpec, PastIsSettled

=============================================================================
