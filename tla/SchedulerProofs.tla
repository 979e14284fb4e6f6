--------------------------- MODULE SchedulerProofs ---------------------------
(* Theorems about Scheduler for every value of its constants. *)
EXTENDS Scheduler, TLAPS

-----------------------------------------------------------------------------
(* Lemmas about the arithmetic of rounds. *)

LEMMA ModBound ==
  ASSUME NEW a \in Nat, NEW n \in Nat \ {0}
  PROVE  a % n \in 0..n - 1
  OBVIOUS

(* Ages saturate: a step forward stays in range and never loses time. *)
LEMMA LaterBound ==
  ASSUME NEW n \in Ages, NEW d \in 1..MaxLag
  PROVE  /\ Later(n, d) \in Ages
         /\ Later(n, d) = n + d \/ (Later(n, d) = Cap /\ n + d > Cap)
  BY SchedulerAssumption DEF Later, Ages, None

LEMMA LaterTyped ==
  ASSUME NEW n \in Ages \cup {None}, NEW d \in 1..MaxLag
  PROVE  Later(n, d) \in Ages \cup {None} /\ (Later(n, d) = None <=> n = None)
  BY SchedulerAssumption DEF Later, Ages, None

LEMMA IntervalBound ==
  ASSUME TypeOK, NEW m \in Monitors
  PROVE  /\ row[m].interval \in Int /\ row[m].interval < Cap
         /\ FirstInterval(m) \in Nat \ {0} /\ FirstInterval(m) < Cap
<1>1. row[m].interval \in Intervals \cup NewIntervals
  BY DEF TypeOK, Row
<1>2. row[m].interval \in Int /\ row[m].interval < Cap
  <2>1. MaxLag \in Nat /\ Cap \in Nat /\ row[m].interval \in Int
    <3>1. Intervals \subseteq Int /\ NewIntervals \subseteq Int
      BY SchedulerAssumption
    <3> QED BY <1>1, <3>1, SchedulerAssumption
  <2>2. Cap > row[m].interval + MaxLag
    BY <1>1, SchedulerAssumption
  <2> QED BY <2>1, <2>2
<1>3. Cap \in Nat /\ MaxLag \in Nat /\ Cap > 15 + MaxLag
  BY SchedulerAssumption DEF FastRetry
<1>4. Cap > 5
  BY <1>3
<1>5. CASE row[m].interval >= MinInterval
  BY <1>2, <1>5 DEF FirstInterval, MinInterval
<1>6. CASE ~(row[m].interval >= MinInterval)
  BY <1>2, <1>4, <1>6 DEF FirstInterval, MinInterval
<1> QED BY <1>2, <1>5, <1>6

(* The stagger leaves an instant at least a second, at most an interval    *)
(* in the past.                                                            *)
LEMMA StaggerBound ==
  ASSUME TypeOK, NEW m \in Monitors
  PROVE  /\ Stagger(m) \in 0..FirstInterval(m) - 1
         /\ FirstInterval(m) - Stagger(m) \in 1..FirstInterval(m)
         /\ FirstInterval(m) - Stagger(m) \in Ages
<1>1. FirstInterval(m) \in Nat \ {0} /\ FirstInterval(m) < Cap /\ Cap \in Nat
  BY IntervalBound, SchedulerAssumption
<1>2. m * StaggerStep \in Nat
  BY SchedulerAssumption DEF StaggerStep
<1>3. Stagger(m) \in 0..FirstInterval(m) - 1
  BY <1>1, <1>2, ModBound DEF Stagger
<1> QED BY <1>1, <1>3 DEF Ages

LEMMA NextAgeTyped ==
  ASSUME TypeOK, NEW m \in Monitors, NEW d \in 1..MaxLag
  PROVE  NextAge(m, d) \in Ages \cup {None}
<1>1. age[m] \in Ages \cup {None} /\ 0 \in Ages
  BY SchedulerAssumption DEF TypeOK, Ages
<1> QED BY <1>1, LaterTyped, StaggerBound DEF NextAge

-----------------------------------------------------------------------------
(* Type correctness. *)

LEMMA InitTyped == Init => TypeOK
<1> SUFFICES ASSUME Init PROVE TypeOK
    OBVIOUS
<1>1. row \in [Monitors -> Row]
  BY SchedulerAssumption DEF Init, Row
<1> QED BY <1>1, SchedulerAssumption DEF Init, TypeOK, Ages

LEMMA RoundTyped ==
  ASSUME TypeOK, NEW d \in 1..MaxLag, Round(d) PROVE TypeOK'
<1>1. age' \in [Monitors -> Ages \cup {None}]
  BY NextAgeTyped DEF Round
<1>2. fired' \subseteq Monitors /\ early' \subseteq Monitors
  BY DEF Round, Active, TypeOK
<1>3. since' \in [Monitors -> Ages \cup {None}]
  <2>1. \A m \in Monitors : since[m] \in Ages \cup {None} /\ 0 \in Ages
    BY SchedulerAssumption DEF TypeOK, Ages
  <2> QED BY <2>1, LaterTyped DEF Round
<1>4. wait' \in [Monitors -> Ages]
  <2>1. \A m \in Monitors : wait[m] \in Ages /\ 0 \in Ages
    BY SchedulerAssumption DEF TypeOK, Ages
  <2> QED BY <2>1, LaterBound DEF Round
<1>5. calm' \in BOOLEAN
  BY DEF Round, TypeOK
<1> QED BY <1>1, <1>2, <1>3, <1>4, <1>5 DEF Round, TypeOK

(* Writing one row. *)
LEMMA RowTyped ==
  ASSUME TypeOK, NEW m \in Monitors, NEW r \in Row, row' = [row EXCEPT ![m] = r]
  PROVE  row' \in [Monitors -> Row]
  BY DEF TypeOK

LEMMA SpendTyped ==
  ASSUME TypeOK, NEW w \in {"ops", "restarts"}, Spend(w)
  PROVE  budget' \in [{"ops", "restarts"} -> Nat]
  BY DEF TypeOK, Spend

LEMMA OutcomeTyped ==
  ASSUME TypeOK, NEW m \in Monitors, Outcome(m) PROVE TypeOK'
<1>1. PICK f \in 0..MaxRetries : row' = [row EXCEPT ![m].fails = f]
  <2>1. row[m].fails \in 0..MaxRetries /\ MaxRetries \in Nat
    BY SchedulerAssumption DEF TypeOK, Row
  <2>2. CASE row' = [row EXCEPT ![m].fails = 0]
    <3>1. 0 \in 0..MaxRetries
      BY <2>1
    <3> QED BY <2>2, <3>1
  <2>3. CASE row[m].fails < MaxRetries /\ row' = [row EXCEPT ![m].fails = @ + 1]
    <3>1. row[m].fails + 1 \in 0..MaxRetries
      BY <2>1, <2>3
    <3> QED BY <2>3, <3>1
  <2> QED BY <2>2, <2>3 DEF Outcome
<1>2. [row[m] EXCEPT !.fails = f] \in Row
  BY DEF TypeOK, Row
<1>3. row' \in [Monitors -> Row]
  BY <1>1, <1>2 DEF TypeOK
<1>4. calm' \in BOOLEAN
  BY DEF Outcome, TypeOK
<1> QED BY <1>3, <1>4 DEF Outcome, TypeOK

LEMMA OpTyped ==
  ASSUME TypeOK, NEW m \in Monitors,
         \/ \E i \in Intervals \cup NewIntervals, r \in 1..MaxRetries : Create(m, i, r)
         \/ \E i \in Intervals, r \in 1..MaxRetries : Update(m, i, r)
         \/ TogglePause(m) \/ Destroy(m)
  PROVE  TypeOK'
<1>0. row[m] \in Row /\ 0 \in 0..MaxRetries /\ 0 \in Ages
  BY SchedulerAssumption DEF TypeOK, Ages
<1>1. ASSUME NEW i \in Intervals \cup NewIntervals, NEW r \in 1..MaxRetries,
             Create(m, i, r)
      PROVE  TypeOK'
  <2>1. [present |-> TRUE, active |-> TRUE, interval |-> i,
         retries |-> r, fails |-> 0] \in Row
    BY <1>0 DEF Row
  <2> QED BY <1>1, <2>1, RowTyped, SpendTyped DEF Create, TypeOK
<1>2. ASSUME NEW i \in Intervals, NEW r \in 1..MaxRetries, Update(m, i, r)
      PROVE  TypeOK'
  <2>1. [row[m] EXCEPT !.interval = i, !.retries = r] \in Row
    BY <1>0 DEF Row
  <2>2. row' = [row EXCEPT ![m] = [row[m] EXCEPT !.interval = i, !.retries = r]]
    BY <1>2 DEF Update, TypeOK
  <2> QED BY <1>2, <2>1, <2>2, RowTyped, SpendTyped DEF Update, TypeOK
<1>3. CASE TogglePause(m)
  <2> DEFINE n == [row[m] EXCEPT !.active = ~@, !.fails = 0]
  <2>1. PICK b \in BOOLEAN : b = ~row[m].active
    BY <1>0 DEF Row
  <2>2. [row[m] EXCEPT !.active = b, !.fails = 0] \in Row
    BY <1>0 DEF Row
  <2>3. n \in Row
    BY <2>1, <2>2
  <2>4. row' = [row EXCEPT ![m] = n]
    BY <1>3 DEF TogglePause, TypeOK
  <2>5. row' \in [Monitors -> Row]
    BY <2>3, <2>4, RowTyped
  <2> QED BY <1>0, <1>3, <2>5, SpendTyped DEF TogglePause, TypeOK
<1>4. CASE Destroy(m)
  <2> DEFINE n == [row[m] EXCEPT !.present = FALSE, !.active = FALSE, !.fails = 0]
  <2>1. n \in Row
    BY <1>0 DEF Row
  <2>2. row' = [row EXCEPT ![m] = n]
    BY <1>4 DEF Destroy, TypeOK
  <2>3. row' \in [Monitors -> Row]
    BY <2>1, <2>2, RowTyped
  <2> QED BY <1>0, <1>4, <2>3, SpendTyped DEF Destroy, TypeOK
<1> QED BY <1>1, <1>2, <1>3, <1>4

LEMMA NextTyped == TypeOK /\ [Next]_vars => TypeOK'
<1> SUFFICES ASSUME TypeOK, [Next]_vars PROVE TypeOK'
    OBVIOUS
<1>1. CASE Restart
  BY <1>1, SpendTyped, SchedulerAssumption DEF Restart, TypeOK, Ages
<1>2. CASE UNCHANGED vars
  BY <1>2 DEF vars, TypeOK
<1> QED BY <1>1, <1>2, RoundTyped, OutcomeTyped, OpTyped DEF Next

(* Whatever the operator stores and however long the loop is held up, the  *)
(* tracker holds an age or nothing for every monitor, never a value a      *)
(* comparison could wrap on.                                               *)
THEOREM TypeCorrect == Spec => []TypeOK
  BY InitTyped, NextTyped, PTL DEF Spec

-----------------------------------------------------------------------------
(* The inductive invariant: what the histories have to do with the tracker. *)
(* A monitor without an instant has not waited and has not been spawned;   *)
(* otherwise it has waited no longer than its instant is old, save for the *)
(* round that first saw it, and its last spawn is as old as its instant    *)
(* unless that spawn was a first one.                                      *)
TrackerInv ==
  /\ TypeOK
  /\ \A m \in Monitors :
       /\ age[m] = None => wait[m] = 0 /\ since[m] = None
       /\ age[m] # None => wait[m] <= age[m] + MaxLag - 1
       /\ since[m] # None /\ m \notin early => since[m] >= age[m]
  /\ \A m \in fired : since[m] # None

LEMMA InitTracker == Init => TrackerInv
  BY InitTyped DEF Init, TrackerInv, None

(* Steps that only write rows, or start a wait again. *)
LEMMA RowsTracker ==
  ASSUME TrackerInv, TypeOK', UNCHANGED <<age, fired, since, early>>,
         \A m \in Monitors : wait'[m] \in {wait[m], 0}
  PROVE  TrackerInv'
<1>1. \A m \in Monitors : age[m] \in Ages \cup {None} /\ wait[m] \in Ages
  BY DEF TrackerInv, TypeOK
<1>2. \A m \in Monitors : age[m] # None => 0 <= age[m] + MaxLag - 1
  BY <1>1, SchedulerAssumption DEF Ages, None
<1> QED BY <1>1, <1>2 DEF TrackerInv

LEMMA RoundTracker ==
  ASSUME TrackerInv, NEW d \in 1..MaxLag, Round(d) PROVE TrackerInv'
<1>1. TypeOK /\ TypeOK'
  BY RoundTyped DEF TrackerInv
<1>2. /\ MaxLag \in Nat \ {0} /\ Cap \in Nat /\ d \in Nat /\ d <= MaxLag
  BY SchedulerAssumption
<1>3. ASSUME NEW m \in Monitors
      PROVE  /\ age'[m] = None => wait'[m] = 0 /\ since'[m] = None
             /\ age'[m] # None => wait'[m] <= age'[m] + MaxLag - 1
             /\ since'[m] # None /\ m \notin early' => since'[m] >= age'[m]
             /\ m \in fired' => since'[m] # None
  <2>1. /\ age[m] \in Ages \cup {None} /\ wait[m] \in Ages
        /\ since[m] \in Ages \cup {None}
    BY <1>1 DEF TypeOK
  <2>2. /\ age'[m] = NextAge(m, d)
        /\ since'[m] = IF m \in fired' THEN 0 ELSE Later(since[m], d)
        /\ wait'[m] = IF m \in Active \ fired' THEN Later(wait[m], d) ELSE 0
        /\ m \in early' <=> (m \in early /\ m \notin fired')
                               \/ (m \in fired' /\ age[m] = None)
        /\ m \in fired' <=> m \in Active /\ Due(m, d)
    BY DEF Round, Active
  <2>3. /\ age[m] = None => wait[m] = 0 /\ since[m] = None
        /\ age[m] # None => wait[m] <= age[m] + MaxLag - 1
        /\ since[m] # None /\ m \notin early => since[m] >= age[m]
    BY DEF TrackerInv
  <2>4. /\ Later(None, d) = None
        /\ \A n \in Ages : /\ Later(n, d) \in Ages
                           /\ Later(n, d) = IF n + d > Cap THEN Cap ELSE n + d
    <3>1. Later(None, d) = None
      BY DEF Later
    <3>2. ASSUME NEW n \in Ages
          PROVE  Later(n, d) \in Ages /\ Later(n, d) = IF n + d > Cap THEN Cap ELSE n + d
      <4>1. n # None
        BY DEF Ages, None
      <4> QED BY <4>1, LaterBound DEF Later
    <3> QED BY <3>1, <3>2
  <2>5. FirstInterval(m) - Stagger(m) \in Ages /\ FirstInterval(m) - Stagger(m) >= 1
    BY <1>1, StaggerBound
  <2>6. CASE m \notin Active
    <3>1. age'[m] = Later(age[m], d) /\ wait'[m] = 0 /\ since'[m] = Later(since[m], d)
          /\ m \notin fired' /\ (m \in early' <=> m \in early)
      BY <2>2, <2>6 DEF NextAge
    <3> QED BY <1>2, <2>1, <2>3, <2>4, <3>1 DEF Ages, None
  <2>7. CASE m \in Active /\ age[m] = None
    <3>1. age'[m] = FirstInterval(m) - Stagger(m)
      BY <2>2, <2>7 DEF NextAge
    <3>2. m \in fired' => m \in early' /\ wait'[m] = 0 /\ since'[m] = 0
      BY <2>2, <2>7
    <3>3. m \notin fired' => wait'[m] = Later(0, d) /\ since'[m] = None
      BY <2>2, <2>3, <2>4, <2>7
    <3>4. Later(0, d) \in Nat /\ Later(0, d) <= d
      <4>1. 0 \in Ages
        BY <1>2 DEF Ages
      <4>2. Later(0, d) = IF 0 + d > Cap THEN Cap ELSE 0 + d
        BY <2>4, <4>1
      <4> QED BY <1>2, <4>2
    <3>5. age'[m] >= 1 /\ age'[m] \in Nat
      BY <1>2, <2>5, <3>1 DEF Ages
    <3>6. CASE m \in fired'
      BY <1>2, <3>2, <3>5, <3>6 DEF None
    <3>7. CASE m \notin fired'
      BY <1>2, <3>3, <3>4, <3>5, <3>7 DEF None
    <3> QED BY <3>6, <3>7
  <2>8. CASE m \in Active /\ age[m] # None /\ m \in fired'
    <3>1. age'[m] = 0 /\ wait'[m] = 0 /\ since'[m] = 0
      BY <2>2, <2>8 DEF NextAge
    <3> QED BY <1>2, <3>1 DEF None
  <2>9. CASE m \in Active /\ age[m] # None /\ m \notin fired'
    <3>1. age'[m] = Later(age[m], d) /\ wait'[m] = Later(wait[m], d)
          /\ since'[m] = Later(since[m], d) /\ (m \in early' <=> m \in early)
      BY <2>2, <2>9 DEF NextAge
    <3> QED BY <1>2, <2>1, <2>3, <2>4, <2>9, <3>1 DEF Ages, None
  <2> QED BY <2>6, <2>7, <2>8, <2>9
<1> QED BY <1>1, <1>3 DEF TrackerInv, TypeOK

LEMMA NextTracker == TrackerInv /\ [Next]_vars => TrackerInv'
<1> SUFFICES ASSUME TrackerInv, [Next]_vars PROVE TrackerInv'
    OBVIOUS
<1>1. TypeOK /\ TypeOK'
  BY NextTyped DEF TrackerInv
<1>2. ASSUME NEW d \in 1..MaxLag, Round(d) PROVE TrackerInv'
  BY <1>2, RoundTracker
<1>3. ASSUME NEW m \in Monitors, Outcome(m) PROVE TrackerInv'
  BY <1>1, <1>3, RowsTracker DEF Outcome
<1>4. ASSUME NEW m \in Monitors, NEW i, NEW r, Create(m, i, r) \/ Update(m, i, r)
      PROVE  TrackerInv'
  BY <1>1, <1>4, RowsTracker DEF Create, Update
<1>5. ASSUME NEW m \in Monitors, TogglePause(m) \/ Destroy(m) PROVE TrackerInv'
  BY <1>1, <1>5, RowsTracker DEF TogglePause, Destroy, TypeOK
<1>6. CASE Restart
  BY <1>1, <1>6 DEF Restart, TrackerInv, None
<1>7. CASE UNCHANGED vars
  BY <1>1, <1>7, RowsTracker DEF vars
<1> QED BY <1>2, <1>3, <1>4, <1>5, <1>6, <1>7 DEF Next

LEMMA RoundTimely ==
  ASSUME TrackerInv, NEW d \in 1..MaxLag, Round(d), NEW m \in Active \ fired'
  PROVE  wait'[m] < (IF age[m] = None THEN FirstInterval(m) ELSE Effective(m)) + MaxLag
<1>1. /\ m \in Monitors /\ TypeOK
      /\ MaxLag \in Nat \ {0} /\ Cap \in Nat /\ d \in Nat /\ d <= MaxLag
  BY SchedulerAssumption DEF Active, TrackerInv
<1>2. wait'[m] = Later(wait[m], d) /\ ~Due(m, d)
  BY <1>1 DEF Round
<1>3. wait[m] \in Ages /\ age[m] \in Ages \cup {None}
  BY <1>1 DEF TypeOK
<1>4. Later(wait[m], d) <= wait[m] + d /\ Later(wait[m], d) <= Cap
      /\ Later(wait[m], d) \in Nat
  BY <1>1, <1>3, LaterBound DEF Ages
<1>5. CASE age[m] = None
  <2>1. wait[m] = 0
    BY <1>1, <1>5 DEF TrackerInv
  <2>2. FirstInterval(m) \in Nat \ {0}
    BY <1>1, IntervalBound
  <2> QED BY <1>1, <1>2, <1>4, <1>5, <2>1, <2>2
<1>6. CASE age[m] # None
  <2>1. age[m] \in Ages /\ wait[m] <= age[m] + MaxLag - 1
    BY <1>1, <1>3, <1>6 DEF TrackerInv
  <2>2. Later(age[m], d) < Effective(m) /\ Effective(m) \in Int
    <3>1. Effective(m) \in Int /\ Later(age[m], d) \in Int
      BY <1>1, <2>1, IntervalBound, LaterBound
         DEF Effective, AsU64, FastRetry, Ages
    <3>2. ~(Later(age[m], d) >= Effective(m))
      BY <1>2, <1>6 DEF Due
    <3> QED BY <3>1, <3>2
  <2>3. CASE Later(age[m], d) = age[m] + d
    BY <1>1, <1>2, <1>3, <1>4, <1>6, <2>1, <2>2, <2>3 DEF Ages
  <2>4. CASE Later(age[m], d) = Cap
    BY <1>1, <1>2, <1>3, <1>4, <1>6, <2>1, <2>2, <2>4 DEF Ages
  <2> QED BY <2>1, <2>3, <2>4, LaterBound
<1> QED BY <1>5, <1>6

(* Nobody is forgotten: whenever a round passes over an active monitor, it *)
(* has waited less than its effective interval and one lag.                *)
THEOREM NobodyForgotten == Spec => Timely
<1>1. TrackerInv =>
        \A d \in 1..MaxLag : Round(d) =>
          \A m \in Active \ fired' :
            wait'[m] < (IF age[m] = None THEN FirstInterval(m) ELSE Effective(m))
                         + MaxLag
  BY RoundTimely
<1> QED BY InitTracker, NextTracker, <1>1, PTL DEF Spec, Timely

LEMMA RoundSpaced ==
  ASSUME TrackerInv, NEW d \in 1..MaxLag, Round(d), NEW m \in fired' \ early,
         since[m] # None
  PROVE  Later(since[m], d) >= Effective(m)
<1>1. m \in Monitors /\ TypeOK /\ Due(m, d)
  BY DEF Round, Active, TrackerInv
<1>2. age[m] # None /\ since[m] >= age[m]
  BY <1>1 DEF TrackerInv
<1>3. age[m] \in Ages /\ since[m] \in Ages /\ Cap \in Nat /\ d \in Nat
  BY <1>1, <1>2, SchedulerAssumption DEF TypeOK
<1>4. Later(since[m], d) >= Later(age[m], d)
      /\ Later(since[m], d) \in Int /\ Later(age[m], d) \in Int
  BY <1>2, <1>3 DEF Later, Ages, None
<1>5. Later(age[m], d) >= Effective(m) /\ Effective(m) \in Int
  <2>1. Effective(m) \in Int
    BY <1>1, IntervalBound, SchedulerAssumption DEF Effective, AsU64, FastRetry
  <2> QED BY <1>1, <1>2, <2>1 DEF Due
<1> QED BY <1>4, <1>5

(* The interval is kept between two spawns of a monitor, whatever happens  *)
(* to its row in between.                                                  *)
THEOREM IntervalKept == Spec => Spaced
<1>1. TrackerInv =>
        ((\E d \in 1..MaxLag : Round(d)) =>
           \E d \in 1..MaxLag :
             /\ Round(d)
             /\ \A m \in fired' \ early :
                  since[m] # None => Later(since[m], d) >= Effective(m))
  BY RoundSpaced
<1> QED BY InitTracker, NextTracker, <1>1, PTL DEF Spec, Spaced

-----------------------------------------------------------------------------
(* The first probes after a start.  As long as the start is undisturbed,   *)
(* the instants of all monitors that wait for their first probe move in    *)
(* step: k seconds after the first round each is k seconds older than the  *)
(* stagger made it, and has not reached its interval.                      *)
InStep(k) ==
  \A m \in Active : since[m] = None /\ Steady(m) =>
    age[m] = FirstInterval(m) - Stagger(m) + k /\ k < Stagger(m)

SpreadInv ==
  TrackerInv /\ (calm => \/ \A m \in Monitors : age[m] = None
                         \/ \E k \in Nat : InStep(k))

(* Which monitors an undisturbed round probes for the first time.          *)
LEMMA FirstProbe ==
  ASSUME TrackerInv, Round(1), NEW m \in Active, since[m] = None, Steady(m),
         1 \in 1..MaxLag
  PROVE  /\ age[m] = None =>
              /\ m \in fired' <=> Stagger(m) = 0
              /\ m \notin fired' => age'[m] = FirstInterval(m) - Stagger(m)
         /\ \A k \in Nat :
              age[m] = FirstInterval(m) - Stagger(m) + k /\ k < Stagger(m) =>
                /\ m \in fired' <=> Stagger(m) = k + 1
                /\ m \notin fired' => age'[m] = FirstInterval(m) - Stagger(m) + (k + 1)
<1>1. m \in Monitors /\ TypeOK
  BY DEF Active, TrackerInv
<1>2. m \in fired' <=> Due(m, 1)
  BY DEF Round
<1>3. age'[m] = NextAge(m, 1)
  BY <1>1 DEF Round
<1>4. /\ FirstInterval(m) \in Nat \ {0} /\ FirstInterval(m) < Cap
      /\ Stagger(m) \in 0..FirstInterval(m) - 1 /\ Cap \in Nat
  BY <1>1, IntervalBound, StaggerBound, SchedulerAssumption
<1>5. Effective(m) = FirstInterval(m)
  <2>1. row[m].interval \in Int /\ row[m].interval >= 5 /\ ~Retrying(m)
    BY <1>1, IntervalBound DEF Steady, MinInterval
  <2> QED BY <2>1 DEF Effective, FirstInterval, AsU64, MinInterval
<1>6. ASSUME age[m] = None
      PROVE  /\ m \in fired' <=> Stagger(m) = 0
             /\ m \notin fired' => age'[m] = FirstInterval(m) - Stagger(m)
  BY <1>2, <1>3, <1>6 DEF Due, NextAge
<1>7. ASSUME NEW k \in Nat,
             age[m] = FirstInterval(m) - Stagger(m) + k, k < Stagger(m)
      PROVE  /\ m \in fired' <=> Stagger(m) = k + 1
             /\ m \notin fired' => age'[m] = FirstInterval(m) - Stagger(m) + (k + 1)
  <2>1. age[m] \in Nat /\ age[m] # None /\ age[m] + 1 <= FirstInterval(m)
    BY <1>4, <1>7 DEF None
  <2>2. Later(age[m], 1) = age[m] + 1
    BY <1>4, <2>1 DEF Later
  <2>3. Due(m, 1) <=> age[m] + 1 >= FirstInterval(m)
    BY <1>5, <2>1, <2>2 DEF Due
  <2>4. ~Due(m, 1) => age'[m] = age[m] + 1
    BY <1>3, <2>1, <2>2 DEF NextAge
  <2> QED BY <1>2, <1>4, <1>7, <2>1, <2>3, <2>4
<1> QED BY <1>6, <1>7

LEMMA LagExists == 1 \in 1..MaxLag
  BY SchedulerAssumption

(* A monitor that is still waiting after a round was waiting before it.    *)
LEMMA StillWaiting ==
  ASSUME TrackerInv, NEW d \in 1..MaxLag, Round(d), NEW m \in Monitors,
         since'[m] = None
  PROVE  since[m] = None /\ m \notin fired'
<1>1. since[m] \in Ages \cup {None}
  BY DEF TrackerInv, TypeOK
<1>2. m \notin fired'
  BY DEF Round, None
<1> QED BY <1>1, <1>2, LaterTyped DEF Round

LEMMA NextSpread == SpreadInv /\ [Next]_vars => SpreadInv'
<1> SUFFICES ASSUME SpreadInv, [Next]_vars PROVE SpreadInv'
    OBVIOUS
<1>1. TrackerInv /\ TrackerInv' /\ TypeOK
  BY NextTracker DEF SpreadInv, TrackerInv
<1> SUFFICES ASSUME calm'
             PROVE  \/ \A m \in Monitors : age'[m] = None
                    \/ \E k \in Nat : InStep(k)'
    BY <1>1 DEF SpreadInv
<1>2. ASSUME NEW d \in 1..MaxLag, Round(d)
      PROVE  \E k \in Nat : InStep(k)'
  <2>1. calm /\ d = 1 /\ Round(1) /\ 1 \in 1..MaxLag /\ row' = row
    BY <1>2 DEF Round
  <2>2. Active' = Active /\ \A m \in Monitors : /\ Steady(m)' <=> Steady(m)
                                                /\ FirstInterval(m)' = FirstInterval(m)
                                                /\ Stagger(m)' = Stagger(m)
    BY <2>1 DEF Active, Steady, Retrying, FirstInterval, Stagger
  <2>3. \A m \in Monitors : since'[m] = None => since[m] = None /\ m \notin fired'
    BY <1>1, <1>2, StillWaiting
  <2>4. Active \subseteq Monitors
    BY DEF Active
  <2>5. \A m \in Active : Stagger(m) \in Nat
    BY <1>1, <2>4, StaggerBound, IntervalBound
  <2>6. CASE \A m \in Monitors : age[m] = None
    <3>1. ASSUME NEW m \in Active, since'[m] = None, Steady(m)
          PROVE  age'[m] = FirstInterval(m) - Stagger(m) + 0 /\ 0 < Stagger(m)
      <4>1. m \in Monitors /\ since[m] = None /\ m \notin fired' /\ age[m] = None
        BY <2>3, <2>4, <2>6, <3>1
      <4>2. age'[m] = FirstInterval(m) - Stagger(m) /\ Stagger(m) # 0
        BY <1>1, <2>1, <3>1, <4>1, FirstProbe
      <4>3. FirstInterval(m) \in Nat /\ Stagger(m) \in Nat
        BY <1>1, <2>5, <4>1, IntervalBound
      <4> QED BY <4>2, <4>3
    <3>2. InStep(0)'
      BY <2>2, <2>4, <3>1 DEF InStep
    <3> QED BY <3>2
  <2>7. ASSUME NEW k \in Nat, InStep(k) PROVE InStep(k + 1)'
    <3>1. ASSUME NEW m \in Active, since'[m] = None, Steady(m)
          PROVE  age'[m] = FirstInterval(m) - Stagger(m) + (k + 1) /\ k + 1 < Stagger(m)
      <4>1. m \in Monitors /\ since[m] = None /\ m \notin fired'
        BY <2>3, <2>4, <3>1
      <4>2. age[m] = FirstInterval(m) - Stagger(m) + k /\ k < Stagger(m)
        BY <2>7, <3>1, <4>1 DEF InStep
      <4>3. /\ age'[m] = FirstInterval(m) - Stagger(m) + (k + 1)
            /\ Stagger(m) # k + 1
        BY <1>1, <2>1, <3>1, <4>1, <4>2, FirstProbe
      <4> QED BY <2>5, <4>2, <4>3
    <3> QED BY <2>2, <2>4, <3>1 DEF InStep
  <2>8. \A k \in Nat : k + 1 \in Nat
    OBVIOUS
  <2> QED BY <2>1, <2>6, <2>7, <2>8 DEF SpreadInv
<1>3. ASSUME NEW n \in Monitors, Outcome(n)
      PROVE  \/ \A m \in Monitors : age'[m] = None
             \/ \E k \in Nat : InStep(k)'
  <2>1. calm /\ since[n] # None /\ UNCHANGED <<age, since>>
    BY <1>3 DEF Outcome
  <2>2. \A m \in Monitors : m # n => row'[m] = row[m]
    BY <1>1, <1>3 DEF Outcome, TypeOK
  <2>3. \A k \in Nat : InStep(k) => InStep(k)'
    <3>1. \A m \in Active' : since'[m] = None =>
            /\ m \in Active /\ (Steady(m)' <=> Steady(m))
            /\ FirstInterval(m)' = FirstInterval(m) /\ Stagger(m)' = Stagger(m)
      BY <2>1, <2>2 DEF Active, Steady, Retrying, FirstInterval, Stagger
    <3> QED BY <2>1, <3>1 DEF InStep
  <2> QED BY <2>1, <2>3 DEF SpreadInv
<1>4. ASSUME NEW m \in Monitors, NEW i, NEW r,
             Create(m, i, r) \/ Update(m, i, r) \/ TogglePause(m) \/ Destroy(m)
      PROVE  FALSE
  BY <1>4 DEF Create, Update, TogglePause, Destroy
<1>5. CASE Restart
  BY <1>5 DEF Restart
<1>6. CASE UNCHANGED vars
  <2>1. \A k \in Nat : InStep(k)' <=> InStep(k)
    BY <1>6 DEF vars, InStep, Active, Steady, Retrying, FirstInterval, Stagger
  <2>2. calm /\ age' = age
    BY <1>6 DEF vars
  <2> QED BY <2>1, <2>2 DEF SpreadInv
<1> QED BY <1>2, <1>3, <1>4, <1>5, <1>6 DEF Next

(* Two steady monitors that the same step probes first have one stagger.   *)
LEMMA SameStagger ==
  ASSUME SpreadInv, [Next]_vars, NEW m \in fired', NEW n \in fired', calm',
         since[m] = None, since[n] = None, Steady(m), Steady(n)
  PROVE  Stagger(m) = Stagger(n)
<1>1. TrackerInv /\ ~(m \in fired)
  BY DEF SpreadInv, TrackerInv
<1>2. PICK d \in 1..MaxLag : Round(d)
  BY <1>1 DEF Next, Outcome, Create, Update, TogglePause, Destroy, Restart, vars
<1>3. calm /\ Round(1) /\ 1 \in 1..MaxLag /\ m \in Active /\ n \in Active
      /\ m \in Monitors /\ n \in Monitors
  BY <1>2 DEF Round, Active
<1>4. CASE \A x \in Monitors : age[x] = None
  BY <1>1, <1>3, <1>4, FirstProbe
<1>5. ASSUME NEW k \in Nat, InStep(k) PROVE Stagger(m) = Stagger(n)
  <2>1. \A x \in {m, n} : age[x] = FirstInterval(x) - Stagger(x) + k /\ k < Stagger(x)
    BY <1>3, <1>5 DEF InStep
  <2> QED BY <1>1, <1>3, <2>1, FirstProbe
<1> QED BY <1>3, <1>4, <1>5 DEF SpreadInv

(* The stagger does what it is there for: after a start, steady monitors   *)
(* get their first probe together only where three seconds per rowid put   *)
(* them at the same place.                                                 *)
THEOREM FirstProbesSpread == Spec => StartupSpread
<1>1. Init => SpreadInv
  BY InitTracker DEF Init, SpreadInv
<1>2. SpreadInv /\ [Next]_vars =>
        \A m, n \in fired' :
          calm' /\ since[m] = None /\ since[n] = None /\ Steady(m) /\ Steady(n) =>
            (m * StaggerStep) % FirstInterval(m) = (n * StaggerStep) % FirstInterval(n)
  BY SameStagger DEF Stagger
<1>3. SpreadInv /\ [Next]_vars =>
        [\A m, n \in fired' :
           calm' /\ since[m] = None /\ since[n] = None /\ Steady(m) /\ Steady(n) =>
             (m * StaggerStep) % FirstInterval(m)
               = (n * StaggerStep) % FirstInterval(n)]_vars
  BY <1>2
<1> QED BY <1>1, NextSpread, <1>3, PTL DEF Spec, StartupSpread
=============================================================================
