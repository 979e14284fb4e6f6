------------------------------ MODULE Scheduler ------------------------------
(***************************************************************************)
(* When a monitor falls due: the scheduler loop of src/engine.rs.  Once a  *)
(* second it reads the monitors table and compares, per active monitor,    *)
(* the seconds since the instant kept in its in-memory tracker with an     *)
(* interval that depends on the row read.  The tracker is lost when the    *)
(* process ends and is never cleaned.  What a spawned probe then does is   *)
(* ProbePipeline's subject; here its result is any change of               *)
(* consecutive_fails.                                                      *)
(*                                                                         *)
(* Time is in seconds.  An instant is kept as its age, which saturates at  *)
(* Cap: ages are only compared with intervals below Cap.  Two reads of the *)
(* table are 1..MaxLag seconds apart: the loop sleeps one second, waits    *)
(* for the database lock, and skips the round when the read fails.         *)
(***************************************************************************)
EXTENDS Integers, FiniteSets

CONSTANTS
  Monitors,    \* rowids (natural numbers: the stagger is computed from them)
  Intervals,   \* interval_sec values that update and restore can store
  NewIntervals,\* interval_sec values that create can store (not clamped)
  MaxRetries,  \* upper clamp of max_retries; 10 in the code
  MaxLag,      \* bound: seconds between two reads of the table
  Cap,         \* bound: ages saturate here
  MaxOps,      \* bound: admin operations
  MaxRestarts  \* bound: restarts of the process

FastRetry == 15     \* seconds, engine.rs
MinInterval == 5    \* seconds, engine.rs and monitor.rs
StaggerStep == 3    \* seconds per rowid, engine.rs

ASSUME SchedulerAssumption ==
  /\ Monitors \subseteq Nat
  /\ Intervals \subseteq {i \in Nat : i >= MinInterval}
  /\ NewIntervals \subseteq Int
  /\ MaxRetries \in Nat \ {0}
  /\ MaxLag \in Nat \ {0}
  /\ Cap \in Nat /\ Cap > FastRetry + MaxLag
  /\ \A i \in Intervals \cup NewIntervals : Cap > i + MaxLag
  /\ MaxOps \in Nat /\ MaxRestarts \in Nat

VARIABLES
  row,      \* the monitors table
  age,      \* tracker: seconds since last_checked[m], or None
  fired,    \* monitors spawned by the latest round
  since,    \* history: seconds since the scheduler last spawned m, or None
  wait,     \* history: seconds m has been active and not spawned
  calm,     \* history: since the start only rounds one second apart, and
            \* results of monitors already spawned
  early,    \* history: monitors whose last spawn was a first one with stagger 0
  budget    \* what is left of the bounds

vars == <<row, age, fired, since, wait, calm, early, budget>>

None == -1
Ages == 0..Cap
Row == [present: BOOLEAN, active: BOOLEAN, interval: Intervals \cup NewIntervals,
        retries: 1..MaxRetries, fails: 0..MaxRetries]

Active == {m \in Monitors : row[m].present /\ row[m].active}

(* i64 as u64: a negative interval becomes a number no age reaches. *)
AsU64(i) == IF i < 0 THEN Cap + 1 ELSE i

Retrying(m) == row[m].fails > 0 /\ row[m].fails < row[m].retries

Effective(m) == IF Retrying(m) THEN FastRetry ELSE AsU64(row[m].interval)

FirstInterval(m) == IF row[m].interval >= MinInterval THEN row[m].interval
                                                      ELSE MinInterval
(* Mutant: all monitors start together. *)
Stagger_Together(m) == 0
Stagger(m) == (m * StaggerStep) % FirstInterval(m)

Later(n, d) == IF n = None THEN None ELSE IF n + d > Cap THEN Cap ELSE n + d

-----------------------------------------------------------------------------
(* The database may hold anything a former run left in it. *)
Init ==
  /\ row \in [Monitors -> [present: BOOLEAN, active: BOOLEAN, interval: Intervals,
                           retries: {MaxRetries}, fails: {0}]]
  /\ \A m \in Monitors : ~row[m].present => ~row[m].active
  /\ age = [m \in Monitors |-> None]
  /\ fired = {}
  /\ since = [m \in Monitors |-> None]
  /\ wait = [m \in Monitors |-> 0]
  /\ calm = TRUE /\ early = {}
  /\ budget = [ops |-> MaxOps, restarts |-> MaxRestarts]

(* One round, d seconds after the one before.  A monitor seen for the      *)
(* first time is given an instant in the past and is spawned at once only  *)
(* when its stagger is 0; the others are spawned when old enough.          *)
Due(m, d) == IF age[m] = None THEN Stagger(m) = 0
             ELSE Later(age[m], d) >= Effective(m)

(* Mutants: the instant is not renewed; it is renewed for every monitor.   *)
NextAge_NotRenewed(m, d) ==
  IF m \notin Active THEN Later(age[m], d)
  ELSE IF age[m] = None THEN FirstInterval(m) - Stagger(m)
  ELSE Later(age[m], d)
NextAge_AlwaysRenewed(m, d) ==
  IF m \notin Active THEN Later(age[m], d)
  ELSE IF age[m] = None THEN FirstInterval(m) - Stagger(m)
  ELSE 0
NextAge(m, d) ==
  IF m \notin Active THEN Later(age[m], d)
  ELSE IF age[m] = None THEN FirstInterval(m) - Stagger(m)
  ELSE IF Due(m, d) THEN 0 ELSE Later(age[m], d)

Round(d) ==
  /\ fired' = {m \in Active : Due(m, d)}
  /\ age' = [m \in Monitors |-> NextAge(m, d)]
  /\ since' = [m \in Monitors |-> IF m \in fired' THEN 0 ELSE Later(since[m], d)]
  /\ wait' = [m \in Monitors |->
                IF m \in Active \ fired' THEN Later(wait[m], d) ELSE 0]
  /\ calm' = (calm /\ d = 1)
  /\ early' = (early \ fired') \cup {m \in fired' : age[m] = None}
  /\ UNCHANGED <<row, budget>>

(* A probe's result is stored: consecutive_fails is 0 (reset_stats writes  *)
(* that too) or one more.                                                  *)
Outcome(m) ==
  /\ row[m].present
  /\ \/ row' = [row EXCEPT ![m].fails = 0]
     \/ row[m].fails < MaxRetries /\ row' = [row EXCEPT ![m].fails = @ + 1]
  /\ calm' = (calm /\ since[m] # None)
  /\ UNCHANGED <<age, fired, since, wait, early, budget>>

Spend(what) == /\ budget[what] > 0
               /\ budget' = [budget EXCEPT ![what] = @ - 1]

(* A new monitor; restore_json is a series of Destroy and Create, with an  *)
(* interval of Intervals.  The mutant stores max_retries unclamped.        *)
Create_Unclamped(m, i, r) ==
  /\ Spend("ops")
  /\ ~row[m].present /\ age[m] = None
  /\ row' = [row EXCEPT ![m] = [present |-> TRUE, active |-> TRUE, interval |-> i,
                                retries |-> r + 1, fails |-> 0]]
  /\ calm' = FALSE
  /\ UNCHANGED <<age, fired, since, wait, early>>
Create(m, i, r) ==
  /\ Spend("ops")
  /\ ~row[m].present /\ age[m] = None
  /\ row' = [row EXCEPT ![m] = [present |-> TRUE, active |-> TRUE, interval |-> i,
                                retries |-> r, fails |-> 0]]
  /\ calm' = FALSE
  /\ UNCHANGED <<age, fired, since, wait, early>>

Update(m, i, r) ==
  /\ Spend("ops")
  /\ row[m].present
  /\ row' = [row EXCEPT ![m].interval = i, ![m].retries = r]
  /\ calm' = FALSE
  /\ UNCHANGED <<age, fired, since, wait, early>>

(* The tracker keeps its entry while the monitor is paused or deleted. *)
TogglePause(m) ==
  /\ Spend("ops")
  /\ row[m].present
  /\ row' = [row EXCEPT ![m].active = ~@, ![m].fails = 0]
  /\ wait' = [wait EXCEPT ![m] = 0]
  /\ calm' = FALSE
  /\ UNCHANGED <<age, fired, since, early>>

Destroy(m) ==
  /\ Spend("ops")
  /\ row[m].present
  /\ row' = [row EXCEPT ![m].present = FALSE, ![m].active = FALSE, ![m].fails = 0]
  /\ wait' = [wait EXCEPT ![m] = 0]
  /\ calm' = FALSE
  /\ UNCHANGED <<age, fired, since, early>>

(* last_checked is a local of start_scheduler. *)
Restart ==
  /\ Spend("restarts")
  /\ age' = [m \in Monitors |-> None]
  /\ fired' = {}
  /\ since' = [m \in Monitors |-> None]
  /\ wait' = [m \in Monitors |-> 0]
  /\ calm' = TRUE /\ early' = {}
  /\ UNCHANGED row

Next ==
  \/ \E d \in 1..MaxLag : Round(d)
  \/ \E m \in Monitors : Outcome(m)
  \/ \E m \in Monitors, i \in Intervals \cup NewIntervals, r \in 1..MaxRetries :
       Create(m, i, r)
  \/ \E m \in Monitors, i \in Intervals, r \in 1..MaxRetries : Update(m, i, r)
  \/ \E m \in Monitors : TogglePause(m)
  \/ \E m \in Monitors : Destroy(m)
  \/ Restart

Spec == Init /\ [][Next]_vars

(* The loop never ends. *)
FairSpec == Spec /\ WF_vars(\E d \in 1..MaxLag : Round(d))

-----------------------------------------------------------------------------
(* Properties. *)

(* The variables have their types. *)
TypeOK ==
  /\ row \in [Monitors -> Row]
  /\ age \in [Monitors -> Ages \cup {None}]
  /\ fired \subseteq Monitors
  /\ since \in [Monitors -> Ages \cup {None}]
  /\ wait \in [Monitors -> Ages]
  /\ calm \in BOOLEAN /\ early \subseteq Monitors
  /\ budget \in [{"ops", "restarts"} -> Nat]

(* Nobody is forgotten: an active monitor that a round does not spawn has  *)
(* waited less than its effective interval plus one lag, through pauses,   *)
(* restarts, changes of the interval and the switch to fast retries.       *)
Timely ==
  [][\A d \in 1..MaxLag : Round(d) =>
       \A m \in Active \ fired' :
         wait'[m] < (IF age[m] = None THEN FirstInterval(m) ELSE Effective(m))
                      + MaxLag]_vars

(* The interval is kept: the scheduler never spawns a monitor sooner after *)
(* its last spawn than the effective interval.  The one exception is the   *)
(* spawn after a first spawn with stagger 0: that one leaves an instant in *)
(* the tracker that is an interval old, and the next round spawns again.   *)
Spaced ==
  [][(\E d \in 1..MaxLag : Round(d)) =>
       \E d \in 1..MaxLag :
         /\ Round(d)
         /\ \A m \in fired' \ early :
              since[m] # None => Later(since[m], d) >= Effective(m)]_vars

(* After a start, first probes are spread (engine.rs: not all in the same  *)
(* second): undisturbed, two monitors get their first probe in the same    *)
(* round only if three seconds per rowid put them at the same place of     *)
(* their intervals.  Only Steady ones: one that was being retried when the *)
(* process ended, or whose interval create has stored below MinInterval,   *)
(* is given an instant that is already too old for it, and is probed in    *)
(* the second round with all the others of that kind.                      *)
Steady(m) == ~Retrying(m) /\ row[m].interval >= MinInterval
StartupSpread ==
  [][\A m, n \in fired' :
       calm' /\ since[m] = None /\ since[n] = None /\ Steady(m) /\ Steady(n) =>
         (m * StaggerStep) % FirstInterval(m) = (n * StaggerStep) % FirstInterval(n)]_vars

(* A monitor that stays active is spawned again and again, unless create   *)
(* stored a negative interval, which no time that passes ever reaches.     *)
ProbedForever ==
  \A m \in Monitors :
    <>[](m \in Active /\ row[m].interval >= 0) => []<>(m \in fired)
=============================================================================
