------------------------------ MODULE Retention ------------------------------
(***************************************************************************)
(* How the history of one monitor ages: raw heartbeats, their daily        *)
(* aggregates, the prune that turns the one into the other                 *)
(* (prune_old_records in src/database.rs, run by the worker of             *)
(* src/engine.rs at start and every six hours, and by an admin at any      *)
(* time), and the daily timeline read from both (get_daily_buckets).       *)
(* The tables are keyed by monitor, so one monitor stands for all.         *)
(*                                                                         *)
(* Time is cut into slots, one worker period each; SlotsPerDay of them     *)
(* make a calendar day.  One heartbeat per slot stands for all of it.      *)
(* A prune is one lock acquisition but no transaction: each statement      *)
(* commits by itself, so an error or a crash leaves a prefix of them done. *)
(***************************************************************************)
EXTENDS Integers, FiniteSets

CONSTANTS
  SlotsPerDay,    \* 4 in the code (24 h / 6 h)
  RawDays,        \* RAW_HEARTBEAT_RETENTION_DAYS; 7 in the code
  RetentionDays,  \* --retention; default 90
  TimelineDays,   \* days of the timeline; 90 in the code
  Horizon,        \* bound: last slot
  MaxFaults,      \* bound: prunes that fail or are cut off by a crash
  MaxStops,       \* bound: times the process stops
  MaxOps          \* bound: admin operations

ASSUME RetentionAssumption ==
  /\ SlotsPerDay \in Nat \ {0} /\ RawDays \in Nat \ {0}
  /\ RetentionDays \in Nat /\ TimelineDays \in Nat \ {0} /\ Horizon \in Nat
  /\ MaxFaults \in Nat /\ MaxStops \in Nat /\ MaxOps \in Nat

VARIABLES
  now,      \* current slot
  raw,      \* heartbeats: slot -> result, or "none"
  daily,    \* heartbeat_daily: day -> counts, or NoRow
  truth,    \* history: every result recorded since the last reset
  running,  \* the process is up
  worker,   \* the worker has pruned since the start or in this slot
  clean,    \* a whole prune has succeeded in this slot
  budget    \* what is left of the bounds

vars == <<now, raw, daily, truth, running, worker, clean, budget>>

Slots == 0..Horizon
Day(s) == s \div SlotsPerDay
Days == 0..Day(Horizon)
Today == Day(now)
Results == {"none", "up", "down"}

NoRow == [total |-> 0, up |-> 0]
Counts == [total: 0..SlotsPerDay, up: 0..SlotsPerDay]

(* COUNT and SUM(is_up) of the rows of day d in a history. *)
CountOf(hist, d) ==
  LET rows == {s \in Slots : Day(s) = d /\ hist[s] # "none"}
  IN [total |-> Cardinality(rows),
      up |-> Cardinality({s \in rows : hist[s] = "up"})]

Init ==
  /\ now = 0
  /\ raw = [s \in Slots |-> "none"]
  /\ truth = raw
  /\ daily = [d \in Days |-> NoRow]
  /\ running = TRUE /\ worker = FALSE /\ clean = FALSE
  /\ budget = [faults |-> MaxFaults, stops |-> MaxStops, ops |-> MaxOps]

Spend(what) == /\ budget[what] > 0
               /\ budget' = [budget EXCEPT ![what] = @ - 1]

-----------------------------------------------------------------------------
(* The statements of a prune. *)

(* Mutant: the upsert adds to the row instead of replacing it. *)
Rollup_Adds(rs, ds) ==
  [d \in Days |-> IF d < Today
                  THEN [total |-> ds[d].total + CountOf(rs, d).total,
                        up |-> ds[d].up + CountOf(rs, d).up]
                  ELSE ds[d]]
(* rollup_daily_aggregates: every past day that still has raw rows is      *)
(* counted again and upserted.                                             *)
Rollup(rs, ds) ==
  [d \in Days |-> IF d < Today /\ CountOf(rs, d).total > 0 THEN CountOf(rs, d)
                                                           ELSE ds[d]]

(* Mutant: the cut-off is a day late. *)
DeleteRaw_EarlyCut(rs) ==
  [s \in Slots |-> IF s < now - (RawDays - 1) * SlotsPerDay THEN "none" ELSE rs[s]]
(* The cut-off is RawDays before this moment, not before midnight. *)
DeleteRaw(rs) ==
  [s \in Slots |-> IF s < now - RawDays * SlotsPerDay THEN "none" ELSE rs[s]]

(* Mutant: aggregates are kept for ever. *)
PurgeDaily_Never(ds) == ds
PurgeDaily(ds) ==
  [d \in Days |-> IF d < Today - RetentionDays THEN NoRow ELSE ds[d]]

(* Mutant: raw rows go before they are counted. *)
Statements_DeleteFirst(k) ==
  LET rs == IF k >= 1 THEN DeleteRaw(raw) ELSE raw
      ds == IF k >= 2 THEN Rollup(rs, daily) ELSE daily
  IN /\ raw' = rs
     /\ daily' = IF k >= 3 THEN PurgeDaily(ds) ELSE ds
(* The first k of: rollup, delete raw rows, delete old aggregates. *)
Statements(k) ==
  LET ds == IF k >= 1 THEN Rollup(raw, daily) ELSE daily
  IN /\ raw' = IF k >= 2 THEN DeleteRaw(raw) ELSE raw
     /\ daily' = IF k >= 3 THEN PurgeDaily(ds) ELSE ds

Prune(k, ops) ==
  LET fault == IF k < 3 THEN 1 ELSE 0
  IN /\ running
     /\ budget.ops >= ops /\ budget.faults >= fault
     /\ Statements(k)
     /\ clean' = (clean \/ k = 3)
     /\ budget' = [budget EXCEPT !.ops = @ - ops, !.faults = @ - fault]
     /\ UNCHANGED <<now, truth, running>>

WorkerPrune(k) == ~worker /\ worker' = TRUE /\ Prune(k, 0)

(* prune_db, at any time. *)
ManualPrune(k) == worker' = worker /\ Prune(k, 1)

-----------------------------------------------------------------------------
Heartbeat(result) ==
  /\ running /\ raw[now] = "none"
  /\ raw' = [raw EXCEPT ![now] = result]
  /\ truth' = [truth EXCEPT ![now] = result]
  /\ UNCHANGED <<now, daily, running, worker, clean, budget>>

(* reset_stats, and deleting the monitor: both forget everything.  (A      *)
(* reset_stats that fails half-way is in ProbePipeline.)                   *)
Reset ==
  /\ Spend("ops") /\ running
  /\ raw' = [s \in Slots |-> "none"]
  /\ truth' = raw'
  /\ daily' = [d \in Days |-> NoRow]
  /\ UNCHANGED <<now, running, worker, clean>>

(* The next slot begins: a running worker has had its turn. *)
Advance ==
  /\ now < Horizon
  /\ running => worker
  /\ now' = now + 1
  /\ worker' = FALSE /\ clean' = FALSE
  /\ UNCHANGED <<raw, daily, truth, running, budget>>

Stop ==
  /\ running /\ Spend("stops")
  /\ running' = FALSE
  /\ UNCHANGED <<now, raw, daily, truth, worker, clean>>

(* The worker prunes first thing after a start. *)
Start ==
  /\ ~running
  /\ running' = TRUE /\ worker' = FALSE /\ clean' = FALSE
  /\ UNCHANGED <<now, raw, daily, truth, budget>>

Next ==
  \/ \E k \in 0..3 : WorkerPrune(k)
  \/ \E k \in 0..3 : ManualPrune(k)
  \/ \E result \in {"up", "down"} : Heartbeat(result)
  \/ Reset
  \/ Advance
  \/ Stop
  \/ Start

Spec == Init /\ [][Next]_vars

-----------------------------------------------------------------------------
(* get_daily_buckets: aggregates of the timeline's days, overridden by     *)
(* what the raw rows of the last RawDays give.                             *)
Visible == [s \in Slots |-> IF s >= now - RawDays * SlotsPerDay THEN raw[s] ELSE "none"]

Timeline(d) ==
  IF CountOf(Visible, d).total > 0 THEN CountOf(Visible, d)
  ELSE IF d > Today - TimelineDays THEN daily[d] ELSE NoRow

(* Days the timeline should know about. *)
Shown == {d \in Days : /\ d <= Today
                       /\ d > Today - TimelineDays /\ d >= Today - RetentionDays}

(* Properties. *)

(* The variables have their types; no aggregate counts more than a day.    *)
TypeOK ==
  /\ now \in Slots
  /\ raw \in [Slots -> Results] /\ truth \in [Slots -> Results]
  /\ daily \in [Days -> Counts]
  /\ running \in BOOLEAN /\ worker \in BOOLEAN /\ clean \in BOOLEAN
  /\ budget \in [{"faults", "stops", "ops"} -> Nat]

(* No day is lost: a day with heartbeats still has a bucket, through       *)
(* failing prunes and downtimes longer than the raw window (once the       *)
(* worker's first prune after the start is over).                          *)
NoDayLost ==
  running /\ clean =>
    \A d \in Shown : CountOf(truth, d).total > 0 => Timeline(d).total > 0

(* Counts c claim no good and no bad check that counts t do not.           *)
Within(c, t) == c.up <= t.up /\ c.total - c.up <= t.total - t.up

(* The timeline is honest: it never shows more good or more bad checks of  *)
(* a day than were recorded, however often the day was rolled up again,    *)
(* from however much of it was left; and a day whose rows are all still in *)
(* the raw window is counted exactly.                                      *)
TimelineHonest ==
  \A d \in Shown :
    /\ Within(Timeline(d), CountOf(truth, d))
    /\ d * SlotsPerDay >= now - RawDays * SlotsPerDay => Timeline(d) = CountOf(truth, d)

(* After a whole prune no raw row is older than the raw window, and an     *)
(* aggregate older than --retention is only one whose raw rows are still   *)
(* there to be counted again (a retention shorter than the raw window).    *)
StorageBounded ==
  clean => /\ \A s \in Slots : raw[s] # "none" => s >= now - RawDays * SlotsPerDay
           /\ \A d \in Days : daily[d] # NoRow =>
                 d >= Today - RetentionDays \/ CountOf(raw, d).total > 0

(* The timeline is complete: every day it shows has all its checks.        *)
TimelineComplete == \A d \in Shown : Timeline(d) = CountOf(truth, d)
=============================================================================
