---------------------------- MODULE ProbePipeline ----------------------------
(***************************************************************************)
(* The probe pipeline of UptimePulse: what happens between "this monitor   *)
(* is due" and "the operator has been told".  A tokio task, spawned by the *)
(* scheduler or by an admin request, runs run_probe_and_record_cfg of      *)
(* src/engine.rs:                                                          *)
(*                                                                         *)
(*   probe  -> Heartbeat::record -> Incident::process_probe                *)
(*          -> TelegramSettings::notify_* -> event broadcast               *)
(*                                                                         *)
(* Each arrow is an await: the SQLite connection sits behind one tokio     *)
(* Mutex which is taken and released once per stage, so any number of      *)
(* tasks (also of the same monitor), the scheduler and the admin handlers  *)
(* interleave between the stages, and an admin request that is dropped by  *)
(* its client stops its task at the await it is in.  The database survives *)
(* a restart; tasks and the scheduler's snapshot do not.                   *)
(*                                                                         *)
(* Data kept abstract: a monitor's configuration is its max_retries and    *)
(* is_active; an incident is its identity (resolved rows are history that  *)
(* nothing here reads).  The heartbeats are not here: no stage reads them, *)
(* and prune and a failing INSERT make them fewer than the probes that     *)
(* were counted (Retention.tla).  When a monitor falls due is              *)
(* Scheduler.tla's subject: here a tick may find any set of active         *)
(* monitors due.                                                           *)
(***************************************************************************)
EXTENDS Integers, FiniteSets

CONSTANTS
  Monitors,      \* rowids the monitors table ever hands out (AUTOINCREMENT)
  NoMonitor,     \* not a rowid
  Tasks,         \* bound on tokio tasks alive at once
  IncidentIds,   \* identities of open incidents and of pending alerts
  NoIncident,    \* not an incident
  MaxRetries,    \* upper clamp of max_retries; 10 in the code
  FailCap,       \* consecutive_fails saturates here (it is only compared)
  MaxFlips,      \* bound: changes of a target's health
  MaxOps,        \* bound: admin operations
  MaxFaults,     \* bound: failing SQLite statements
  MaxCancels,    \* bound: dropped request futures
  MaxRestarts    \* bound: crashes and restarts of the process

ASSUME ConstantsAssumption ==
  /\ NoMonitor \notin Monitors
  /\ NoIncident \notin IncidentIds
  /\ MaxRetries \in Nat \ {0}
  /\ FailCap \in Nat /\ FailCap >= MaxRetries
  /\ MaxFlips \in Nat /\ MaxOps \in Nat /\ MaxFaults \in Nat
  /\ MaxCancels \in Nat /\ MaxRestarts \in Nat

VARIABLES
  mon,         \* the monitors table
  streak,      \* history: failed probes in a row since the row was cleared
  openOn,      \* incident id -> the monitor it is open on, or NoMonitor
  downAlert,   \* history: what became of an open incident's DOWN alert
  telegramOn,  \* settings: telegram_enabled
  health,      \* the real state of the target (TRUE: it answers)
  task,        \* the tasks running run_probe_and_record_cfg
  due,         \* monitors of the scheduler's snapshot still to be spawned
  budget       \* what is left of the bounds

db   == <<mon, streak, openOn, downAlert, telegramOn>>
vars == <<mon, streak, openOn, downAlert, telegramOn, health, task, due, budget>>

Retries == 1..MaxRetries
Verdicts == {"up", "retrying", "down"}
Statuses == Verdicts \cup {"pending", "paused"}

MonitorRow == [row: {"absent", "present", "deleted"}, status: Statuses,
               fails: 0..FailCap, retries: Retries, active: BOOLEAN]

(* "spawned" by tokio::spawn, or run inside the future of a "request".     *)
TaskRecord == [pc: {"idle", "probe", "record", "process", "notify", "send",
                    "broadcast"},
               mon: Monitors \cup {NoMonitor},
               kind: {"spawned", "request"},
               up: BOOLEAN,              \* ProbeResult.is_up
               status: Verdicts,         \* what record returned ...
               enough: BOOLEAN,          \* ... and whether its fails >= max
               alert: {"none", "down", "recovery"},
               inc: IncidentIds \cup {NoIncident}]

Idle == [pc |-> "idle", mon |-> NoMonitor, kind |-> "spawned", up |-> FALSE,
         status |-> "up", enough |-> FALSE, alert |-> "none",
         inc |-> NoIncident]

NewRow(r, act) == [row |-> "present", status |-> "pending", fails |-> 0,
                   retries |-> r, active |-> act]
NoRow(state) == [row |-> state, status |-> "pending", fails |-> 0,
                 retries |-> 1, active |-> FALSE]

Present(m) == mon[m].row = "present"
Active == {m \in Monitors : Present(m) /\ mon[m].active}
OpenOf(m) == {i \in IncidentIds : openOn[i] = m}
Carried == {task[t].inc : t \in Tasks}
Fresh == {i \in IncidentIds : openOn[i] = NoMonitor /\ i \notin Carried}

Init ==
  /\ mon = [m \in Monitors |-> NoRow("absent")]
  /\ streak = [m \in Monitors |-> 0]
  /\ openOn = [i \in IncidentIds |-> NoMonitor]
  /\ downAlert = [i \in IncidentIds |-> "none"]
  /\ telegramOn \in BOOLEAN
  /\ health \in [Monitors -> BOOLEAN]
  /\ task = [t \in Tasks |-> Idle]
  /\ due = {}
  /\ budget = [flips |-> MaxFlips, ops |-> MaxOps, faults |-> MaxFaults,
               cancels |-> MaxCancels, restarts |-> MaxRestarts]

Spend(what) == /\ budget[what] > 0
               /\ budget' = [budget EXCEPT ![what] = @ - 1]

(* A statement fails (disk full, I/O error) or does not. *)
Faulty(e) == IF e = "none" THEN UNCHANGED budget ELSE Spend("faults")

(* UPDATE monitors ... WHERE id = m; a task moves on. *)
SetRow(m, r) == mon' = [mon EXCEPT ![m] = r]
SetTask(t, r) == task' = [task EXCEPT ![t] = r]
Clear(m) == streak' = [streak EXCEPT ![m] = 0]

-----------------------------------------------------------------------------
(* The environment and the operator. *)

HealthFlip(m) ==
  /\ Spend("flips")
  /\ health' = [health EXCEPT ![m] = ~@]
  /\ UNCHANGED <<db, task, due>>

(* Entering run_probe_and_record_cfg for monitor m. *)
Start(t, m, kind) ==
  /\ task[t].pc = "idle"
  /\ SetTask(t, [Idle EXCEPT !.pc = "probe", !.mon = m, !.kind = kind])

(* Closes every open incident of the monitors in S: they are deleted, with *)
(* their monitor by ON DELETE CASCADE or by reset_stats.                   *)
Purge(S) ==
  LET gone == {i \in IncidentIds : openOn[i] \in S}
  IN /\ openOn' = [i \in IncidentIds |->
                     IF i \in gone THEN NoMonitor ELSE openOn[i]]
     /\ downAlert' = [i \in IncidentIds |->
                        IF i \in gone THEN "none" ELSE downAlert[i]]

Store(m, r, t) ==
  /\ Spend("ops")
  /\ mon[m].row = "absent"
  /\ SetRow(m, NewRow(r, TRUE))
  /\ Start(t, m, "spawned")
  /\ UNCHANGED <<streak, openOn, downAlert, telegramOn, health, due>>

(* Also on a paused monitor; status and consecutive_fails stay. *)
Update(m, r, t) ==
  /\ Spend("ops")
  /\ Present(m)
  /\ SetRow(m, [mon[m] EXCEPT !.retries = r])
  /\ Start(t, m, "spawned")
  /\ UNCHANGED <<streak, openOn, downAlert, telegramOn, health, due>>

(* Mutant: foreign keys off, the incidents of a deleted monitor stay. *)
Destroy_NoCascade(m) ==
  /\ Spend("ops")
  /\ Present(m)
  /\ SetRow(m, NoRow("deleted")) /\ Clear(m)
  /\ UNCHANGED <<openOn, downAlert, telegramOn, health, task, due>>

Destroy(m) ==
  /\ Spend("ops")
  /\ Present(m)
  /\ SetRow(m, NoRow("deleted")) /\ Clear(m)
  /\ Purge({m})
  /\ UNCHANGED <<telegramOn, health, task, due>>

(* Mutant: resuming writes a status no reader knows. *)
TogglePause_NewStatus(m) ==
  /\ Spend("ops")
  /\ Present(m)
  /\ SetRow(m, [mon[m] EXCEPT !.active = ~@, !.fails = 0,
                  !.status = IF mon[m].active THEN "paused" ELSE "active"])
  /\ Clear(m)
  /\ UNCHANGED <<openOn, downAlert, telegramOn, health, task, due>>

(* Open incidents are left alone. *)
TogglePause(m) ==
  /\ Spend("ops")
  /\ Present(m)
  /\ SetRow(m, [mon[m] EXCEPT !.active = ~@, !.fails = 0,
                  !.status = IF mon[m].active THEN "paused" ELSE "pending"])
  /\ Clear(m)
  /\ UNCHANGED <<openOn, downAlert, telegramOn, health, task, due>>

(* Deleting the heartbeats, the daily rows and the incidents and writing   *)
(* the row are statements without a transaction: one may fail, and those   *)
(* after it are not executed.                                              *)
ResetWith(m, row) ==
  \E failed \in {"none", "incidents", "row"} :
    LET fault == IF failed = "none" THEN 0 ELSE 1
    IN /\ budget.ops > 0 /\ budget.faults >= fault
       /\ budget' = [budget EXCEPT !.ops = @ - 1, !.faults = @ - fault]
       /\ Present(m)
       /\ IF failed = "incidents" THEN UNCHANGED <<openOn, downAlert>>
                                  ELSE Purge({m})
       /\ IF failed = "none" THEN SetRow(m, row) /\ Clear(m)
                             ELSE UNCHANGED <<mon, streak>>
       /\ UNCHANGED <<telegramOn, health, task, due>>

(* Mutants: the history goes, the counter or the status of the row stays.  *)
Reset_KeepsCounter(m) == ResetWith(m, [mon[m] EXCEPT !.status = "pending"])
Reset_KeepsStatus(m) == ResetWith(m, [mon[m] EXCEPT !.fails = 0])

Reset(m) == ResetWith(m, [mon[m] EXCEPT !.fails = 0, !.status = "pending"])

(* The manual check runs in the future of its HTTP request. *)
Check(m, t) ==
  /\ Spend("ops")
  /\ Present(m)
  /\ Start(t, m, "request")
  /\ UNCHANGED <<db, health, due>>

(* One transaction: "replace" deletes every monitor first; the monitors of *)
(* the backup get new ids and no probe; its settings overwrite ours.       *)
Restore(replace, new, r, act) ==
  LET gone == {m \in Monitors : replace /\ Present(m)}
  IN /\ Spend("ops")
     /\ \A m \in new : mon[m].row = "absent"
     /\ mon' = [m \in Monitors |-> IF m \in gone THEN NoRow("deleted")
                                   ELSE IF m \in new THEN NewRow(r, act)
                                   ELSE mon[m]]
     /\ streak' = [m \in Monitors |-> IF m \in gone THEN 0 ELSE streak[m]]
     /\ Purge(gone)
     /\ telegramOn' \in BOOLEAN
     /\ UNCHANGED <<health, task, due>>

SaveTelegram ==
  /\ Spend("ops")
  /\ telegramOn' = ~telegramOn
  /\ UNCHANGED <<mon, streak, openOn, downAlert, health, task, due>>

-----------------------------------------------------------------------------
(* The scheduler: one tick reads the table, then spawns what is due.       *)

(* Mutant: a monitor that is down is not probed any more. *)
SchedTick_SkipsDown ==
  /\ due = {}
  /\ due' \in SUBSET {m \in Active : mon[m].status # "down"}
  /\ UNCHANGED <<db, health, task, budget>>

SchedTick ==
  /\ due = {}
  /\ due' \in SUBSET Active
  /\ UNCHANGED <<db, health, task, budget>>

(* The row may have been paused, reset or deleted since the snapshot. *)
SchedSpawn(m, t) ==
  /\ m \in due
  /\ due' = due \ {m}
  /\ Start(t, m, "spawned")
  /\ UNCHANGED <<db, health, budget>>

-----------------------------------------------------------------------------
(* A task, stage by stage. *)

Probe(t) ==
  /\ task[t].pc = "probe"
  /\ SetTask(t, [task[t] EXCEPT !.pc = "record", !.up = health[task[t].mon]])
  /\ UNCHANGED <<db, health, due, budget>>

Bump(n) == IF n < FailCap THEN n + 1 ELSE n

(* SELECT max_retries, consecutive_fails ... unwrap_or((3, 0)): also when  *)
(* the row is gone or the read fails.                                      *)
CounterRead(m, ok) ==
  IF ok /\ Present(m) THEN [max |-> mon[m].retries, fails |-> mon[m].fails]
                      ELSE [max |-> 3, fails |-> 0]

(* Mutants: down one failure early; down only exactly at the threshold.    *)
Verdict_Early(up, c) ==
  LET n == IF up THEN 0 ELSE Bump(c.fails)
  IN [status |-> IF up THEN "up" ELSE IF n + 1 >= c.max THEN "down" ELSE "retrying",
      fails |-> n, max |-> c.max]
Verdict_Equal(up, c) ==
  LET n == IF up THEN 0 ELSE Bump(c.fails)
  IN [status |-> IF up THEN "up" ELSE IF n = c.max THEN "down" ELSE "retrying",
      fails |-> n, max |-> c.max]

Verdict(up, c) ==
  LET n == IF up THEN 0 ELSE Bump(c.fails)
  IN [status |-> IF up THEN "up" ELSE IF n >= c.max THEN "down" ELSE "retrying",
      fails |-> n, max |-> c.max]

(* What the pipeline goes on with when record returned an error. *)
Fallback(up) == [status |-> IF up THEN "up" ELSE "down", fails |-> 0, max |-> 3]

(* No transaction around the UPDATE and the INSERT; the INSERT fails when  *)
(* the monitor is gone (foreign key).                                      *)
Record(t) ==
  \E e \in {"none", "read", "update", "insert"} :
    LET m == task[t].mon
        v == Verdict(task[t].up, CounterRead(m, e # "read"))
        stored == Present(m) /\ e \notin {"update", "insert"}
        res == IF stored THEN v ELSE Fallback(task[t].up)
    IN /\ task[t].pc = "record"
       /\ Faulty(e)
       /\ IF Present(m) /\ e # "update"
          THEN SetRow(m, [mon[m] EXCEPT !.status = v.status, !.fails = v.fails])
          ELSE UNCHANGED mon
       /\ streak' = IF ~Present(m) \/ (task[t].up /\ e = "update") THEN streak
                    ELSE [streak EXCEPT ![m] = IF task[t].up THEN 0 ELSE Bump(@)]
       /\ SetTask(t, [task[t] EXCEPT !.pc = "process", !.status = res.status,
                                     !.enough = res.fails >= res.max])
       /\ UNCHANGED <<openOn, downAlert, telegramOn, health, due>>

(* Leaves process_probe: with an alert to send, or straight to broadcast.  *)
Processed(t, kind, i) ==
  SetTask(t, [task[t] EXCEPT
                !.pc = IF kind = "none" THEN "broadcast" ELSE "notify",
                !.status = "up", !.enough = FALSE, !.alert = kind,
                !.inc = IF kind = "none" THEN NoIncident ELSE i])

(* Mutant: no look for an incident that is already open. *)
OpenIncident_Again(t) ==
  \E i \in Fresh, e \in {"none", "info"} :
    LET m == task[t].mon
    IN /\ task[t].pc = "process" /\ task[t].status = "down"
       /\ Present(m)
       /\ Faulty(e)
       /\ openOn' = [openOn EXCEPT ![i] = m]
       /\ downAlert' = [downAlert EXCEPT ![i] = IF e = "none" THEN "owed"
                                                              ELSE "dropped"]
       /\ Processed(t, IF e = "none" THEN "down" ELSE "none", i)
       /\ UNCHANGED <<mon, streak, telegramOn, health, due>>

(* SELECT and INSERT under one lock.  A failing look-up of the monitor's   *)
(* name after the INSERT loses the alert.                                  *)
OpenIncident(t) ==
  \E i \in Fresh, e \in {"none", "info"} :
    LET m == task[t].mon
    IN /\ task[t].pc = "process" /\ task[t].status = "down"
       /\ OpenOf(m) = {} /\ Present(m)
       /\ Faulty(e)
       /\ openOn' = [openOn EXCEPT ![i] = m]
       /\ downAlert' = [downAlert EXCEPT ![i] = IF e = "none" THEN "owed"
                                                              ELSE "dropped"]
       /\ Processed(t, IF e = "none" THEN "down" ELSE "none", i)
       /\ UNCHANGED <<mon, streak, telegramOn, health, due>>

(* Mutant: the recovery is announced, resolved_at is not written. *)
ResolveIncident_Unwritten(t) ==
  \E i \in OpenOf(task[t].mon) :
    /\ task[t].pc = "process" /\ task[t].status = "up"
    /\ Processed(t, "recovery", i)
    /\ UNCHANGED <<mon, streak, openOn, downAlert, telegramOn, health, due, budget>>

ResolveIncident(t) ==
  \E i \in OpenOf(task[t].mon), e \in {"none", "info"} :
    /\ task[t].pc = "process" /\ task[t].status = "up"
    /\ Faulty(e)
    /\ openOn' = [openOn EXCEPT ![i] = NoMonitor]
    /\ downAlert' = [downAlert EXCEPT ![i] = "none"]
    /\ Processed(t, IF e = "none" THEN "recovery" ELSE "none", i)
    /\ UNCHANGED <<mon, streak, telegramOn, health, due>>

(* Nothing to do; or the statement fails: for a deleted monitor on the     *)
(* foreign key, else by a fault.                                           *)
ProcessNothing(t) ==
  \E e \in {"none", "statement"} :
    LET m == task[t].mon
    IN /\ task[t].pc = "process"
       /\ Faulty(e)
       /\ e = "none" => CASE task[t].status = "down" ->
                               OpenOf(m) # {} \/ ~Present(m)
                          [] task[t].status = "up" -> OpenOf(m) = {}
                          [] OTHER -> TRUE
       /\ Processed(t, "none", NoIncident)
       /\ UNCHANGED <<db, health, due>>

Handled(t) ==
  downAlert' = IF task[t].alert = "down" /\ openOn[task[t].inc] # NoMonitor
               THEN [downAlert EXCEPT ![task[t].inc] = "handled"]
               ELSE downAlert

Told(t) == SetTask(t, [task[t] EXCEPT !.pc = "broadcast", !.alert = "none",
                                      !.inc = NoIncident])

(* notify_down, notify_recovery: load the settings under the lock ...      *)
NotifyOff(t) ==
  /\ task[t].pc = "notify" /\ ~telegramOn
  /\ Handled(t) /\ Told(t)
  /\ UNCHANGED <<mon, streak, openOn, telegramOn, health, due, budget>>

NotifyOn(t) ==
  /\ task[t].pc = "notify" /\ telegramOn
  /\ SetTask(t, [task[t] EXCEPT !.pc = "send"])
  /\ UNCHANGED <<db, health, due, budget>>

(* ... then one HTTP request without retry: a failure is only logged. *)
Send(t) ==
  /\ task[t].pc = "send"
  /\ Handled(t) /\ Told(t)
  /\ UNCHANGED <<mon, streak, openOn, telegramOn, health, due, budget>>

Broadcast(t) ==
  /\ task[t].pc = "broadcast"
  /\ SetTask(t, Idle)
  /\ UNCHANGED <<db, health, due, budget>>

-----------------------------------------------------------------------------
(* Tasks that end early. *)

(* The DOWN alerts that tasks S take with them when they end. *)
DropAlerts(S) ==
  LET lost == {task[t].inc : t \in {u \in S : task[u].alert = "down"}}
  IN downAlert' = [i \in IncidentIds |->
                     IF i \in lost /\ openOn[i] # NoMonitor THEN "dropped"
                     ELSE downAlert[i]]

(* The client of a manual check disconnects: its future is dropped at the  *)
(* await it is in (network, or waiting for the database lock).             *)
Cancel(t) ==
  /\ Spend("cancels")
  /\ task[t].kind = "request"
  /\ task[t].pc \in {"probe", "record", "process", "notify", "send"}
  /\ DropAlerts({t})
  /\ SetTask(t, Idle)
  /\ UNCHANGED <<mon, streak, openOn, telegramOn, health, due>>

(* The process ends and starts again on the same database file. *)
Restart ==
  /\ Spend("restarts")
  /\ DropAlerts(Tasks)
  /\ task' = [t \in Tasks |-> Idle]
  /\ due' = {}
  /\ UNCHANGED <<mon, streak, openOn, telegramOn, health>>

-----------------------------------------------------------------------------
TaskStep(t) ==
  \/ Probe(t) \/ Record(t)
  \/ OpenIncident(t) \/ ResolveIncident(t) \/ ProcessNothing(t)
  \/ NotifyOff(t) \/ NotifyOn(t) \/ Send(t) \/ Broadcast(t)

Operator ==
  \/ \E m \in Monitors, r \in Retries, t \in Tasks : Store(m, r, t)
  \/ \E m \in Monitors, r \in Retries, t \in Tasks : Update(m, r, t)
  \/ \E m \in Monitors : Destroy(m)
  \/ \E m \in Monitors : TogglePause(m)
  \/ \E m \in Monitors : Reset(m)
  \/ \E m \in Monitors, t \in Tasks : Check(m, t)
  \/ \E replace, act \in BOOLEAN, new \in SUBSET Monitors, r \in Retries :
       Restore(replace, new, r, act)
  \/ SaveTelegram

Next ==
  \/ \E m \in Monitors : HealthFlip(m)
  \/ Operator
  \/ SchedTick
  \/ \E m \in Monitors, t \in Tasks : SchedSpawn(m, t)
  \/ \E t \in Tasks : TaskStep(t)
  \/ \E t \in Tasks : Cancel(t)
  \/ Restart

Spec == Init /\ [][Next]_vars

(* Tasks are polled by tokio until they end and every await in them has a  *)
(* timeout; the scheduler loop never ends.  An active monitor is picked    *)
(* again and again because its interval keeps elapsing: strong fairness,   *)
(* since the loop may be busy with the rest of a snapshot in between.      *)
(* Nothing is assumed of operators, faults, cancellations and restarts.    *)
Fairness ==
  /\ \A t \in Tasks : WF_vars(TaskStep(t))
  /\ \A m \in Monitors : SF_vars(SchedTick /\ m \in due')
  /\ \A m \in Monitors : WF_vars(\E t \in Tasks : SchedSpawn(m, t))

FairSpec == Spec /\ Fairness

-----------------------------------------------------------------------------
(* Properties. *)

(* The variables have their types. *)
TypeOK ==
  /\ mon \in [Monitors -> MonitorRow]
  /\ streak \in [Monitors -> 0..FailCap]
  /\ openOn \in [IncidentIds -> Monitors \cup {NoMonitor}]
  /\ downAlert \in [IncidentIds -> {"none", "owed", "handled", "dropped"}]
  /\ telegramOn \in BOOLEAN
  /\ health \in [Monitors -> BOOLEAN]
  /\ task \in [Tasks -> TaskRecord]
  /\ due \subseteq Monitors
  /\ budget \in [{"flips", "ops", "faults", "cancels", "restarts"} -> Nat]

(* A monitor has at most one unresolved incident, and only an existing     *)
(* monitor has one, however many tasks report on it and whatever the       *)
(* operator deletes meanwhile (process_probe, ON DELETE CASCADE).          *)
AtMostOneOpen ==
  \A m \in Monitors : \A i, j \in OpenOf(m) : i = j /\ Present(m)

(* No incident is announced twice: two tasks never hold the same alert, a  *)
(* RECOVERY is only in flight once its incident is closed, and a DOWN that *)
(* is still owed has exactly the one task that will send it.               *)
AlertOwnership ==
  /\ \A t, u \in Tasks :
       task[t].alert # "none" /\ task[u].alert = task[t].alert
         /\ task[u].inc = task[t].inc => t = u
  /\ \A t \in Tasks : task[t].alert = "recovery" =>
                        openOn[task[t].inc] = NoMonitor
  /\ \A i \in IncidentIds : downAlert[i] = "owed" =>
       \E t \in Tasks : task[t].alert = "down" /\ task[t].inc = i

(* Whatever statements fail and however many tasks record at once, status  *)
(* and consecutive_fails agree, and the counter never exceeds the number   *)
(* of probes that failed in a row since the row was cleared: by a success  *)
(* that could be written, a pause, a resume or a complete reset.  As long  *)
(* as no statement fails no failure is forgotten either (record reads and  *)
(* writes the counter under one lock).                                     *)
CounterBacked ==
  \A m \in Monitors :
    /\ mon[m].status \in {"down", "retrying"} <=> mon[m].fails > 0
    /\ mon[m].fails <= streak[m]
    /\ budget.faults = MaxFaults => mon[m].fails = streak[m]

(* Once nothing is in flight for a monitor, its status and its incidents   *)
(* tell the same story: "up" has no open incident, "down" has one.         *)
SettledAgreement ==
  \A m \in Monitors :
    (\A t \in Tasks : task[t].mon # m) =>
      /\ mon[m].status = "up" => OpenOf(m) = {}
      /\ mon[m].status = "down" => OpenOf(m) # {}

(* The step opens incidents only for a task that counted max_retries       *)
(* failures in a row.                                                      *)
OpensAtThreshold ==
  \A i \in IncidentIds :
    openOn[i] = NoMonitor /\ openOn'[i] # NoMonitor =>
      \E t \in Tasks : /\ task[t].pc = "process" /\ task'[t].pc # "process"
                       /\ task[t].mon = openOn'[i] /\ task[t].enough

(* As long as no statement has failed, no incident is opened before        *)
(* max_retries failures in a row were recorded, however probes, resets and *)
(* changes of max_retries interleave between record and process_probe.     *)
OpenedAboveThreshold ==
  [][budget.faults = MaxFaults => OpensAtThreshold]_vars

(* A target that stays down while its monitor stays active ends up with an *)
(* incident that stays open ...                                            *)
OutageDetected ==
  \A m \in Monitors :
    <>[](m \in Active /\ ~health[m]) => <>[](OpenOf(m) # {})

(* ... and one that stays up ends with status "up" and no open incident.   *)
RecoveryDetected ==
  \A m \in Monitors :
    <>[](m \in Active /\ health[m]) =>
      <>[](OpenOf(m) = {} /\ mon[m].status = "up")

(* A notice of the ledger is an alert that some task carries. *)
Notices == {<<task[t].alert, task[t].inc>> :
              t \in {u \in Tasks : task[u].alert # "none"}}
Ledger == INSTANCE IncidentLedger WITH notices <- Notices

(* The pipeline, with all its stages, tasks, faults and restarts,          *)
(* implements the ledger: process_probe opens an incident only where none  *)
(* is open, and each opening and closing is announced at most once.        *)
LedgerImplemented == Ledger!Spec
=============================================================================
