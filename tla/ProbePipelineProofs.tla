------------------------- MODULE ProbePipelineProofs -------------------------
(* Theorems about ProbePipeline for every value of its constants. *)
EXTENDS ProbePipeline, TLAPS

(* A task that runs has a monitor, and it holds an incident exactly while  *)
(* it has an alert to send.                                                *)
WellFormed(r) ==
  /\ r.pc # "idle" => r.mon \in Monitors
  /\ r.alert # "none" <=> r.pc \in {"notify", "send"}
  /\ r.alert # "none" <=> r.inc \in IncidentIds

TaskShape == \A t \in Tasks : WellFormed(task[t])

Typed == TypeOK /\ TaskShape

-----------------------------------------------------------------------------
(* Lemmas about the operators the actions are built from. *)

LEMMA BumpBound ==
  ASSUME NEW n \in 0..FailCap
  PROVE  Bump(n) \in 1..FailCap /\ Bump(n) >= n /\ Bump(n) <= n + 1
  BY ConstantsAssumption DEF Bump

LEMMA IdleTyped == Idle \in TaskRecord /\ WellFormed(Idle)
  BY ConstantsAssumption DEF Idle, TaskRecord, WellFormed, Verdicts

LEMMA SetTaskTyped ==
  ASSUME Typed, NEW t \in Tasks, NEW r \in TaskRecord, WellFormed(r), SetTask(t, r)
  PROVE  task' \in [Tasks -> TaskRecord] /\ TaskShape'
  BY DEF Typed, TypeOK, TaskShape, SetTask

LEMMA SetRowTyped ==
  ASSUME Typed, NEW m \in Monitors, NEW r \in MonitorRow, SetRow(m, r)
  PROVE  mon' \in [Monitors -> MonitorRow]
  BY DEF Typed, TypeOK, SetRow

LEMMA StartTyped ==
  ASSUME Typed, NEW t \in Tasks, NEW m \in Monitors,
         NEW kind \in {"spawned", "request"}, Start(t, m, kind)
  PROVE  task' \in [Tasks -> TaskRecord] /\ TaskShape'
<1> DEFINE r == [Idle EXCEPT !.pc = "probe", !.mon = m, !.kind = kind]
<1>1. r \in TaskRecord /\ WellFormed(r)
  BY ConstantsAssumption DEF Idle, TaskRecord, WellFormed, Verdicts
<1> QED BY <1>1, SetTaskTyped DEF Start

LEMMA RowsTyped ==
  /\ \A r \in Retries, act \in BOOLEAN : NewRow(r, act) \in MonitorRow
  /\ \A state \in {"absent", "deleted"} : NoRow(state) \in MonitorRow
  BY ConstantsAssumption DEF NewRow, NoRow, MonitorRow, Retries, Statuses, Verdicts

LEMMA PurgeTyped ==
  ASSUME Typed, NEW S \in SUBSET Monitors, Purge(S)
  PROVE  /\ openOn' \in [IncidentIds -> Monitors \cup {NoMonitor}]
         /\ downAlert' \in [IncidentIds -> {"none", "owed", "handled", "dropped"}]
  BY DEF Typed, TypeOK, Purge

LEMMA BudgetTyped ==
  ASSUME Typed
  PROVE  /\ \A w \in {"flips", "ops", "faults", "cancels", "restarts"} :
              Spend(w) => /\ budget' \in [{"flips", "ops", "faults", "cancels",
                                          "restarts"} -> Nat]
         /\ \A e : Faulty(e) => budget' \in [{"flips", "ops", "faults", "cancels",
                                             "restarts"} -> Nat]
  BY DEF Typed, TypeOK, Spend, Faulty

LEMMA ProcessedTyped ==
  ASSUME Typed, NEW t \in Tasks, NEW kind \in {"none", "down", "recovery"},
         NEW i, kind # "none" => i \in IncidentIds,
         task[t].pc = "process", Processed(t, kind, i)
  PROVE  task' \in [Tasks -> TaskRecord] /\ TaskShape'
<1> DEFINE r == [task[t] EXCEPT
                   !.pc = IF kind = "none" THEN "broadcast" ELSE "notify",
                   !.status = "up", !.enough = FALSE, !.alert = kind,
                   !.inc = IF kind = "none" THEN NoIncident ELSE i]
<1>1. task[t] \in TaskRecord /\ task[t].mon \in Monitors /\ "up" \in Verdicts
  BY DEF Typed, TypeOK, TaskShape, WellFormed, Verdicts
<1>2. CASE kind = "none"
  <2>1. r \in TaskRecord /\ WellFormed(r)
    BY <1>1, <1>2, ConstantsAssumption DEF TaskRecord, WellFormed
  <2> QED BY <2>1, SetTaskTyped DEF Processed
<1>3. CASE kind # "none"
  <2>1. r \in TaskRecord /\ WellFormed(r)
    BY <1>1, <1>3, ConstantsAssumption DEF TaskRecord, WellFormed
  <2> QED BY <2>1, SetTaskTyped DEF Processed
<1> QED BY <1>2, <1>3

LEMMA ToldTyped ==
  ASSUME Typed, NEW t \in Tasks, task[t].pc # "idle", Told(t)
  PROVE  task' \in [Tasks -> TaskRecord] /\ TaskShape'
<1> DEFINE r == [task[t] EXCEPT !.pc = "broadcast", !.alert = "none",
                                !.inc = NoIncident]
<1>1. task[t] \in TaskRecord /\ WellFormed(task[t])
  BY DEF Typed, TypeOK, TaskShape
<1>2. r \in TaskRecord
  BY <1>1, ConstantsAssumption DEF TaskRecord
<1>3. WellFormed(r)
  BY <1>1, ConstantsAssumption DEF TaskRecord, WellFormed
<1> QED BY <1>2, <1>3, SetTaskTyped DEF Told

(* What record computes for a typed state. *)
LEMMA VerdictTyped ==
  ASSUME Typed, NEW m \in Monitors, NEW up \in BOOLEAN, NEW ok \in BOOLEAN
  PROVE  LET v == Verdict(up, CounterRead(m, ok))
         IN v.status \in Verdicts /\ v.fails \in 0..FailCap
<1>1. CounterRead(m, ok).fails \in 0..FailCap
  BY ConstantsAssumption DEF CounterRead, Typed, TypeOK, MonitorRow
<1>2. Bump(CounterRead(m, ok).fails) \in 0..FailCap
  BY <1>1, BumpBound
<1> QED BY <1>2, ConstantsAssumption DEF Verdict, Verdicts
-----------------------------------------------------------------------------
(* Type correctness. *)

LEMMA InitTyped == Init => Typed
  BY ConstantsAssumption, IdleTyped, RowsTyped DEF Init, Typed, TypeOK, TaskShape

LEMMA OperatorTyped == Typed /\ Operator => Typed'
<1> SUFFICES ASSUME Typed, Operator PROVE Typed'
    OBVIOUS
<1>1. ASSUME NEW m \in Monitors, NEW r \in Retries, NEW t \in Tasks, Store(m, r, t)
      PROVE Typed'
  BY <1>1, StartTyped, SetRowTyped, RowsTyped, BudgetTyped
     DEF Store, Typed, TypeOK
<1>2. ASSUME NEW m \in Monitors, NEW r \in Retries, NEW t \in Tasks, Update(m, r, t)
      PROVE Typed'
  <2>1. [mon[m] EXCEPT !.retries = r] \in MonitorRow
    BY DEF Typed, TypeOK, MonitorRow
  <2> QED BY <1>2, <2>1, StartTyped, SetRowTyped, BudgetTyped
          DEF Update, Typed, TypeOK
<1>3. ASSUME NEW m \in Monitors, Destroy(m) PROVE Typed'
  <2>1. mon' \in [Monitors -> MonitorRow]
    BY <1>3, SetRowTyped, RowsTyped DEF Destroy
  <2>2. streak' \in [Monitors -> 0..FailCap]
    BY <1>3, ConstantsAssumption DEF Destroy, Clear, Typed, TypeOK
  <2>3. Purge({m}) /\ {m} \in SUBSET Monitors
    BY <1>3 DEF Destroy
  <2> QED BY <1>3, <2>1, <2>2, <2>3, PurgeTyped, BudgetTyped
          DEF Destroy, Typed, TypeOK, TaskShape
<1>4. ASSUME NEW m \in Monitors, TogglePause(m) PROVE Typed'
  <2>1. [mon[m] EXCEPT !.active = ~@, !.fails = 0,
           !.status = IF mon[m].active THEN "paused" ELSE "pending"] \in MonitorRow
    <3>1. mon[m] \in MonitorRow /\ 0 \in 0..FailCap
      BY ConstantsAssumption DEF Typed, TypeOK
    <3>2. (IF mon[m].active THEN "paused" ELSE "pending") \in Statuses
      BY DEF Statuses
    <3> QED BY <3>1, <3>2 DEF MonitorRow
  <2>2. streak' \in [Monitors -> 0..FailCap]
    BY <1>4, ConstantsAssumption DEF TogglePause, Clear, Typed, TypeOK
  <2> QED BY <1>4, <2>1, <2>2, SetRowTyped, BudgetTyped
          DEF TogglePause, Typed, TypeOK, TaskShape
<1>5. ASSUME NEW m \in Monitors, Reset(m) PROVE Typed'
  <2> DEFINE r == [mon[m] EXCEPT !.fails = 0, !.status = "pending"]
  <2>1. r \in MonitorRow
    <3>1. mon[m] \in MonitorRow /\ 0 \in 0..FailCap /\ "pending" \in Statuses
      BY ConstantsAssumption DEF Typed, TypeOK, Statuses
    <3> QED BY <3>1 DEF MonitorRow
  <2>2. mon' \in [Monitors -> MonitorRow]
    BY <1>5, <2>1, SetRowTyped DEF Reset, ResetWith, Typed, TypeOK
  <2>3. streak' \in [Monitors -> 0..FailCap]
    BY <1>5, ConstantsAssumption DEF Reset, ResetWith, Clear, Typed, TypeOK
  <2>4. Purge({m}) \/ UNCHANGED <<openOn, downAlert>>
    BY <1>5 DEF Reset, ResetWith
  <2>5. /\ openOn' \in [IncidentIds -> Monitors \cup {NoMonitor}]
        /\ downAlert' \in [IncidentIds -> {"none", "owed", "handled", "dropped"}]
    BY <2>4, PurgeTyped DEF Typed, TypeOK
  <2>6. PICK fault \in {0, 1} :
          /\ budget.ops > 0 /\ budget.faults >= fault
          /\ budget' = [budget EXCEPT !.ops = @ - 1, !.faults = @ - fault]
    BY <1>5 DEF Reset, ResetWith
  <2>7. budget' \in [{"flips", "ops", "faults", "cancels", "restarts"} -> Nat]
    <3>1. budget.ops - 1 \in Nat /\ budget.faults - fault \in Nat
      BY <2>6 DEF Typed, TypeOK
    <3> QED BY <2>6, <3>1 DEF Typed, TypeOK
  <2> QED BY <1>5, <2>2, <2>3, <2>5, <2>7
          DEF Reset, ResetWith, Typed, TypeOK, TaskShape
<1>6. ASSUME NEW m \in Monitors, NEW t \in Tasks, Check(m, t) PROVE Typed'
  BY <1>6, StartTyped, BudgetTyped DEF Check, db, Typed, TypeOK
<1>7. ASSUME NEW replace \in BOOLEAN, NEW act \in BOOLEAN,
             NEW new \in SUBSET Monitors, NEW r \in Retries,
             Restore(replace, new, r, act)
      PROVE Typed'
  <2>1. mon' \in [Monitors -> MonitorRow]
    BY <1>7, RowsTyped DEF Restore, Typed, TypeOK
  <2> QED BY <1>7, <2>1, PurgeTyped, BudgetTyped, ConstantsAssumption
          DEF Restore, Typed, TypeOK, TaskShape
<1>8. ASSUME SaveTelegram PROVE Typed'
  BY <1>8, BudgetTyped DEF SaveTelegram, Typed, TypeOK, TaskShape
<1> QED BY <1>1, <1>2, <1>3, <1>4, <1>5, <1>6, <1>7, <1>8 DEF Operator

LEMMA RecordTyped == ASSUME Typed, NEW t \in Tasks, Record(t) PROVE Typed'
<1> DEFINE m == task[t].mon
           up == task[t].up
<1>1. m \in Monitors /\ up \in BOOLEAN /\ task[t] \in TaskRecord
      /\ task[t].pc = "record" /\ task[t].alert = "none"
      /\ task[t].inc \notin IncidentIds
  BY DEF Record, Typed, TypeOK, TaskShape, WellFormed, TaskRecord
<1>2. PICK e \in {"none", "read", "update", "insert"} :
        LET v == Verdict(up, CounterRead(m, e # "read"))
            stored == Present(m) /\ e \notin {"update", "insert"}
            res == IF stored THEN v ELSE Fallback(up)
        IN /\ Faulty(e)
           /\ IF Present(m) /\ e # "update"
              THEN SetRow(m, [mon[m] EXCEPT !.status = v.status, !.fails = v.fails])
              ELSE UNCHANGED mon
           /\ streak' = IF ~Present(m) \/ (up /\ e = "update") THEN streak
                        ELSE [streak EXCEPT ![m] = IF up THEN 0 ELSE Bump(@)]
           /\ SetTask(t, [task[t] EXCEPT !.pc = "process", !.status = res.status,
                                         !.enough = res.fails >= res.max])
           /\ UNCHANGED <<openOn, downAlert, telegramOn, health, due>>
  BY DEF Record
<1> DEFINE v == Verdict(up, CounterRead(m, e # "read"))
           res == IF Present(m) /\ e \notin {"update", "insert"}
                  THEN v ELSE Fallback(up)
           row == [mon[m] EXCEPT !.status = v.status, !.fails = v.fails]
           nxt == [task[t] EXCEPT !.pc = "process", !.status = res.status,
                                  !.enough = res.fails >= res.max]
<1>3. v.status \in Verdicts /\ v.fails \in 0..FailCap
  BY <1>1, VerdictTyped
<1>4. res.status \in Verdicts
  BY <1>3 DEF Fallback, Verdicts
<1> HIDE DEF v
<1>5. row \in MonitorRow
  <2>1. mon[m] \in MonitorRow
    BY <1>1 DEF Typed, TypeOK
  <2>2. v.status \in Statuses /\ v.fails \in 0..FailCap
    BY <1>3 DEF Statuses
  <2> QED BY <2>1, <2>2 DEF MonitorRow
<1>6. mon' \in [Monitors -> MonitorRow]
  BY <1>1, <1>2, <1>5, SetRowTyped DEF Typed, TypeOK, v
<1>7. streak' \in [Monitors -> 0..FailCap]
  BY <1>1, <1>2, BumpBound, ConstantsAssumption DEF Typed, TypeOK
<1>8. (res.fails >= res.max) \in BOOLEAN
  BY DEF res
<1> HIDE DEF res
<1>9. nxt \in TaskRecord /\ WellFormed(nxt)
  BY <1>1, <1>4, <1>8 DEF TaskRecord, WellFormed
<1>10. task' \in [Tasks -> TaskRecord] /\ TaskShape'
  BY <1>2, <1>9, SetTaskTyped DEF res, v
<1> QED BY <1>2, <1>6, <1>7, <1>10, BudgetTyped DEF Typed, TypeOK

LEMMA TaskStepTyped == ASSUME Typed, NEW t \in Tasks, TaskStep(t) PROVE Typed'
<1>1. CASE Probe(t)
  <2>1. task[t].pc = "probe" /\ task[t].mon \in Monitors
    BY <1>1 DEF Probe, Typed, TaskShape, WellFormed
  <2>2. LET r == [task[t] EXCEPT !.pc = "record", !.up = health[task[t].mon]]
        IN r \in TaskRecord /\ WellFormed(r)
    BY <2>1 DEF Typed, TypeOK, TaskShape, WellFormed, TaskRecord
  <2> QED BY <1>1, <2>2, SetTaskTyped DEF Probe, db, Typed, TypeOK
<1>2. CASE Record(t)
  BY <1>2, RecordTyped
<1>3. CASE OpenIncident(t)
  <2>1. PICK i \in Fresh, e \in {"none", "info"} :
          /\ task[t].pc = "process" /\ Faulty(e)
          /\ openOn' = [openOn EXCEPT ![i] = task[t].mon]
          /\ downAlert' = [downAlert EXCEPT ![i] = IF e = "none" THEN "owed"
                                                                 ELSE "dropped"]
          /\ Processed(t, IF e = "none" THEN "down" ELSE "none", i)
          /\ UNCHANGED <<mon, streak, telegramOn, health, due>>
    BY <1>3 DEF OpenIncident
  <2>2. i \in IncidentIds /\ task[t].mon \in Monitors
    BY <2>1 DEF Fresh, Typed, TaskShape, WellFormed
  <2>3. task' \in [Tasks -> TaskRecord] /\ TaskShape'
    BY <2>1, <2>2, ProcessedTyped
  <2> QED BY <2>1, <2>2, <2>3, BudgetTyped DEF Typed, TypeOK
<1>4. CASE ResolveIncident(t)
  <2>1. PICK i \in OpenOf(task[t].mon), e \in {"none", "info"} :
          /\ task[t].pc = "process" /\ Faulty(e)
          /\ openOn' = [openOn EXCEPT ![i] = NoMonitor]
          /\ downAlert' = [downAlert EXCEPT ![i] = "none"]
          /\ Processed(t, IF e = "none" THEN "recovery" ELSE "none", i)
          /\ UNCHANGED <<mon, streak, telegramOn, health, due>>
    BY <1>4 DEF ResolveIncident
  <2>2. i \in IncidentIds
    BY DEF OpenOf
  <2>3. task' \in [Tasks -> TaskRecord] /\ TaskShape'
    BY <2>1, <2>2, ProcessedTyped
  <2> QED BY <2>1, <2>2, <2>3, BudgetTyped DEF Typed, TypeOK
<1>5. CASE ProcessNothing(t)
  <2>1. task' \in [Tasks -> TaskRecord] /\ TaskShape'
    BY <1>5, ProcessedTyped DEF ProcessNothing
  <2> QED BY <1>5, <2>1, BudgetTyped DEF ProcessNothing, db, Typed, TypeOK
<1>6. CASE NotifyOff(t) \/ Send(t)
  <2>1. task' \in [Tasks -> TaskRecord] /\ TaskShape'
    BY <1>6, ToldTyped DEF NotifyOff, Send
  <2> QED BY <1>6, <2>1 DEF NotifyOff, Send, Handled, Typed, TypeOK
<1>7. CASE NotifyOn(t)
  <2>1. LET r == [task[t] EXCEPT !.pc = "send"] IN r \in TaskRecord /\ WellFormed(r)
    BY <1>7 DEF NotifyOn, Typed, TypeOK, TaskShape, WellFormed, TaskRecord
  <2> QED BY <1>7, <2>1, SetTaskTyped DEF NotifyOn, db, Typed, TypeOK
<1>8. CASE Broadcast(t)
  BY <1>8, IdleTyped, SetTaskTyped DEF Broadcast, db, Typed, TypeOK
<1> QED BY <1>1, <1>2, <1>3, <1>4, <1>5, <1>6, <1>7, <1>8 DEF TaskStep

LEMMA NextTyped == Typed /\ [Next]_vars => Typed'
<1> SUFFICES ASSUME Typed, [Next]_vars PROVE Typed'
    OBVIOUS
<1>1. ASSUME NEW m \in Monitors, HealthFlip(m) PROVE Typed'
  BY <1>1, BudgetTyped DEF HealthFlip, db, Typed, TypeOK, TaskShape
<1>2. CASE Operator
  BY <1>2, OperatorTyped
<1>3. CASE SchedTick
  BY <1>3 DEF SchedTick, Active, db, Typed, TypeOK, TaskShape
<1>4. ASSUME NEW m \in Monitors, NEW t \in Tasks, SchedSpawn(m, t) PROVE Typed'
  BY <1>4, StartTyped DEF SchedSpawn, db, Typed, TypeOK
<1>5. ASSUME NEW t \in Tasks, TaskStep(t) PROVE Typed'
  BY <1>5, TaskStepTyped
<1>6. ASSUME NEW t \in Tasks, Cancel(t) PROVE Typed'
  BY <1>6, IdleTyped, SetTaskTyped, BudgetTyped
     DEF Cancel, DropAlerts, Typed, TypeOK
<1>7. CASE Restart
  BY <1>7, IdleTyped, BudgetTyped
     DEF Restart, DropAlerts, Typed, TypeOK, TaskShape
<1>8. CASE UNCHANGED vars
  BY <1>8 DEF vars, Typed, TypeOK, TaskShape
<1> QED BY <1>1, <1>2, <1>3, <1>4, <1>5, <1>6, <1>7, <1>8 DEF Next

(* Every reachable state is well typed: statuses, counters and the stages  *)
(* of every task stay in their ranges whatever interleaves.                *)
THEOREM TypeCorrect == Spec => []TypeOK
<1>1. Typed => TypeOK
  BY DEF Typed
<1> QED BY InitTyped, NextTyped, <1>1, PTL DEF Spec

-----------------------------------------------------------------------------
(* Incidents and alerts.  The inductive invariant adds to the two safety   *)
(* invariants that only an open incident has a history, so that settling   *)
(* the alert of a closed one cannot leave an "owed" mark behind.           *)

OpenHistory ==
  \A i \in IncidentIds : downAlert[i] # "none" => openOn[i] # NoMonitor

AlertInv == Typed /\ AtMostOneOpen /\ AlertOwnership /\ OpenHistory

(* What a step can do to incidents and alerts: nothing; delete the         *)
(* incidents of the monitors in S; settle the alert of task t; or take     *)
(* away what the tasks of D carry.  Besides these only OpenIncident and    *)
(* ResolveIncident touch them.                                             *)
Quiet ==
  /\ UNCHANGED <<openOn, downAlert>>
  /\ \A t \in Tasks : task'[t].alert = task[t].alert /\ task'[t].inc = task[t].inc
  /\ \A m \in Monitors : Present(m) => Present(m)'

Purged(S) ==
  /\ Purge(S) /\ UNCHANGED task
  /\ \A m \in Monitors \ S : Present(m) => Present(m)'

Settled(t) ==
  /\ Handled(t) /\ Told(t)
  /\ task[t].pc \in {"notify", "send"}
  /\ UNCHANGED <<mon, openOn>>

Dropped(D) ==
  /\ DropAlerts(D)
  /\ UNCHANGED <<mon, openOn>>
  /\ task' = [t \in Tasks |-> IF t \in D THEN Idle ELSE task[t]]

LEMMA QuietStep == ASSUME AlertInv, Typed', Quiet PROVE AlertInv'
<1>1. AtMostOneOpen'
  BY DEF AlertInv, AtMostOneOpen, OpenOf, Quiet
<1>2. AlertOwnership' /\ OpenHistory'
  BY DEF AlertInv, AlertOwnership, OpenHistory, Quiet
<1> QED BY <1>1, <1>2 DEF AlertInv

LEMMA PurgeStep ==
  ASSUME AlertInv, Typed', NEW S \in SUBSET Monitors, Purged(S) PROVE AlertInv'
<1> USE DEF Purged
<1>1. \A i \in IncidentIds :
        /\ openOn'[i] = IF openOn[i] \in S THEN NoMonitor ELSE openOn[i]
        /\ downAlert'[i] = IF openOn[i] \in S THEN "none" ELSE downAlert[i]
  BY DEF Purge
<1>2. AtMostOneOpen'
  BY <1>1, ConstantsAssumption DEF AlertInv, AtMostOneOpen, OpenOf
<1>3. AlertOwnership'
  <2>1. ASSUME NEW t \in Tasks, task[t].alert = "recovery"
        PROVE  openOn'[task[t].inc] = NoMonitor
    BY <1>1, <2>1 DEF AlertInv, AlertOwnership, Typed, TaskShape, WellFormed
  <2>2. ASSUME NEW i \in IncidentIds, downAlert'[i] = "owed"
        PROVE  \E t \in Tasks : task[t].alert = "down" /\ task[t].inc = i
    BY <1>1, <2>2 DEF AlertInv, AlertOwnership
  <2> QED BY <2>1, <2>2 DEF AlertInv, AlertOwnership
<1>4. OpenHistory'
  BY <1>1 DEF AlertInv, OpenHistory
<1> QED BY <1>2, <1>3, <1>4 DEF AlertInv

LEMMA DropStep ==
  ASSUME AlertInv, Typed', NEW D \in SUBSET Tasks, Dropped(D) PROVE AlertInv'
<1> USE DEF Dropped
<1> DEFINE lost == {task[t].inc : t \in {u \in D : task[u].alert = "down"}}
<1>1. \A i \in IncidentIds :
        downAlert'[i] = IF i \in lost /\ openOn[i] # NoMonitor THEN "dropped"
                        ELSE downAlert[i]
  BY DEF DropAlerts
<1>2. \A t \in Tasks : task'[t].alert # "none" =>
        t \notin D /\ task'[t] = task[t]
  BY DEF Idle
<1>3. AtMostOneOpen'
  BY DEF AlertInv, AtMostOneOpen, OpenOf, Present
<1>4. AlertOwnership'
  <2>1. ASSUME NEW t \in Tasks, NEW u \in Tasks, task'[t].alert # "none",
               task'[u].alert = task'[t].alert, task'[u].inc = task'[t].inc
        PROVE  t = u
    BY <1>2, <2>1 DEF AlertInv, AlertOwnership
  <2>2. ASSUME NEW t \in Tasks, task'[t].alert = "recovery"
        PROVE  openOn'[task'[t].inc] = NoMonitor
    BY <1>2, <2>2 DEF AlertInv, AlertOwnership
  <2>3. ASSUME NEW i \in IncidentIds, downAlert'[i] = "owed"
        PROVE  \E t \in Tasks : task'[t].alert = "down" /\ task'[t].inc = i
    <3>1. downAlert[i] = "owed" /\ openOn[i] # NoMonitor /\ i \notin lost
      BY <1>1, <2>3 DEF AlertInv, OpenHistory
    <3>2. PICK t \in Tasks : task[t].alert = "down" /\ task[t].inc = i
      BY <3>1 DEF AlertInv, AlertOwnership
    <3>3. t \notin D
      BY <3>1, <3>2
    <3> QED BY <3>2, <3>3
  <2> QED BY <2>1, <2>2, <2>3 DEF AlertOwnership
<1>5. OpenHistory'
  BY <1>1 DEF AlertInv, OpenHistory
<1> QED BY <1>3, <1>4, <1>5 DEF AlertInv

(* A task that runs no stage with an alert carries nothing. *)
LEMMA EmptyHanded ==
  ASSUME Typed, NEW t \in Tasks, task[t].pc \notin {"notify", "send"}
  PROVE  task[t].alert = "none" /\ task[t].inc = NoIncident
  BY DEF Typed, TypeOK, TaskShape, WellFormed, TaskRecord

LEMMA StartQuiet ==
  ASSUME Typed, NEW t \in Tasks, NEW m, NEW kind, Start(t, m, kind)
  PROVE  \A u \in Tasks : task'[u].alert = task[u].alert /\ task'[u].inc = task[u].inc
  BY EmptyHanded DEF Start, SetTask, Idle, Typed, TypeOK

LEMMA OpenStep ==
  ASSUME AlertInv, Typed', NEW t \in Tasks, OpenIncident(t) PROVE AlertInv'
<1> DEFINE m == task[t].mon
<1>1. PICK i \in Fresh, e \in {"none", "info"} :
        /\ task[t].pc = "process"
        /\ OpenOf(m) = {} /\ Present(m)
        /\ openOn' = [openOn EXCEPT ![i] = m]
        /\ downAlert' = [downAlert EXCEPT ![i] = IF e = "none" THEN "owed"
                                                               ELSE "dropped"]
        /\ Processed(t, IF e = "none" THEN "down" ELSE "none", i)
        /\ UNCHANGED mon
  BY DEF OpenIncident
<1>2. /\ i \in IncidentIds /\ m \in Monitors /\ m # NoMonitor
      /\ \A u \in Tasks : task[u].inc # i
      /\ openOn[i] = NoMonitor
  BY <1>1, ConstantsAssumption
     DEF Fresh, Carried, AlertInv, Typed, TaskShape, WellFormed
<1>3. /\ \A u \in Tasks \ {t} : task'[u] = task[u]
      /\ task'[t].alert = IF e = "none" THEN "down" ELSE "none"
      /\ task'[t].inc = IF e = "none" THEN i ELSE NoIncident
  BY <1>1 DEF Processed, SetTask, AlertInv, Typed, TypeOK, TaskRecord
<1>4. /\ \A j \in IncidentIds \ {i} : openOn'[j] = openOn[j]
                                     /\ downAlert'[j] = downAlert[j]
      /\ openOn'[i] = m
      /\ downAlert'[i] = IF e = "none" THEN "owed" ELSE "dropped"
  BY <1>1, <1>2 DEF AlertInv, Typed, TypeOK
<1>5. AtMostOneOpen'
  BY <1>1, <1>2, <1>4 DEF AlertInv, AtMostOneOpen, OpenOf, Present
<1>6. AlertOwnership'
  <2>1. ASSUME NEW v \in Tasks, NEW u \in Tasks, task'[v].alert # "none",
               task'[u].alert = task'[v].alert, task'[u].inc = task'[v].inc
        PROVE  v = u
    BY <1>2, <1>3, <2>1 DEF AlertInv, AlertOwnership
  <2>2. ASSUME NEW u \in Tasks, task'[u].alert = "recovery"
        PROVE  openOn'[task'[u].inc] = NoMonitor
    <3>1. u # t /\ task'[u] = task[u]
      BY <1>3, <2>2
    <3>2. task[u].inc \in IncidentIds \ {i}
      BY <1>2, <2>2, <3>1 DEF AlertInv, Typed, TaskShape, WellFormed
    <3> QED BY <1>4, <2>2, <3>1, <3>2 DEF AlertInv, AlertOwnership
  <2>3. ASSUME NEW j \in IncidentIds, downAlert'[j] = "owed"
        PROVE  \E u \in Tasks : task'[u].alert = "down" /\ task'[u].inc = j
    <3>1. CASE j = i
      BY <1>3, <1>4, <2>3, <3>1
    <3>2. CASE j # i
      <4>1. PICK u \in Tasks : task[u].alert = "down" /\ task[u].inc = j
        BY <1>4, <2>3, <3>2 DEF AlertInv, AlertOwnership
      <4>2. u # t
        BY <1>1, <4>1, EmptyHanded DEF AlertInv
      <4> QED BY <1>3, <4>1, <4>2
    <3> QED BY <3>1, <3>2
  <2> QED BY <2>1, <2>2, <2>3 DEF AlertOwnership
<1>7. OpenHistory'
  BY <1>2, <1>4 DEF AlertInv, OpenHistory
<1> QED BY <1>5, <1>6, <1>7 DEF AlertInv

LEMMA ResolveStep ==
  ASSUME AlertInv, Typed', NEW t \in Tasks, ResolveIncident(t) PROVE AlertInv'
<1>1. PICK i \in OpenOf(task[t].mon), e \in {"none", "info"} :
        /\ task[t].pc = "process"
        /\ openOn' = [openOn EXCEPT ![i] = NoMonitor]
        /\ downAlert' = [downAlert EXCEPT ![i] = "none"]
        /\ Processed(t, IF e = "none" THEN "recovery" ELSE "none", i)
        /\ UNCHANGED mon
  BY DEF ResolveIncident
<1>2. i \in IncidentIds /\ openOn[i] = task[t].mon /\ openOn[i] # NoMonitor
  BY <1>1, ConstantsAssumption DEF OpenOf, AlertInv, Typed, TaskShape, WellFormed
<1>3. /\ \A u \in Tasks \ {t} : task'[u] = task[u]
      /\ task'[t].alert = IF e = "none" THEN "recovery" ELSE "none"
      /\ task'[t].inc = IF e = "none" THEN i ELSE NoIncident
  BY <1>1 DEF Processed, SetTask, AlertInv, Typed, TypeOK, TaskRecord
<1>4. /\ \A j \in IncidentIds \ {i} : openOn'[j] = openOn[j]
                                     /\ downAlert'[j] = downAlert[j]
      /\ openOn'[i] = NoMonitor /\ downAlert'[i] = "none"
  BY <1>1, <1>2 DEF AlertInv, Typed, TypeOK
<1>5. \A u \in Tasks : task[u].alert = "recovery" => task[u].inc # i
  BY <1>2 DEF AlertInv, AlertOwnership
<1>6. AtMostOneOpen'
  BY <1>1, <1>4, ConstantsAssumption DEF AlertInv, AtMostOneOpen, OpenOf, Present
<1>7. AlertOwnership'
  <2>1. ASSUME NEW v \in Tasks, NEW u \in Tasks, task'[v].alert # "none",
               task'[u].alert = task'[v].alert, task'[u].inc = task'[v].inc
        PROVE  v = u
    BY <1>3, <1>5, <2>1 DEF AlertInv, AlertOwnership
  <2>2. ASSUME NEW u \in Tasks, task'[u].alert = "recovery"
        PROVE  openOn'[task'[u].inc] = NoMonitor
    BY <1>3, <1>4, <2>2
       DEF AlertInv, AlertOwnership, Typed, TaskShape, WellFormed
  <2>3. ASSUME NEW j \in IncidentIds, downAlert'[j] = "owed"
        PROVE  \E u \in Tasks : task'[u].alert = "down" /\ task'[u].inc = j
    <3>1. PICK u \in Tasks : task[u].alert = "down" /\ task[u].inc = j
      BY <1>4, <2>3 DEF AlertInv, AlertOwnership
    <3>2. u # t
      BY <1>1, <3>1, EmptyHanded DEF AlertInv
    <3> QED BY <1>3, <3>1, <3>2
  <2> QED BY <2>1, <2>2, <2>3 DEF AlertOwnership
<1>8. OpenHistory'
  BY <1>4 DEF AlertInv, OpenHistory
<1> QED BY <1>6, <1>7, <1>8 DEF AlertInv

LEMMA ToldStep ==
  ASSUME AlertInv, Typed', NEW t \in Tasks, Settled(t) PROVE AlertInv'
<1> USE DEF Settled
<1>1. /\ \A u \in Tasks \ {t} : task'[u] = task[u]
      /\ task'[t].alert = "none" /\ task'[t].inc = NoIncident
  BY DEF Told, SetTask, AlertInv, Typed, TypeOK, TaskRecord
<1>2. task[t].inc \in IncidentIds
  BY DEF AlertInv, Typed, TaskShape, WellFormed
<1>3. \A j \in IncidentIds :
        downAlert'[j] = IF j = task[t].inc /\ task[t].alert = "down"
                             /\ openOn[j] # NoMonitor
                        THEN "handled" ELSE downAlert[j]
  BY <1>2 DEF Handled, AlertInv, Typed, TypeOK
<1>4. AtMostOneOpen'
  BY DEF AlertInv, AtMostOneOpen, OpenOf, Present
<1>5. AlertOwnership'
  <2>1. ASSUME NEW v \in Tasks, NEW u \in Tasks, task'[v].alert # "none",
               task'[u].alert = task'[v].alert, task'[u].inc = task'[v].inc
        PROVE  v = u
    BY <1>1, <2>1 DEF AlertInv, AlertOwnership
  <2>2. ASSUME NEW u \in Tasks, task'[u].alert = "recovery"
        PROVE  openOn'[task'[u].inc] = NoMonitor
    BY <1>1, <2>2 DEF AlertInv, AlertOwnership
  <2>3. ASSUME NEW j \in IncidentIds, downAlert'[j] = "owed"
        PROVE  \E u \in Tasks : task'[u].alert = "down" /\ task'[u].inc = j
    <3>1. downAlert[j] = "owed" /\ openOn[j] # NoMonitor
      BY <1>3, <2>3 DEF AlertInv, OpenHistory
    <3>2. PICK u \in Tasks : task[u].alert = "down" /\ task[u].inc = j
      BY <3>1 DEF AlertInv, AlertOwnership
    <3>3. u # t
      BY <1>3, <2>3, <3>1, <3>2
    <3> QED BY <1>1, <3>2, <3>3
  <2> QED BY <2>1, <2>2, <2>3 DEF AlertOwnership
<1>6. OpenHistory'
  BY <1>3 DEF AlertInv, OpenHistory
<1> QED BY <1>4, <1>5, <1>6 DEF AlertInv

LEMMA OperatorKind ==
  ASSUME Typed, Operator
  PROVE  Quiet \/ \E S \in SUBSET Monitors : Purged(S)
<1> DEFINE Goal == Quiet \/ \E S \in SUBSET Monitors : Purged(S)
<1>1. ASSUME NEW m \in Monitors, NEW r \in Retries, NEW t \in Tasks, Store(m, r, t)
      PROVE Goal
  <2>1. \A n \in Monitors : Present(n) => Present(n)'
    BY <1>1 DEF Store, SetRow, NewRow, Present, Typed, TypeOK
  <2> QED BY <1>1, <2>1, StartQuiet DEF Quiet, Store
<1>2. ASSUME NEW m \in Monitors, NEW r \in Retries, NEW t \in Tasks, Update(m, r, t)
      PROVE Goal
  <2>1. \A n \in Monitors : Present(n) => Present(n)'
    BY <1>2 DEF Update, SetRow, Present, Typed, TypeOK, MonitorRow
  <2> QED BY <1>2, <2>1, StartQuiet DEF Quiet, Update
<1>3. ASSUME NEW m \in Monitors, Destroy(m) PROVE Goal
  <2>1. \A n \in Monitors \ {m} : Present(n) => Present(n)'
    BY <1>3 DEF Destroy, SetRow, Present, Typed, TypeOK
  <2> QED BY <1>3, <2>1 DEF Purged, Destroy
<1>4. ASSUME NEW m \in Monitors, TogglePause(m) PROVE Goal
  <2>1. \A n \in Monitors : Present(n) => Present(n)'
    BY <1>4 DEF TogglePause, SetRow, Present, Typed, TypeOK, MonitorRow
  <2> QED BY <1>4, <2>1 DEF Quiet, TogglePause
<1>5. ASSUME NEW m \in Monitors, Reset(m) PROVE Goal
  <2>1. \A n \in Monitors : Present(n) => Present(n)'
    <3> DEFINE r == [mon[m] EXCEPT !.fails = 0, !.status = "pending"]
    <3>1. r.row = mon[m].row /\ (SetRow(m, r) \/ UNCHANGED mon)
      BY <1>5 DEF Reset, ResetWith, Typed, TypeOK, MonitorRow
    <3> QED BY <3>1 DEF SetRow, Present, Typed, TypeOK
  <2>2. CASE Purge({m})
    BY <1>5, <2>1, <2>2 DEF Purged, Reset, ResetWith
  <2>3. CASE UNCHANGED <<openOn, downAlert>>
    BY <1>5, <2>1, <2>3 DEF Quiet, Reset, ResetWith
  <2> QED BY <1>5, <2>2, <2>3 DEF Reset, ResetWith
<1>6. ASSUME NEW m \in Monitors, NEW t \in Tasks, Check(m, t) PROVE Goal
  BY <1>6, StartQuiet DEF Quiet, Check, db, Present
<1>7. ASSUME NEW replace \in BOOLEAN, NEW act \in BOOLEAN,
             NEW new \in SUBSET Monitors, NEW r \in Retries,
             Restore(replace, new, r, act)
      PROVE Goal
  <2> DEFINE gone == {m \in Monitors : replace /\ Present(m)}
  <2>1. \A n \in Monitors \ gone : Present(n) => Present(n)'
    BY <1>7 DEF Restore, NewRow, Present
  <2> QED BY <1>7, <2>1 DEF Purged, Restore
<1>8. ASSUME SaveTelegram PROVE Goal
  BY <1>8 DEF Quiet, SaveTelegram, Present
<1> QED BY <1>1, <1>2, <1>3, <1>4, <1>5, <1>6, <1>7, <1>8 DEF Operator

LEMMA TaskStepKind ==
  ASSUME Typed, NEW t \in Tasks, TaskStep(t)
  PROVE  Quiet \/ OpenIncident(t) \/ ResolveIncident(t) \/ Settled(t)
<1> DEFINE Same(u) == task'[u].alert = task[u].alert /\ task'[u].inc = task[u].inc
<1>1. CASE Probe(t)
  <2>1. \A u \in Tasks : Same(u)
    BY <1>1 DEF Probe, SetTask, Typed, TypeOK, TaskRecord
  <2> QED BY <1>1, <2>1 DEF Quiet, Probe, db, Present
<1>2. CASE Record(t)
  <2>1. \A u \in Tasks : Same(u)
    BY <1>2 DEF Record, SetTask, Typed, TypeOK, TaskRecord
  <2>2. \A m \in Monitors : Present(m) => Present(m)'
    <3>1. \/ UNCHANGED mon
          \/ \E st, f : SetRow(task[t].mon,
                               [mon[task[t].mon] EXCEPT !.status = st, !.fails = f])
      BY <1>2 DEF Record
    <3>2. CASE UNCHANGED mon
      BY <3>2 DEF Present
    <3>3. ASSUME NEW st, NEW f,
                 SetRow(task[t].mon,
                        [mon[task[t].mon] EXCEPT !.status = st, !.fails = f])
          PROVE  \A m \in Monitors : Present(m) => Present(m)'
      <4>1. \A m \in Monitors : mon[m] \in MonitorRow /\ m \in DOMAIN mon
        BY DEF Typed, TypeOK
      <4>2. ASSUME NEW m \in Monitors PROVE mon'[m].row = mon[m].row
        BY <3>3, <4>1 DEF SetRow, MonitorRow
      <4> QED BY <4>2 DEF Present
    <3> QED BY <3>1, <3>2, <3>3
  <2> QED BY <1>2, <2>1, <2>2 DEF Quiet, Record
<1>3. CASE OpenIncident(t)
  BY <1>3
<1>4. CASE ResolveIncident(t)
  BY <1>4
<1>5. CASE ProcessNothing(t)
  <2>1. task[t].alert = "none" /\ task[t].inc = NoIncident
    BY <1>5, EmptyHanded DEF ProcessNothing
  <2>2. \A u \in Tasks : Same(u)
    BY <1>5, <2>1
       DEF ProcessNothing, Processed, SetTask, Typed, TypeOK, TaskRecord
  <2> QED BY <1>5, <2>2 DEF Quiet, ProcessNothing, db, Present
<1>6. CASE NotifyOff(t) \/ Send(t)
  BY <1>6 DEF NotifyOff, Send, Settled
<1>7. CASE NotifyOn(t)
  <2>1. \A u \in Tasks : Same(u)
    BY <1>7 DEF NotifyOn, SetTask, Typed, TypeOK, TaskRecord
  <2> QED BY <1>7, <2>1 DEF Quiet, NotifyOn, db, Present
<1>8. CASE Broadcast(t)
  <2>1. task[t].alert = "none" /\ task[t].inc = NoIncident
    BY <1>8, EmptyHanded DEF Broadcast
  <2>2. \A u \in Tasks : Same(u)
    BY <1>8, <2>1 DEF Broadcast, SetTask, Idle, Typed, TypeOK
  <2> QED BY <1>8, <2>2 DEF Quiet, Broadcast, db, Present
<1> QED BY <1>1, <1>2, <1>3, <1>4, <1>5, <1>6, <1>7, <1>8 DEF TaskStep

LEMMA StepKind ==
  ASSUME Typed, [Next]_vars
  PROVE  \/ Quiet
         \/ \E S \in SUBSET Monitors : Purged(S)
         \/ \E t \in Tasks : OpenIncident(t) \/ ResolveIncident(t) \/ Settled(t)
         \/ \E t \in Tasks : Cancel(t) /\ Dropped({t})
         \/ Restart /\ Dropped(Tasks)
<1>1. ASSUME NEW m \in Monitors, HealthFlip(m) PROVE Quiet
  BY <1>1 DEF Quiet, HealthFlip, db, Present
<1>2. CASE Operator
  BY <1>2, OperatorKind
<1>3. CASE SchedTick
  BY <1>3 DEF Quiet, SchedTick, db, Present
<1>4. ASSUME NEW m \in Monitors, NEW t \in Tasks, SchedSpawn(m, t) PROVE Quiet
  BY <1>4, StartQuiet DEF Quiet, SchedSpawn, db, Present
<1>5. ASSUME NEW t \in Tasks, TaskStep(t)
      PROVE  Quiet \/ OpenIncident(t) \/ ResolveIncident(t) \/ Settled(t)
  BY <1>5, TaskStepKind
<1>6. ASSUME NEW t \in Tasks, Cancel(t) PROVE Dropped({t})
  <2>1. task' = [u \in Tasks |-> IF u \in {t} THEN Idle ELSE task[u]]
    BY <1>6 DEF Cancel, SetTask, Typed, TypeOK
  <2> QED BY <1>6, <2>1 DEF Cancel, Dropped
<1>7. CASE Restart
  <2>1. task' = [u \in Tasks |-> IF u \in Tasks THEN Idle ELSE task[u]]
    BY <1>7 DEF Restart
  <2> QED BY <1>7, <2>1 DEF Restart, Dropped
<1>8. CASE UNCHANGED vars
  BY <1>8 DEF Quiet, vars, Present
<1> QED BY <1>1, <1>2, <1>3, <1>4, <1>5, <1>6, <1>7, <1>8 DEF Next

LEMMA NextAlerts == AlertInv /\ [Next]_vars => AlertInv'
<1> SUFFICES ASSUME AlertInv, [Next]_vars PROVE AlertInv'
    OBVIOUS
<1>1. Typed /\ Typed'
  BY NextTyped DEF AlertInv
<1>2. CASE Quiet
  BY <1>1, <1>2, QuietStep
<1>3. ASSUME NEW S \in SUBSET Monitors, Purged(S) PROVE AlertInv'
  BY <1>1, <1>3, PurgeStep
<1>4. ASSUME NEW t \in Tasks, OpenIncident(t) \/ ResolveIncident(t) \/ Settled(t)
      PROVE  AlertInv'
  BY <1>1, <1>4, OpenStep, ResolveStep, ToldStep
<1>5. ASSUME NEW D \in SUBSET Tasks, Dropped(D) PROVE AlertInv'
  BY <1>1, <1>5, DropStep
<1> QED BY <1>1, <1>2, <1>3, <1>4, <1>5, StepKind

LEMMA InitAlerts == Init => AlertInv
<1>1. Init => AtMostOneOpen /\ AlertOwnership /\ OpenHistory
  BY ConstantsAssumption
     DEF Init, Idle, AtMostOneOpen, OpenOf, AlertOwnership, OpenHistory
<1> QED BY <1>1, InitTyped DEF AlertInv

(* A monitor never has two unresolved incidents, and a deleted monitor has *)
(* none, however many tasks report on it at the same time.                 *)
THEOREM SingleOpenIncident == Spec => []AtMostOneOpen
<1>1. AlertInv => AtMostOneOpen
  BY DEF AlertInv
<1> QED BY InitAlerts, NextAlerts, <1>1, PTL DEF Spec

(* Every alert of an incident is in the hands of at most one task; an open *)
(* incident whose DOWN alert is still owed has the task that owes it.      *)
THEOREM AlertsOwned == Spec => []AlertOwnership
<1>1. AlertInv => AlertOwnership
  BY DEF AlertInv
<1> QED BY InitAlerts, NextAlerts, <1>1, PTL DEF Spec

-----------------------------------------------------------------------------
(* The pipeline implements the ledger of incidents.                        *)

LEMMA NoticeOf ==
  ASSUME NEW n
  PROVE  n \in Notices <=> \E t \in Tasks : /\ task[t].alert # "none"
                                            /\ n = <<task[t].alert, task[t].inc>>
  BY DEF Notices

LEMMA InitLedger == Init => Ledger!Init
  BY DEF Init, Idle, Notices, Ledger!Init

LEMMA QuietLedger == Quiet => UNCHANGED <<openOn, Notices>>
<1> SUFFICES ASSUME Quiet PROVE Notices' = Notices
    BY DEF Quiet
<1> QED BY DEF Quiet, Notices

LEMMA OpenLedger ==
  ASSUME AlertInv, NEW t \in Tasks, OpenIncident(t) PROVE Ledger!Next
<1> DEFINE m == task[t].mon
<1>1. PICK i \in Fresh, e \in {"none", "info"} :
        /\ task[t].pc = "process"
        /\ OpenOf(m) = {}
        /\ openOn' = [openOn EXCEPT ![i] = m]
        /\ Processed(t, IF e = "none" THEN "down" ELSE "none", i)
  BY DEF OpenIncident
<1>2. /\ i \in IncidentIds /\ m \in Monitors /\ openOn[i] = NoMonitor
      /\ \A u \in Tasks : task[u].inc # i
      /\ task[t].alert = "none"
  BY <1>1, EmptyHanded DEF Fresh, Carried, AlertInv, Typed, TaskShape, WellFormed
<1>3. /\ \A u \in Tasks \ {t} : task'[u] = task[u]
      /\ task'[t].alert = IF e = "none" THEN "down" ELSE "none"
      /\ e = "none" => task'[t].inc = i
  BY <1>1 DEF Processed, SetTask, AlertInv, Typed, TypeOK, TaskRecord
<1>4. \A n \in Notices : n[2] # i
  BY <1>2, NoticeOf
<1>5. CASE e = "none"
  <2>1. Notices' = Notices \cup {<<"down", i>>}
    BY <1>2, <1>3, <1>5 DEF Notices
  <2> QED BY <1>1, <1>2, <1>4, <2>1
          DEF OpenOf, Ledger!Next, Ledger!Open, Ledger!HandOut
<1>6. CASE e # "none"
  <2>1. Notices' = Notices
    BY <1>2, <1>3, <1>6 DEF Notices
  <2> QED BY <1>1, <1>2, <1>4, <2>1
          DEF OpenOf, Ledger!Next, Ledger!Open, Ledger!HandOut
<1> QED BY <1>5, <1>6

LEMMA ResolveLedger ==
  ASSUME AlertInv, NEW t \in Tasks, ResolveIncident(t) PROVE Ledger!Next
<1>1. PICK i \in OpenOf(task[t].mon), e \in {"none", "info"} :
        /\ task[t].pc = "process"
        /\ openOn' = [openOn EXCEPT ![i] = NoMonitor]
        /\ Processed(t, IF e = "none" THEN "recovery" ELSE "none", i)
  BY DEF ResolveIncident
<1>2. /\ i \in IncidentIds /\ openOn[i] # NoMonitor
      /\ task[t].alert = "none"
  BY <1>1, EmptyHanded, ConstantsAssumption
     DEF OpenOf, AlertInv, Typed, TaskShape, WellFormed
<1>3. /\ \A u \in Tasks \ {t} : task'[u] = task[u]
      /\ task'[t].alert = IF e = "none" THEN "recovery" ELSE "none"
      /\ e = "none" => task'[t].inc = i
  BY <1>1 DEF Processed, SetTask, AlertInv, Typed, TypeOK, TaskRecord
<1>4. CASE e = "none"
  <2>1. Notices' = Notices \cup {<<"recovery", i>>}
    BY <1>2, <1>3, <1>4 DEF Notices
  <2> QED BY <1>1, <1>2, <2>1 DEF Ledger!Next, Ledger!Close, Ledger!HandOut
<1>5. CASE e # "none"
  <2>1. Notices' = Notices
    BY <1>2, <1>3, <1>5 DEF Notices
  <2> QED BY <1>1, <1>2, <2>1 DEF Ledger!Next, Ledger!Close, Ledger!HandOut
<1> QED BY <1>4, <1>5

(* A task that loses its alert takes away exactly that notice: nobody else *)
(* carries the same one.                                                   *)
LEMMA LoseOneLedger ==
  ASSUME AlertInv, NEW t \in Tasks, UNCHANGED openOn,
         \A u \in Tasks \ {t} : task'[u] = task[u],
         task'[t].alert = "none"
  PROVE  [Ledger!Next]_<<openOn, Notices>>
<1> DEFINE n == <<task[t].alert, task[t].inc>>
<1>1. CASE task[t].alert = "none"
  <2>1. Notices' = Notices
    BY <1>1 DEF Notices
  <2> QED BY <2>1
<1>2. CASE task[t].alert # "none"
  <2>1. n \in Notices
    BY <1>2, NoticeOf
  <2>2. \A u \in Tasks \ {t} : task[u].alert # "none" =>
          <<task[u].alert, task[u].inc>> # n
    BY <1>2 DEF AlertInv, AlertOwnership
  <2>3. Notices' = Notices \ {n}
    BY <2>2 DEF Notices
  <2> QED BY <2>1, <2>3 DEF Ledger!Next, Ledger!Settle
<1> QED BY <1>1, <1>2

LEMMA NextLedger ==
  AlertInv /\ [Next]_vars => [Ledger!Next]_<<openOn, Notices>>
<1> SUFFICES ASSUME AlertInv, [Next]_vars
             PROVE  [Ledger!Next]_<<openOn, Notices>>
    OBVIOUS
<1>1. Typed
  BY DEF AlertInv
<1>2. CASE Quiet
  BY <1>2, QuietLedger
<1>3. ASSUME NEW S \in SUBSET Monitors, Purged(S) PROVE Ledger!Next
  <2>1. Notices' = Notices
    BY <1>3 DEF Purged, Notices
  <2>2. openOn' = [i \in IncidentIds |-> IF openOn[i] \in S THEN NoMonitor
                                                           ELSE openOn[i]]
    BY <1>3 DEF Purged, Purge
  <2> QED BY <2>1, <2>2 DEF Ledger!Next, Ledger!Delete
<1>4. ASSUME NEW t \in Tasks, OpenIncident(t) \/ ResolveIncident(t)
      PROVE  Ledger!Next
  BY <1>4, OpenLedger, ResolveLedger
<1>5. ASSUME NEW t \in Tasks, Settled(t)
      PROVE  [Ledger!Next]_<<openOn, Notices>>
  <2>1. /\ \A u \in Tasks \ {t} : task'[u] = task[u]
        /\ task'[t].alert = "none"
    BY <1>1, <1>5 DEF Settled, Told, SetTask, Typed, TypeOK, TaskRecord
  <2> QED BY <1>5, <2>1, LoseOneLedger DEF Settled
<1>6. ASSUME NEW t \in Tasks, Dropped({t})
      PROVE  [Ledger!Next]_<<openOn, Notices>>
  BY <1>6, LoseOneLedger DEF Dropped, Idle
<1>7. ASSUME Dropped(Tasks) PROVE Ledger!Next
  <2>1. Notices' = {}
    BY <1>7 DEF Dropped, Idle, Notices
  <2> QED BY <1>7, <2>1 DEF Dropped, Ledger!Next, Ledger!Forget
<1> QED BY <1>1, <1>2, <1>3, <1>4, <1>5, <1>6, <1>7, StepKind

(* With all its stages, tasks, faults and restarts the pipeline implements *)
(* the ledger: an incident is opened only on a monitor that has none, each *)
(* opening and closing is announced at most once, and no notice appears or *)
(* is settled in any other way.                                            *)
THEOREM ImplementsLedger == Spec => LedgerImplemented
<1>1. [Ledger!Next]_<<openOn, Notices>> => [Ledger!Next]_(Ledger!ledgerVars)
  BY DEF Ledger!ledgerVars
<1> QED BY InitAlerts, NextAlerts, InitLedger, NextLedger, <1>1, PTL
        DEF Spec, LedgerImplemented, Ledger!Spec

-----------------------------------------------------------------------------
(* Counters and thresholds.  The inductive invariant adds to CounterBacked *)
(* that faults are only spent, so that its last part is not claimed again  *)
(* once a statement has failed, and that a row still to be created has no  *)
(* failures behind it.                                                     *)

Unborn == \A m \in Monitors : mon[m].row = "absent" => streak[m] = 0
CounterInv == Typed /\ CounterBacked /\ Unborn /\ budget.faults <= MaxFaults

LEMMA FaultsSpent ==
  ASSUME Typed
  PROVE  /\ \A w \in {"flips", "ops", "cancels", "restarts"} :
              Spend(w) => budget'.faults = budget.faults
         /\ \A e : Faulty(e) /\ e # "none" => budget'.faults < budget.faults
         /\ \A e : Faulty(e) => budget'.faults <= budget.faults
  BY DEF Typed, TypeOK, Spend, Faulty

(* Steps that touch neither a row nor the history of its failures. *)
LEMMA CounterUntouched ==
  ASSUME CounterInv, Typed', UNCHANGED <<mon, streak>>, budget'.faults <= budget.faults
  PROVE  CounterInv'
<1>1. budget'.faults <= MaxFaults /\ (budget'.faults = MaxFaults => budget.faults = MaxFaults)
  BY ConstantsAssumption DEF CounterInv, Typed, TypeOK
<1> QED BY <1>1 DEF CounterInv, CounterBacked, Unborn

(* Steps that write one row and, when they clear it, its streak. *)
LEMMA CounterRow ==
  ASSUME CounterInv, Typed', NEW m \in Monitors, NEW r \in MonitorRow,
         SetRow(m, r), budget'.faults <= budget.faults,
         r.status \in {"down", "retrying"} <=> r.fails > 0,
         \A n \in Monitors \ {m} : streak'[n] = streak[n],
         r.row # "absent", r.fails <= streak'[m],
         budget'.faults = MaxFaults => r.fails = streak'[m]
  PROVE  CounterInv'
<1>1. mon'[m] = r /\ \A n \in Monitors \ {m} : mon'[n] = mon[n]
  BY DEF SetRow, CounterInv, Typed, TypeOK
<1>2. budget'.faults <= MaxFaults /\ (budget'.faults = MaxFaults => budget.faults = MaxFaults)
  BY ConstantsAssumption DEF CounterInv, Typed, TypeOK
<1>3. ASSUME NEW n \in Monitors
      PROVE  /\ mon'[n].status \in {"down", "retrying"} <=> mon'[n].fails > 0
             /\ mon'[n].fails <= streak'[n]
             /\ budget'.faults = MaxFaults => mon'[n].fails = streak'[n]
             /\ mon'[n].row = "absent" => streak'[n] = 0
  <2>1. CASE n = m
    BY <1>1, <2>1
  <2>2. CASE n # m
    BY <1>1, <1>2, <2>2 DEF CounterInv, CounterBacked, Unborn
  <2> QED BY <2>1, <2>2
<1> QED BY <1>2, <1>3 DEF CounterInv, CounterBacked, Unborn

LEMMA OperatorCounter ==
  ASSUME CounterInv, Typed', Operator PROVE CounterInv'
<1>0. /\ Typed /\ budget.faults \in Nat
      /\ streak \in [Monitors -> 0..FailCap] /\ mon \in [Monitors -> MonitorRow]
  BY DEF CounterInv, Typed, TypeOK
<1>1. ASSUME NEW m \in Monitors, NEW r \in Retries, NEW t \in Tasks, Store(m, r, t)
      PROVE CounterInv'
  <2> DEFINE n == NewRow(r, TRUE)
  <2>1. n \in MonitorRow
    BY RowsTyped
  <2>2. budget'.faults = budget.faults /\ SetRow(m, n) /\ streak' = streak
    BY <1>0, <1>1, FaultsSpent DEF Store
  <2>3. n.status = "pending" /\ n.fails = 0 /\ n.row # "absent"
    BY DEF NewRow
  <2>4. streak'[m] = 0
    BY <1>1, <2>2 DEF Store, CounterInv, Unborn
  <2> HIDE DEF n
  <2> QED BY <1>0, <2>1, <2>2, <2>3, <2>4, CounterRow
<1>2. ASSUME NEW m \in Monitors, NEW r \in Retries, NEW t \in Tasks, Update(m, r, t)
      PROVE CounterInv'
  <2> DEFINE n == [mon[m] EXCEPT !.retries = r]
  <2>1. n \in MonitorRow /\ n.status = mon[m].status /\ n.fails = mon[m].fails
        /\ n.row # "absent"
    BY <1>0, <1>2 DEF MonitorRow, Update, Present
  <2>2. budget'.faults = budget.faults /\ SetRow(m, n) /\ streak' = streak
    BY <1>0, <1>2, FaultsSpent DEF Update
  <2>3. /\ n.status \in {"down", "retrying"} <=> n.fails > 0
        /\ n.fails <= streak'[m]
        /\ budget'.faults = MaxFaults => n.fails = streak'[m]
    BY <2>1, <2>2 DEF CounterInv, CounterBacked
  <2> HIDE DEF n
  <2> QED BY <1>0, <2>1, <2>2, <2>3, CounterRow
<1>3. ASSUME NEW m \in Monitors, Destroy(m) PROVE CounterInv'
  <2>1. NoRow("deleted") \in MonitorRow
    BY RowsTyped
  <2>2. budget'.faults = budget.faults /\ SetRow(m, NoRow("deleted"))
        /\ streak' = [streak EXCEPT ![m] = 0]
    BY <1>0, <1>3, FaultsSpent DEF Destroy, Clear
  <2>3. NoRow("deleted").status = "pending" /\ NoRow("deleted").fails = 0
        /\ NoRow("deleted").row # "absent"
    BY DEF NoRow
  <2> QED BY <1>0, <2>1, <2>2, <2>3, CounterRow
<1>4. ASSUME NEW m \in Monitors, TogglePause(m) PROVE CounterInv'
  <2> DEFINE n == [mon[m] EXCEPT !.active = ~@, !.fails = 0,
                     !.status = IF mon[m].active THEN "paused" ELSE "pending"]
  <2>1. n.status \in {"paused", "pending"} /\ n.fails = 0 /\ n.row # "absent"
    BY <1>0, <1>4 DEF MonitorRow, TogglePause, Present
  <2>2. n \in MonitorRow
    <3>1. SetRow(m, n)
      BY <1>4 DEF TogglePause
    <3>2. mon'[m] = n /\ mon'[m] \in MonitorRow
      BY <1>0, <3>1 DEF SetRow, Typed, TypeOK
    <3> QED BY <3>2
  <2>3. budget'.faults = budget.faults /\ SetRow(m, n)
        /\ streak' = [streak EXCEPT ![m] = 0]
    BY <1>0, <1>4, FaultsSpent DEF TogglePause, Clear
  <2> HIDE DEF n
  <2> QED BY <1>0, <2>1, <2>2, <2>3, CounterRow
<1>5. ASSUME NEW m \in Monitors, Reset(m) PROVE CounterInv'
  <2> DEFINE n == [mon[m] EXCEPT !.fails = 0, !.status = "pending"]
  <2>1. n.status = "pending" /\ n.fails = 0 /\ n.row # "absent"
    BY <1>0, <1>5 DEF MonitorRow, Reset, ResetWith, Present
  <2>3. PICK failed \in {"none", "incidents", "row"} :
          /\ budget' = [budget EXCEPT !.ops = @ - 1,
                          !.faults = @ - (IF failed = "none" THEN 0 ELSE 1)]
          /\ IF failed = "none" THEN SetRow(m, n) /\ streak' = [streak EXCEPT ![m] = 0]
                                ELSE UNCHANGED <<mon, streak>>
    BY <1>5 DEF Reset, ResetWith, Clear
  <2>4. CASE failed = "none"
    <3>1. budget'.faults = budget.faults /\ SetRow(m, n)
          /\ streak' = [streak EXCEPT ![m] = 0]
      BY <1>0, <2>3, <2>4 DEF Typed, TypeOK
    <3>2. mon'[m] = n /\ mon'[m] \in MonitorRow
      BY <1>0, <3>1 DEF SetRow, Typed, TypeOK
    <3> HIDE DEF n
    <3> QED BY <1>0, <2>1, <3>1, <3>2, CounterRow
  <2>5. CASE failed # "none"
    <3>1. budget'.faults < MaxFaults /\ mon' = mon /\ streak' = streak
      BY <1>0, <2>3, <2>5, ConstantsAssumption DEF CounterInv, Typed, TypeOK
    <3>2. budget'.faults \in Nat /\ budget'.faults # MaxFaults /\ budget'.faults <= MaxFaults
      BY <3>1, ConstantsAssumption DEF Typed, TypeOK
    <3>3. CounterBacked' /\ Unborn'
      BY <3>1, <3>2 DEF CounterInv, CounterBacked, Unborn
    <3> QED BY <3>2, <3>3 DEF CounterInv
  <2> QED BY <2>4, <2>5
<1>6. ASSUME NEW m \in Monitors, NEW t \in Tasks, Check(m, t) PROVE CounterInv'
  BY <1>0, <1>6, FaultsSpent, CounterUntouched DEF Check, db
<1>7. ASSUME NEW replace \in BOOLEAN, NEW act \in BOOLEAN,
             NEW new \in SUBSET Monitors, NEW r \in Retries,
             Restore(replace, new, r, act)
      PROVE CounterInv'
  <2>1. budget'.faults = budget.faults
    BY <1>0, <1>7, FaultsSpent DEF Restore
  <2>2. \A m \in Monitors :
          \/ mon'[m] = NoRow("deleted") /\ streak'[m] = 0
          \/ mon'[m] = NewRow(r, act) /\ mon[m].row = "absent" /\ streak'[m] = streak[m]
          \/ mon'[m] = mon[m] /\ streak'[m] = streak[m]
    BY <1>0, <1>7 DEF Restore, Present
  <2>3. \A x \in {NoRow("deleted"), NewRow(r, act)} :
          x.status = "pending" /\ x.fails = 0 /\ x.row # "absent"
    BY DEF NoRow, NewRow
  <2>4. \A m \in Monitors :
          \/ /\ mon'[m].status = "pending" /\ mon'[m].fails = 0
             /\ mon'[m].row # "absent" /\ streak'[m] = 0
          \/ mon'[m] = mon[m] /\ streak'[m] = streak[m]
    BY <2>2, <2>3 DEF CounterInv, Unborn
  <2> QED BY <2>1, <2>4 DEF CounterInv, CounterBacked, Unborn
<1>8. ASSUME SaveTelegram PROVE CounterInv'
  BY <1>0, <1>8, FaultsSpent, CounterUntouched DEF SaveTelegram
<1> QED BY <1>1, <1>2, <1>3, <1>4, <1>5, <1>6, <1>7, <1>8 DEF Operator

(* The record stage counts from the row it read, or from nothing, and      *)
(* clears what it wrote a success over.                                    *)
LEMMA RecordCounter ==
  ASSUME CounterInv, Typed', NEW t \in Tasks, Record(t) PROVE CounterInv'
<1> DEFINE m == task[t].mon
           up == task[t].up
<1>1. m \in Monitors /\ up \in BOOLEAN /\ Typed /\ mon[m] \in MonitorRow
      /\ streak[m] \in 0..FailCap /\ budget.faults \in Nat
  BY DEF Record, CounterInv, Typed, TypeOK, TaskShape, WellFormed, TaskRecord
<1>2. PICK e \in {"none", "read", "update", "insert"} :
        LET v == Verdict(up, CounterRead(m, e # "read"))
        IN /\ Faulty(e)
           /\ IF Present(m) /\ e # "update"
              THEN SetRow(m, [mon[m] EXCEPT !.status = v.status, !.fails = v.fails])
              ELSE UNCHANGED mon
           /\ streak' = IF ~Present(m) \/ (up /\ e = "update") THEN streak
                        ELSE [streak EXCEPT ![m] = IF up THEN 0 ELSE Bump(@)]
  BY DEF Record
<1> DEFINE c == CounterRead(m, e # "read")
           v == Verdict(up, c)
           row == [mon[m] EXCEPT !.status = v.status, !.fails = v.fails]
<1>3. c.fails \in 0..FailCap /\ (e = "none" /\ Present(m) => c.fails = mon[m].fails)
  BY <1>1, ConstantsAssumption DEF CounterRead, MonitorRow
<1>4. Bump(c.fails) \in 1..FailCap /\ Bump(streak[m]) \in 1..FailCap
      /\ (c.fails <= streak[m] => Bump(c.fails) <= Bump(streak[m]))
  BY <1>1, <1>3, BumpBound DEF Bump
<1>5. /\ v.status \in {"up", "down", "retrying"}
      /\ v.status \in {"down", "retrying"} <=> ~up
      /\ v.fails = IF up THEN 0 ELSE Bump(c.fails)
  BY <1>1 DEF Verdict
<1>6. row.status = v.status /\ row.fails = v.fails
  BY <1>1 DEF MonitorRow
<1>7. row.status \in {"down", "retrying"} <=> row.fails > 0
  BY <1>4, <1>5, <1>6
<1>8. CASE ~Present(m)
  <2>1. mon' = mon /\ streak' = streak
    BY <1>2, <1>8
  <2> QED BY <1>1, <1>2, <2>1, CounterUntouched, FaultsSpent
<1>9. CASE Present(m) /\ e = "update"
  <2>1. mon' = mon /\ budget'.faults < budget.faults
    BY <1>1, <1>2, <1>9, FaultsSpent
  <2>2. budget'.faults # MaxFaults /\ budget'.faults <= MaxFaults
    BY <1>1, <2>1, ConstantsAssumption DEF CounterInv, Typed, TypeOK
  <2>3. \A n \in Monitors : /\ streak[n] <= streak'[n]
                            /\ n # m => streak'[n] = streak[n]
    BY <1>1, <1>2, <1>9, BumpBound, ConstantsAssumption DEF Bump, Typed, TypeOK
  <2>4. ASSUME NEW n \in Monitors PROVE mon[n].fails <= streak'[n]
    <3>1. mon[n].fails <= streak[n] /\ streak[n] <= streak'[n]
      BY <2>3 DEF CounterInv, CounterBacked
    <3>2. mon[n].fails \in Nat /\ streak[n] \in Nat /\ streak'[n] \in Nat
      <4>1. mon[n] \in MonitorRow /\ streak[n] \in 0..FailCap /\ streak'[n] \in 0..FailCap
        BY <1>1 DEF Typed, TypeOK
      <4> QED BY <4>1, ConstantsAssumption DEF MonitorRow
    <3> QED BY <3>1, <3>2
  <2>5. mon[m].row # "absent"
    BY <1>9 DEF Present
  <2>6. CounterBacked'
    BY <2>1, <2>2, <2>4 DEF CounterInv, CounterBacked
  <2>7. ASSUME NEW n \in Monitors, mon'[n].row = "absent" PROVE streak'[n] = 0
    <3>1. mon[n].row = "absent" /\ n # m
      BY <2>1, <2>5, <2>7
    <3> QED BY <2>3, <3>1 DEF CounterInv, Unborn
  <2> QED BY <2>2, <2>6, <2>7 DEF CounterInv, Unborn
<1>10. CASE Present(m) /\ e # "update"
  <2>1. SetRow(m, row) /\ budget'.faults <= budget.faults
    BY <1>1, <1>2, <1>10, FaultsSpent
  <2>2. row \in MonitorRow /\ row.row # "absent"
    <3>1. mon'[m] = row /\ mon'[m] \in MonitorRow
      BY <1>1, <2>1 DEF SetRow, Typed, TypeOK
    <3>2. row.row = mon[m].row
      BY <1>1 DEF MonitorRow
    <3> QED BY <1>10, <3>1, <3>2 DEF Present
  <2>3. \A n \in Monitors \ {m} : streak'[n] = streak[n]
    BY <1>1, <1>2 DEF Typed, TypeOK
  <2>4. streak'[m] = IF up THEN 0 ELSE Bump(streak[m])
    BY <1>1, <1>2, <1>10 DEF Typed, TypeOK
  <2>5. c.fails <= streak[m] /\ c.fails \in Nat /\ streak[m] \in Nat
    BY <1>1, <1>3, <1>10, ConstantsAssumption
       DEF CounterRead, CounterInv, CounterBacked, MonitorRow
  <2>6. row.fails <= streak'[m]
    <3> HIDE DEF c, v, row
    <3> QED BY <1>1, <1>4, <1>5, <1>6, <2>4, <2>5
  <2>7. ASSUME budget'.faults = MaxFaults PROVE row.fails = streak'[m]
    <3>1. budget.faults = MaxFaults /\ e = "none"
      BY <1>1, <1>2, <2>1, <2>7, FaultsSpent, ConstantsAssumption
         DEF CounterInv, Typed, TypeOK
    <3>2. c.fails = streak[m]
      BY <1>1, <1>3, <1>10, <3>1 DEF CounterInv, CounterBacked
    <3> HIDE DEF c, v, row
    <3> QED BY <1>5, <1>6, <2>4, <3>2
  <2> HIDE DEF row
  <2> QED BY <1>1, <1>7, <2>1, <2>2, <2>3, <2>6, <2>7, CounterRow
<1> QED BY <1>8, <1>9, <1>10

LEMMA NextCounter == CounterInv /\ [Next]_vars => CounterInv'
<1> SUFFICES ASSUME CounterInv, [Next]_vars PROVE CounterInv'
    OBVIOUS
<1>1. Typed /\ Typed' /\ budget.faults \in Nat
  BY NextTyped DEF CounterInv, Typed, TypeOK
<1>2. CASE Operator
  BY <1>1, <1>2, OperatorCounter
<1>3. ASSUME NEW t \in Tasks, Record(t) PROVE CounterInv'
  BY <1>1, <1>3, RecordCounter
<1>4. ASSUME NEW t \in Tasks, TaskStep(t), ~Record(t) PROVE CounterInv'
  <2>1. UNCHANGED <<mon, streak>>
    BY <1>4 DEF TaskStep, Probe, OpenIncident, ResolveIncident, ProcessNothing,
                NotifyOff, NotifyOn, Send, Broadcast, db
  <2>2. budget'.faults <= budget.faults
    <3>1. UNCHANGED budget \/ \E e : Faulty(e)
      BY <1>4 DEF TaskStep, Probe, OpenIncident, ResolveIncident, ProcessNothing,
                  NotifyOff, NotifyOn, Send, Broadcast
    <3> QED BY <1>1, <3>1, FaultsSpent
  <2> QED BY <1>1, <2>1, <2>2, CounterUntouched
<1>5. CASE \/ \E m \in Monitors : HealthFlip(m)
           \/ \E t \in Tasks : Cancel(t)
           \/ Restart
  <2>1. UNCHANGED <<mon, streak>>
    BY <1>5 DEF HealthFlip, Cancel, Restart, db
  <2>2. Spend("flips") \/ Spend("cancels") \/ Spend("restarts")
    BY <1>5 DEF HealthFlip, Cancel, Restart
  <2>3. budget'.faults <= budget.faults
    BY <1>1, <2>2, FaultsSpent
  <2> QED BY <1>1, <2>1, <2>3, CounterUntouched
<1>6. CASE SchedTick \/ (\E m \in Monitors, t \in Tasks : SchedSpawn(m, t))
           \/ UNCHANGED vars
  BY <1>1, <1>6, CounterUntouched DEF SchedTick, SchedSpawn, db, vars
<1> QED BY <1>2, <1>3, <1>4, <1>5, <1>6 DEF Next

LEMMA InitCounter == Init => CounterInv
  BY InitTyped, ConstantsAssumption DEF Init, NoRow, CounterInv, CounterBacked, Unborn

(* The status of a row and its failure counter always agree; the counter   *)
(* never exceeds the failed probes in a row, whatever statements fail, and *)
(* is exactly their number as long as none does.                           *)
THEOREM CountersBacked == Spec => []CounterBacked
<1>1. CounterInv => CounterBacked
  BY DEF CounterInv
<1> QED BY InitCounter, NextCounter, <1>1, PTL DEF Spec

-----------------------------------------------------------------------------
(* When incidents are opened.  A "down" that no threshold stands behind    *)
(* exists: it is what run_probe_and_record_cfg goes on with when record    *)
(* found no row.  It opens nothing because a monitor that tasks know and   *)
(* that has no row is gone for good: ids are never used again.             *)

Exists(m) == mon[m].row # "absent"

ThresholdInv ==
  /\ Typed
  /\ budget.faults <= MaxFaults
  /\ \A m \in due : Exists(m)
  /\ \A t \in Tasks : task[t].pc # "idle" => Exists(task[t].mon)
  /\ budget.faults = MaxFaults =>
       \A t \in Tasks : task[t].pc = "process" /\ task[t].status = "down" =>
         task[t].enough \/ ~Present(task[t].mon)

(* A row that has been handed out is never handed out again. *)
LEMMA RowLife ==
  ASSUME Typed, [Next]_vars
  PROVE  \A m \in Monitors : Exists(m) => mon'[m].row \in {mon[m].row, "deleted"}
<1> DEFINE Goal == \A m \in Monitors : Exists(m) => mon'[m].row \in {mon[m].row, "deleted"}
<1>0. mon \in [Monitors -> MonitorRow]
  BY DEF Typed, TypeOK
<1>1. ASSUME NEW n \in Monitors, NEW r, SetRow(n, r),
             r.row \in {mon[n].row, "deleted"} \/ mon[n].row = "absent"
      PROVE  Goal
  BY <1>0, <1>1 DEF SetRow, Exists
<1>2. CASE UNCHANGED mon
  BY <1>2
<1>3. ASSUME NEW m \in Monitors, NEW r \in Retries, NEW t \in Tasks, Store(m, r, t)
      PROVE Goal
  BY <1>1, <1>3 DEF Store
<1>4. ASSUME NEW m \in Monitors, NEW r \in Retries, NEW t \in Tasks, Update(m, r, t)
      PROVE Goal
  <2> DEFINE n == [mon[m] EXCEPT !.retries = r]
  <2>1. n.row = mon[m].row
    BY <1>0 DEF MonitorRow
  <2> HIDE DEF n
  <2> QED BY <1>1, <1>4, <2>1 DEF Update, n
<1>5. ASSUME NEW m \in Monitors, Destroy(m) PROVE Goal
  <2>1. NoRow("deleted").row = "deleted"
    BY DEF NoRow
  <2> QED BY <1>1, <1>5, <2>1 DEF Destroy
<1>6. ASSUME NEW m \in Monitors, TogglePause(m) PROVE Goal
  <2> DEFINE n == [mon[m] EXCEPT !.active = ~@, !.fails = 0,
                     !.status = IF mon[m].active THEN "paused" ELSE "pending"]
  <2>1. n.row = mon[m].row
    BY <1>0 DEF MonitorRow
  <2>2. SetRow(m, n)
    BY <1>6 DEF TogglePause
  <2> HIDE DEF n
  <2> QED BY <1>1, <2>1, <2>2
<1>7. ASSUME NEW m \in Monitors, Reset(m) PROVE Goal
  <2> DEFINE n == [mon[m] EXCEPT !.fails = 0, !.status = "pending"]
  <2>1. n.row = mon[m].row
    BY <1>0 DEF MonitorRow
  <2>2. SetRow(m, n) \/ UNCHANGED mon
    BY <1>7 DEF Reset, ResetWith
  <2> HIDE DEF n
  <2> QED BY <1>1, <1>2, <2>1, <2>2
<1>8. ASSUME NEW replace \in BOOLEAN, NEW act \in BOOLEAN,
             NEW new \in SUBSET Monitors, NEW r \in Retries,
             Restore(replace, new, r, act)
      PROVE Goal
  BY <1>8 DEF Restore, NoRow, Exists
<1>9. ASSUME NEW t \in Tasks, Record(t) PROVE Goal
  <2>1. \/ UNCHANGED mon
        \/ \E st, f : SetRow(task[t].mon,
                             [mon[task[t].mon] EXCEPT !.status = st, !.fails = f])
    BY <1>9 DEF Record
  <2>2. ASSUME NEW st, NEW f,
               SetRow(task[t].mon, [mon[task[t].mon] EXCEPT !.status = st, !.fails = f])
        PROVE  Goal
    <3> DEFINE n == [mon[task[t].mon] EXCEPT !.status = st, !.fails = f]
    <3>1. task[t].mon \in Monitors
      BY <1>9 DEF Record, Typed, TaskShape, WellFormed
    <3>2. n.row = mon[task[t].mon].row
      BY <1>0, <3>1 DEF MonitorRow
    <3>3. SetRow(task[t].mon, n)
      BY <2>2
    <3> HIDE DEF n
    <3> QED BY <1>1, <3>1, <3>2, <3>3
  <2> QED BY <1>2, <2>1, <2>2
<1>10. ASSUME NEW t \in Tasks, TaskStep(t), ~Record(t) PROVE UNCHANGED mon
  BY <1>10 DEF TaskStep, Probe, OpenIncident, ResolveIncident, ProcessNothing,
               NotifyOff, NotifyOn, Send, Broadcast, db
<1>11. CASE Operator
  BY <1>2, <1>3, <1>4, <1>5, <1>6, <1>7, <1>8, <1>11
     DEF Operator, Check, SaveTelegram, db
<1>12. CASE ~Operator /\ ~\E t \in Tasks : TaskStep(t)
  BY <1>2, <1>12 DEF Next, HealthFlip, SchedTick, SchedSpawn, Cancel, Restart, db, vars
<1> QED BY <1>2, <1>9, <1>10, <1>11, <1>12

(* Where a task comes from, and where its monitor does. *)
LEMMA TaskLife ==
  ASSUME ThresholdInv, Typed', [Next]_vars
  PROVE  \A u \in Tasks :
           \/ task'[u] = task[u]
           \/ task'[u].pc = "idle"
           \/ task'[u].pc = "probe" /\ Exists(task[u].mon)'
           \/ Record(u)
           \/ /\ task[u].pc # "idle" /\ task'[u].pc # "process"
              /\ task'[u].mon = task[u].mon
<1> DEFINE Goal(u) == \/ task'[u] = task[u]
                      \/ task'[u].pc = "idle"
                      \/ task'[u].pc = "probe" /\ Exists(task[u].mon)'
                      \/ Record(u)
                      \/ /\ task[u].pc # "idle" /\ task'[u].pc # "process"
                         /\ task'[u].mon = task[u].mon
<1>0. Typed /\ task \in [Tasks -> TaskRecord] /\ task' \in [Tasks -> TaskRecord]
      /\ mon \in [Monitors -> MonitorRow]
  BY DEF ThresholdInv, Typed, TypeOK
<1>1. ASSUME NEW t \in Tasks, NEW m \in Monitors, NEW kind \in {"spawned", "request"},
             Start(t, m, kind), Exists(m)'
      PROVE  \A u \in Tasks : Goal(u)
  BY <1>0, <1>1 DEF Start, SetTask, Idle
<1>2. CASE UNCHANGED task
  BY <1>2
<1>3. CASE Operator
  <2>1. ASSUME NEW m \in Monitors, NEW r \in Retries, NEW t \in Tasks, Store(m, r, t)
        PROVE  Exists(m)'
    BY <1>0, <2>1 DEF Store, SetRow, NewRow, Exists
  <2>2. ASSUME NEW m \in Monitors, NEW r \in Retries, NEW t \in Tasks, Update(m, r, t)
        PROVE  Exists(m)'
    BY <1>0, <2>2 DEF Update, SetRow, Present, Exists, MonitorRow
  <2>3. ASSUME NEW m \in Monitors, NEW t \in Tasks, Check(m, t)
        PROVE  Exists(m)'
    BY <2>3 DEF Check, db, Present, Exists
  <2> QED BY <1>1, <1>2, <1>3, <2>1, <2>2, <2>3
          DEF Operator, Store, Update, Check, Destroy, TogglePause, Reset, ResetWith,
              Restore, SaveTelegram
<1>4. ASSUME NEW m \in Monitors, NEW t \in Tasks, SchedSpawn(m, t)
      PROVE  \A u \in Tasks : Goal(u)
  <2>1. Start(t, m, "spawned") /\ Exists(m)'
    BY <1>4 DEF SchedSpawn, db, ThresholdInv, Exists
  <2> QED BY <1>1, <2>1
<1>5. ASSUME NEW t \in Tasks, TaskStep(t) PROVE \A u \in Tasks : Goal(u)
  <2>1. \A u \in Tasks \ {t} : task'[u] = task[u]
    BY <1>0, <1>5
       DEF TaskStep, Probe, Record, OpenIncident, ResolveIncident, ProcessNothing,
           NotifyOff, NotifyOn, Send, Broadcast, Processed, Told, SetTask
  <2>2. CASE Record(t)
    BY <2>1, <2>2
  <2>3. CASE Broadcast(t)
    BY <1>0, <2>1, <2>3 DEF Broadcast, SetTask, Idle
  <2>4. CASE Probe(t)
    BY <1>0, <2>1, <2>4 DEF Probe, SetTask, TaskRecord
  <2>5. CASE OpenIncident(t) \/ ResolveIncident(t) \/ ProcessNothing(t)
    <3>1. task[t].pc = "process" /\ \E kind, i : Processed(t, kind, i)
      BY <2>5 DEF OpenIncident, ResolveIncident, ProcessNothing
    <3>2. task[t].pc # "idle" /\ task'[t].pc # "process" /\ task'[t].mon = task[t].mon
      BY <1>0, <3>1 DEF Processed, SetTask, TaskRecord
    <3> QED BY <2>1, <3>2
  <2>6. CASE NotifyOff(t) \/ Send(t)
    <3>1. Told(t) /\ task[t].pc # "idle" /\ task[t] \in TaskRecord
      BY <1>0, <2>6 DEF NotifyOff, Send
    <3>2. task'[t].pc = "broadcast" /\ task'[t].mon = task[t].mon
      BY <1>0, <3>1 DEF Told, SetTask, TaskRecord
    <3> QED BY <2>1, <3>1, <3>2
  <2>7. CASE NotifyOn(t)
    <3> DEFINE n == [task[t] EXCEPT !.pc = "send"]
    <3>1. n.pc = "send" /\ n.mon = task[t].mon
      BY <1>0 DEF TaskRecord
    <3>2. task[t].pc # "idle" /\ task'[t] = n
      BY <1>0, <2>7 DEF NotifyOn, SetTask
    <3> HIDE DEF n
    <3>3. task[t].pc # "idle" /\ task'[t].pc # "process" /\ task'[t].mon = task[t].mon
      BY <3>1, <3>2
    <3> QED BY <2>1, <3>3
  <2> QED BY <1>5, <2>2, <2>3, <2>4, <2>5, <2>6, <2>7 DEF TaskStep
<1>6. CASE (\E t \in Tasks : Cancel(t)) \/ Restart
  <2>1. \A u \in Tasks : task'[u] = task[u] \/ task'[u].pc = "idle"
    <3>1. Idle.pc = "idle"
      BY DEF Idle
    <3>2. ASSUME NEW t \in Tasks, Cancel(t)
          PROVE  \A u \in Tasks : task'[u] = task[u] \/ task'[u].pc = "idle"
      BY <1>0, <3>1, <3>2 DEF Cancel, SetTask
    <3>3. ASSUME Restart PROVE \A u \in Tasks : task'[u].pc = "idle"
      BY <3>1, <3>3 DEF Restart
    <3> QED BY <1>6, <3>2, <3>3
  <2> QED BY <2>1
<1>7. CASE SchedTick \/ (\E m \in Monitors : HealthFlip(m)) \/ UNCHANGED vars
  BY <1>2, <1>7 DEF SchedTick, HealthFlip, vars
<1> QED BY <1>3, <1>4, <1>5, <1>6, <1>7 DEF Next

LEMMA BudgetNeverGrows ==
  ASSUME Typed, [Next]_vars
  PROVE  \A w \in {"flips", "ops", "faults", "cancels", "restarts"} :
           budget'[w] <= budget[w]
<1> DEFINE Goal == \A w \in {"flips", "ops", "faults", "cancels", "restarts"} :
                     budget'[w] <= budget[w]
<1>1. budget \in [{"flips", "ops", "faults", "cancels", "restarts"} -> Nat]
  BY DEF Typed, TypeOK
<1>2. ASSUME NEW m \in Monitors, Reset(m) PROVE Goal
  <2>1. PICK fault \in {0, 1} :
          budget' = [budget EXCEPT !.ops = @ - 1, !.faults = @ - fault]
    BY <1>2 DEF Reset, ResetWith
  <2>2. budget'.ops = budget.ops - 1 /\ budget'.faults = budget.faults - fault
        /\ \A w \in {"flips", "cancels", "restarts"} : budget'[w] = budget[w]
    BY <1>1, <2>1
  <2> QED BY <1>1, <2>2
<1>3. \/ UNCHANGED budget \/ (\E m \in Monitors : Reset(m))
      \/ \E w \in {"flips", "ops", "faults", "cancels", "restarts"} : Spend(w)
  BY DEF Next, HealthFlip, Operator, Store, Update, Destroy, TogglePause, Check,
         Restore, SaveTelegram, SchedTick, SchedSpawn, TaskStep, Probe, Record,
         OpenIncident, ResolveIncident, ProcessNothing, NotifyOff, NotifyOn, Send,
         Broadcast, Cancel, Restart, Faulty, vars
<1>4. ASSUME NEW w \in {"flips", "ops", "faults", "cancels", "restarts"}, Spend(w)
      PROVE  Goal
  BY <1>1, <1>4 DEF Spend
<1> QED BY <1>1, <1>2, <1>3, <1>4

(* With no failed statement, record reports "down" for a monitor that is   *)
(* still there only when the counter has reached max_retries.              *)
LEMMA RecordThreshold ==
  ASSUME Typed, NEW t \in Tasks, Record(t), Exists(task[t].mon),
         budget'.faults = budget.faults, task'[t].status = "down"
  PROVE  task'[t].enough \/ ~Present(task[t].mon)'
<1> DEFINE m == task[t].mon
           up == task[t].up
<1>1. m \in Monitors /\ mon \in [Monitors -> MonitorRow] /\ budget.faults \in Nat
      /\ task \in [Tasks -> TaskRecord] /\ up \in BOOLEAN
  BY DEF Record, Typed, TypeOK, TaskShape, WellFormed, TaskRecord
<1>2. PICK e \in {"none", "read", "update", "insert"} :
        LET v == Verdict(up, CounterRead(m, e # "read"))
            stored == Present(m) /\ e \notin {"update", "insert"}
            res == IF stored THEN v ELSE Fallback(up)
        IN /\ Faulty(e)
           /\ IF Present(m) /\ e # "update"
              THEN SetRow(m, [mon[m] EXCEPT !.status = v.status, !.fails = v.fails])
              ELSE UNCHANGED mon
           /\ SetTask(t, [task[t] EXCEPT !.pc = "process", !.status = res.status,
                                         !.enough = res.fails >= res.max])
  BY DEF Record
<1>3. e = "none" /\ task'[t].mon = m
  <2>1. e = "none"
    BY <1>1, <1>2, FaultsSpent
  <2>2. task'[t].mon = m
    BY <1>1 DEF Record, SetTask, TaskRecord
  <2> QED BY <2>1, <2>2
<1>4. CASE ~Present(m)
  <2>1. mon' = mon
    BY <1>2, <1>4
  <2> QED BY <1>3, <1>4, <2>1 DEF Present
<1>5. CASE Present(m)
  <2> DEFINE v == Verdict(up, CounterRead(m, TRUE))
             nxt == [task[t] EXCEPT !.pc = "process", !.status = v.status,
                                    !.enough = v.fails >= v.max]
  <2>1. task'[t] = nxt
    BY <1>1, <1>2, <1>3, <1>5 DEF SetTask
  <2>2. nxt.status = v.status /\ nxt.enough = (v.fails >= v.max)
    BY <1>1 DEF TaskRecord
  <2>3. v.status = "down" => v.fails >= v.max
    BY DEF Verdict
  <2> HIDE DEF v, nxt
  <2> QED BY <2>1, <2>2, <2>3
<1> QED BY <1>4, <1>5

LEMMA NextThreshold == ThresholdInv /\ [Next]_vars => ThresholdInv'
<1> SUFFICES ASSUME ThresholdInv, [Next]_vars PROVE ThresholdInv'
    OBVIOUS
<1>1. Typed /\ Typed' /\ due \subseteq Monitors
  BY NextTyped DEF ThresholdInv, Typed, TypeOK
<1>2. budget'.faults <= budget.faults /\ budget'.faults \in Nat
      /\ budget.faults \in Nat /\ budget.faults <= MaxFaults /\ MaxFaults \in Nat
  BY <1>1, BudgetNeverGrows, ConstantsAssumption DEF ThresholdInv, Typed, TypeOK
<1>3. \A m \in Monitors : Exists(m) => /\ Exists(m)'
                                       /\ ~Present(m) => (~Present(m))'
  BY <1>1, RowLife DEF Exists, Present
<1>4. \A m \in due' : Exists(m)'
  <2>1. ASSUME SchedTick PROVE \A m \in due' : Exists(m)'
    BY <2>1 DEF SchedTick, Active, Present, Exists, db
  <2>2. CASE ~SchedTick
    <3>1. due' \subseteq due
      BY <2>2 DEF Next, HealthFlip, Operator, Store, Update, Destroy, TogglePause,
           Reset, ResetWith, Check, Restore, SaveTelegram, SchedSpawn, TaskStep,
           Probe, Record, OpenIncident, ResolveIncident, ProcessNothing, NotifyOff,
           NotifyOn, Send, Broadcast, Cancel, Restart, vars
    <3> QED BY <1>1, <1>3, <3>1 DEF ThresholdInv
  <2> QED BY <2>1, <2>2
<1>5. ASSUME NEW t \in Tasks, task'[t].pc # "idle" PROVE Exists(task[t].mon)'
  <2>1. task[t].pc # "idle" => task[t].mon \in Monitors /\ Exists(task[t].mon)
    BY DEF ThresholdInv, Typed, TaskShape, WellFormed
  <2>2. Record(t) => task'[t].mon = task[t].mon /\ task[t].pc # "idle"
    BY DEF Record, SetTask, ThresholdInv, Typed, TypeOK, TaskRecord
  <2> QED BY <1>1, <1>3, <1>5, <2>1, <2>2, TaskLife
<1>6. ASSUME budget'.faults = MaxFaults, NEW t \in Tasks,
             task'[t].pc = "process", task'[t].status = "down"
      PROVE  task'[t].enough \/ ~Present(task[t].mon)'
  <2>1. budget.faults = MaxFaults
    BY <1>2, <1>6
  <2>2. CASE task'[t] = task[t]
    <3>1. task[t].mon \in Monitors /\ Exists(task[t].mon)
          /\ (task[t].enough \/ ~Present(task[t].mon))
      BY <1>6, <2>1, <2>2 DEF ThresholdInv, Typed, TaskShape, WellFormed
    <3> QED BY <1>3, <2>2, <3>1
  <2>3. CASE Record(t)
    <3>1. Exists(task[t].mon) /\ task'[t].mon = task[t].mon
      BY <2>3 DEF Record, SetTask, ThresholdInv, Typed, TypeOK, TaskRecord
    <3>2. task'[t].enough \/ ~Present(task[t].mon)'
      BY <1>1, <1>6, <2>1, <2>3, <3>1, RecordThreshold
    <3> QED BY <3>1, <3>2
  <2> QED BY <1>1, <1>6, <2>2, <2>3, TaskLife
<1> QED BY <1>1, <1>2, <1>4, <1>5, <1>6 DEF ThresholdInv

LEMMA InitThreshold == Init => ThresholdInv
  BY InitTyped, ConstantsAssumption DEF Init, Idle, ThresholdInv

LEMMA OnlyOpenIncidentOpens ==
  ASSUME ThresholdInv, [Next]_vars, budget.faults = MaxFaults
  PROVE  OpensAtThreshold
<1> SUFFICES ASSUME NEW i \in IncidentIds, openOn[i] = NoMonitor, openOn'[i] # NoMonitor
             PROVE  \E t \in Tasks :
                      /\ task[t].pc = "process" /\ task'[t].pc # "process"
                      /\ task[t].mon = openOn'[i] /\ task[t].enough
    BY DEF OpensAtThreshold
<1>1. Typed /\ openOn \in [IncidentIds -> Monitors \cup {NoMonitor}]
      /\ task \in [Tasks -> TaskRecord]
  BY DEF ThresholdInv, Typed, TypeOK
<1>2. ~Quiet /\ (\A t \in Tasks : ~Settled(t)) /\ (\A D \in SUBSET Tasks : ~Dropped(D))
  BY DEF Quiet, Settled, Dropped
<1>3. \A S \in SUBSET Monitors : ~Purged(S)
  BY DEF Purged, Purge
<1>4. \A t \in Tasks : ~ResolveIncident(t)
  BY <1>1 DEF ResolveIncident
<1>5. PICK t \in Tasks : OpenIncident(t)
  BY <1>1, <1>2, <1>3, <1>4, StepKind
<1>6. PICK j \in Fresh : openOn' = [openOn EXCEPT ![j] = task[t].mon]
  BY <1>5 DEF OpenIncident
<1>7. openOn'[i] = task[t].mon
  BY <1>1, <1>6 DEF Fresh
<1>8. task[t].pc = "process" /\ task[t].status = "down" /\ Present(task[t].mon)
      /\ \E kind, k : Processed(t, kind, k)
  BY <1>5 DEF OpenIncident
<1>9. task'[t].pc # "process"
  BY <1>1, <1>8 DEF Processed, SetTask, TaskRecord
<1> QED BY <1>7, <1>8, <1>9 DEF ThresholdInv

(* As long as no statement has failed, an incident is opened only on the   *)
(* evidence of max_retries recorded failures in a row.                     *)
THEOREM IncidentsAreEarned == Spec => OpenedAboveThreshold
<1>1. ThresholdInv /\ [Next]_vars => [budget.faults = MaxFaults => OpensAtThreshold]_vars
  BY OnlyOpenIncidentOpens
<1> QED BY InitThreshold, NextThreshold, <1>1, PTL DEF Spec, OpenedAboveThreshold

-----------------------------------------------------------------------------
(* Status and incidents agree.  Where no two tasks work on one monitor,    *)
(* and neither a statement fails nor a task is cut short, the two writes   *)
(* of a probe (the row by record, the incident by process_probe) follow    *)
(* each other before anything else reports on the monitor.                 *)

Agrees(m) == /\ mon[m].status = "up" => OpenOf(m) = {}
             /\ mon[m].status = "down" => OpenOf(m) # {}

Processing(t, m) == task[t].pc = "process" /\ task[t].mon = m

SettledPart(m) ==
  /\ ~Present(m) => mon[m].status = "pending"
  /\ (\A t \in Tasks : ~Processing(t, m)) => Agrees(m)
  /\ \A t \in Tasks : Processing(t, m) =>
       mon[m].status \notin {"up", "down"} \/ mon[m].status = task[t].status

SettledInv == AlertInv /\ \A m \in Monitors : SettledPart(m)

(* No statement has failed, no request was dropped, no restart happened.   *)
Undisturbed ==
  /\ budget.faults = MaxFaults
  /\ budget.cancels = MaxCancels /\ budget.restarts = MaxRestarts

(* No two tasks work on the same monitor at once.                          *)
NoOverlap ==
  \A t, u \in Tasks : task[t].mon = task[u].mon /\ task[t].mon # NoMonitor => t = u

LEMMA NothingFails ==
  ASSUME Typed, Undisturbed, Undisturbed'
  PROVE  /\ \A e : Faulty(e) => e = "none"
         /\ ~Spend("cancels") /\ ~Spend("restarts")
<1>1. \A e : Faulty(e) => e = "none"
  BY FaultsSpent, ConstantsAssumption DEF Undisturbed
<1>2. ~Spend("cancels") /\ ~Spend("restarts")
  BY ConstantsAssumption DEF Spend, Undisturbed, Typed, TypeOK
<1> QED BY <1>1, <1>2

LEMMA PurgeElsewhere ==
  ASSUME NEW S \in SUBSET Monitors, Purge(S), NEW m \in Monitors \ S
  PROVE  OpenOf(m)' = OpenOf(m)
  BY ConstantsAssumption DEF Purge, OpenOf

(* A monitor whose row, incidents and processing tasks a step leaves alone. *)
LEMMA SettledElsewhere ==
  ASSUME NEW n \in Monitors, SettledPart(n), mon'[n] = mon[n], Agrees(n)' <=> Agrees(n),
         \A u \in Tasks : /\ Processing(u, n)' <=> Processing(u, n)
                          /\ Processing(u, n) => task'[u] = task[u]
  PROVE  SettledPart(n)'
<1>1. ~Present(n)' => mon'[n].status = "pending"
  BY DEF SettledPart, Present
<1>2. (\A t \in Tasks : ~Processing(t, n)') => Agrees(n)'
  BY DEF SettledPart, Processing
<1>3. ASSUME NEW t \in Tasks, Processing(t, n)'
      PROVE  mon'[n].status \notin {"up", "down"} \/ mon'[n].status = task'[t].status
  <2>1. Processing(t, n) /\ task'[t] = task[t]
    BY <1>3
  <2>2. mon[n].status \notin {"up", "down"} \/ mon[n].status = task[t].status
    BY <2>1 DEF SettledPart
  <2> QED BY <2>1, <2>2
<1> QED BY <1>1, <1>2, <1>3 DEF SettledPart

(* Steps that give no verdict and take no task through process_probe. *)
LEMMA NoVerdictStep ==
  ASSUME SettledInv, AlertInv',
         \A m \in Monitors :
           \/ /\ mon'[m].status \notin {"up", "down"}
              /\ ~Present(m)' => mon'[m].status = "pending"
           \/ /\ mon'[m].status = mon[m].status /\ mon'[m].row = mon[m].row
              /\ OpenOf(m)' = OpenOf(m),
         \A t \in Tasks : \/ task'[t] = task[t]
                          \/ task[t].pc # "process" /\ task'[t].pc # "process"
  PROVE  SettledInv'
<1> SUFFICES ASSUME NEW m \in Monitors PROVE SettledPart(m)'
    BY DEF SettledInv
<1>1. \A t \in Tasks : Processing(t, m)' <=> Processing(t, m)
  BY DEF Processing
<1>2. SettledPart(m)
  BY DEF SettledInv
<1>3. CASE /\ mon'[m].status \notin {"up", "down"}
           /\ ~Present(m)' => mon'[m].status = "pending"
  BY <1>3 DEF SettledPart, Agrees
<1>4. CASE /\ mon'[m].status = mon[m].status /\ mon'[m].row = mon[m].row
           /\ OpenOf(m)' = OpenOf(m)
  <2>1. Agrees(m)' <=> Agrees(m)
    BY <1>4 DEF Agrees
  <2>2. \A t \in Tasks : Processing(t, m)' => task'[t] = task[t]
    BY DEF Processing
  <2> QED BY <1>1, <1>2, <1>4, <2>1, <2>2 DEF SettledPart, Present
<1> QED BY <1>3, <1>4

LEMMA OperatorSettled ==
  ASSUME SettledInv, AlertInv', Undisturbed, Undisturbed', Operator
  PROVE  SettledInv'
<1> DEFINE Rows == \A m \in Monitors :
                     \/ /\ mon'[m].status \notin {"up", "down"}
                        /\ ~Present(m)' => mon'[m].status = "pending"
                     \/ /\ mon'[m].status = mon[m].status
                        /\ mon'[m].row = mon[m].row
                        /\ OpenOf(m)' = OpenOf(m)
<1>0. Typed /\ mon \in [Monitors -> MonitorRow] /\ task \in [Tasks -> TaskRecord]
  BY DEF SettledInv, AlertInv, Typed, TypeOK
<1>1. ASSUME NEW m \in Monitors, NEW r, SetRow(m, r),
             \/ r.status \notin {"up", "down"} /\ (r.row = "present" \/ r.status = "pending")
             \/ r.status = mon[m].status /\ r.row = mon[m].row /\ UNCHANGED openOn,
             UNCHANGED openOn \/ Purge({m})
      PROVE  Rows
  <2>1. mon'[m] = r /\ \A n \in Monitors \ {m} : mon'[n] = mon[n]
    BY <1>0, <1>1 DEF SetRow
  <2>2. \A n \in Monitors \ {m} : OpenOf(n)' = OpenOf(n)
    BY <1>1, PurgeElsewhere DEF OpenOf
  <2>3. UNCHANGED openOn => OpenOf(m)' = OpenOf(m)
    BY DEF OpenOf
  <2> QED BY <1>1, <2>1, <2>2, <2>3 DEF Present
<1>2. ASSUME NEW m \in Monitors, NEW r \in Retries, NEW t \in Tasks, Store(m, r, t)
      PROVE Rows
  BY <1>1, <1>2 DEF Store, NewRow
<1>3. ASSUME NEW m \in Monitors, NEW r \in Retries, NEW t \in Tasks, Update(m, r, t)
      PROVE Rows
  <2> DEFINE n == [mon[m] EXCEPT !.retries = r]
  <2>1. n.row = mon[m].row /\ n.status = mon[m].status
    BY <1>0 DEF MonitorRow
  <2>2. SetRow(m, n) /\ UNCHANGED openOn
    BY <1>3 DEF Update
  <2> HIDE DEF n
  <2> QED BY <1>1, <2>1, <2>2
<1>4. ASSUME NEW m \in Monitors, Destroy(m) PROVE Rows
  <2>1. NoRow("deleted").status = "pending"
    BY DEF NoRow
  <2>2. SetRow(m, NoRow("deleted")) /\ Purge({m})
    BY <1>4 DEF Destroy
  <2> QED BY <1>1, <2>1, <2>2
<1>5. ASSUME NEW m \in Monitors, TogglePause(m) PROVE Rows
  <2> DEFINE n == [mon[m] EXCEPT !.active = ~@, !.fails = 0,
                     !.status = IF mon[m].active THEN "paused" ELSE "pending"]
  <2>1. n.row = "present" /\ n.status \in {"paused", "pending"}
    BY <1>0, <1>5 DEF TogglePause, Present, MonitorRow
  <2>2. SetRow(m, n) /\ UNCHANGED openOn
    BY <1>5 DEF TogglePause
  <2> HIDE DEF n
  <2> QED BY <1>1, <2>1, <2>2
<1>6. ASSUME NEW m \in Monitors, Reset(m) PROVE Rows
  <2> DEFINE n == [mon[m] EXCEPT !.fails = 0, !.status = "pending"]
  <2>1. n.status = "pending"
    BY <1>0 DEF MonitorRow
  <2>2. SetRow(m, n) /\ Purge({m})
    <3>1. PICK failed \in {"none", "incidents", "row"} :
            LET fault == IF failed = "none" THEN 0 ELSE 1
            IN /\ budget' = [budget EXCEPT !.ops = @ - 1, !.faults = @ - fault]
               /\ IF failed = "incidents" THEN UNCHANGED <<openOn, downAlert>>
                                          ELSE Purge({m})
               /\ IF failed = "none" THEN SetRow(m, n) ELSE UNCHANGED mon
      BY <1>6 DEF Reset, ResetWith
    <3>2. failed # "none" => budget'.faults = budget.faults - 1
      BY <1>0, <3>1 DEF Typed, TypeOK
    <3>3. failed = "none"
      BY <3>2, ConstantsAssumption DEF Undisturbed
    <3> QED BY <3>1, <3>3
  <2> HIDE DEF n
  <2> QED BY <1>1, <2>1, <2>2
<1>7. ASSUME NEW replace \in BOOLEAN, NEW act \in BOOLEAN,
             NEW new \in SUBSET Monitors, NEW r \in Retries,
             Restore(replace, new, r, act)
      PROVE Rows
  <2> DEFINE gone == {m \in Monitors : replace /\ Present(m)}
  <2>1. \A m \in Monitors \ gone : OpenOf(m)' = OpenOf(m)
    BY <1>7, PurgeElsewhere DEF Restore
  <2>2. \A m \in Monitors :
          \/ m \in gone /\ mon'[m] = NoRow("deleted")
          \/ mon'[m] = NewRow(r, act)
          \/ m \notin gone /\ mon'[m] = mon[m]
    BY <1>7 DEF Restore
  <2>3. /\ NoRow("deleted").status = "pending"
        /\ NewRow(r, act).status = "pending"
    BY DEF NoRow, NewRow
  <2> HIDE DEF gone
  <2> QED BY <2>1, <2>2, <2>3
<1>8. ASSUME SaveTelegram \/ \E m \in Monitors, t \in Tasks : Check(m, t) PROVE Rows
  BY <1>8 DEF SaveTelegram, Check, db, OpenOf
<1>9. Rows
  BY <1>2, <1>3, <1>4, <1>5, <1>6, <1>7, <1>8 DEF Operator
<1>10. \A t \in Tasks : \/ task'[t] = task[t]
                        \/ task[t].pc # "process" /\ task'[t].pc # "process"
  <2>1. UNCHANGED task \/ \E t \in Tasks : \E m, kind : Start(t, m, kind)
    <3>1. \A m \in Monitors : Reset(m) => UNCHANGED task
      BY DEF Reset, ResetWith
    <3>2. \A m \in Monitors : Destroy(m) \/ TogglePause(m) => UNCHANGED task
      BY DEF Destroy, TogglePause
    <3>3. \A m \in Monitors, r \in Retries, t \in Tasks :
            Store(m, r, t) \/ Update(m, r, t) => Start(t, m, "spawned")
      BY DEF Store, Update
    <3>4. \A m \in Monitors, t \in Tasks : Check(m, t) => Start(t, m, "request")
      BY DEF Check
    <3>5. \A replace, act \in BOOLEAN, new \in SUBSET Monitors, r \in Retries :
            Restore(replace, new, r, act) => UNCHANGED task
      BY DEF Restore
    <3>6. SaveTelegram => UNCHANGED task
      BY DEF SaveTelegram
    <3> QED BY <3>1, <3>2, <3>3, <3>4, <3>5, <3>6 DEF Operator
  <2>2. ASSUME NEW t \in Tasks, NEW m, NEW kind, Start(t, m, kind)
        PROVE  \A u \in Tasks : \/ task'[u] = task[u]
                                \/ task[u].pc # "process" /\ task'[u].pc # "process"
    BY <1>0, <2>2 DEF Start, SetTask, Idle
  <2> QED BY <2>1, <2>2
<1> HIDE DEF Rows
<1> QED BY <1>9, <1>10, NoVerdictStep DEF Rows

LEMMA RecordSettled ==
  ASSUME SettledInv, NoOverlap, AlertInv', Undisturbed, Undisturbed',
         NEW t \in Tasks, Record(t)
  PROVE  SettledInv'
<1>1. /\ mon \in [Monitors -> MonitorRow] /\ task \in [Tasks -> TaskRecord]
      /\ task[t].pc = "record" /\ task[t].mon \in Monitors /\ Typed
  BY DEF Record, SettledInv, AlertInv, Typed, TypeOK, TaskShape, WellFormed
<1>2. PICK m \in Monitors : m = task[t].mon
  BY <1>1
<1> DEFINE up == task[t].up
           v == Verdict(up, CounterRead(m, TRUE))
           row == [mon[m] EXCEPT !.status = v.status, !.fails = v.fails]
           nxt == [task[t] EXCEPT !.pc = "process", !.status = v.status,
                                  !.enough = v.fails >= v.max]
<1>3. PICK e \in {"none", "read", "update", "insert"} :
        LET w == Verdict(up, CounterRead(m, e # "read"))
            stored == Present(m) /\ e \notin {"update", "insert"}
            res == IF stored THEN w ELSE Fallback(up)
        IN /\ Faulty(e)
           /\ IF Present(m) /\ e # "update"
              THEN SetRow(m, [mon[m] EXCEPT !.status = w.status, !.fails = w.fails])
              ELSE UNCHANGED mon
           /\ SetTask(t, [task[t] EXCEPT !.pc = "process", !.status = res.status,
                                         !.enough = res.fails >= res.max])
           /\ UNCHANGED openOn
  BY <1>2 DEF Record
<1>4. e = "none"
  BY <1>1, <1>3, NothingFails
<1>5. /\ task'[t].pc = "process" /\ task'[t].mon = m
      /\ \A u \in Tasks \ {t} : task'[u] = task[u] /\ task[u].mon # m
  <2>1. task'[t].pc = "process" /\ task'[t].mon = m
    BY <1>1, <1>2 DEF Record, SetTask, TaskRecord
  <2>2. \A u \in Tasks \ {t} : task'[u] = task[u]
    BY <1>1 DEF Record, SetTask
  <2>3. \A u \in Tasks \ {t} : task[u].mon # m
    BY <1>2, ConstantsAssumption DEF NoOverlap
  <2> QED BY <2>1, <2>2, <2>3
<1>6. \A n \in Monitors \ {m} : mon'[n] = mon[n] /\ OpenOf(n)' = OpenOf(n)
  BY <1>1, <1>3 DEF SetRow, OpenOf
<1>7. ASSUME NEW n \in Monitors, n # m PROVE SettledPart(n)'
  <2>1. \A u \in Tasks : /\ Processing(u, n)' <=> Processing(u, n)
                         /\ Processing(u, n) => task'[u] = task[u]
    BY <1>1, <1>2, <1>5, <1>7 DEF Processing
  <2>2. Agrees(n)' <=> Agrees(n)
    BY <1>6, <1>7 DEF Agrees
  <2>3. SettledPart(n)
    BY DEF SettledInv
  <2> QED BY <1>6, <1>7, <2>1, <2>2, <2>3, SettledElsewhere
<1>8. SettledPart(m)'
  <2>1. Processing(t, m)'
    BY <1>5 DEF Processing
  <2>2. CASE ~Present(m)
    <3>1. mon' = mon /\ mon[m].status = "pending"
      BY <1>3, <2>2 DEF SettledInv, SettledPart
    <3> QED BY <2>1, <3>1 DEF SettledPart
  <2>3. CASE Present(m)
    <3>1. SetRow(m, row) /\ SetTask(t, nxt)
      BY <1>3, <1>4, <2>3
    <3>2. row.status = v.status /\ row.row = "present" /\ nxt.status = v.status
      BY <1>1, <2>3 DEF MonitorRow, TaskRecord, Present
    <3>3. mon'[m] = row /\ task'[t] = nxt
      BY <1>1, <3>1 DEF SetRow, SetTask
    <3> HIDE DEF row, nxt
    <3>4. \A u \in Tasks : Processing(u, m)' => u = t
      BY <1>5 DEF Processing
    <3> QED BY <2>1, <3>2, <3>3, <3>4 DEF SettledPart, Present
  <2> QED BY <2>2, <2>3
<1> QED BY <1>7, <1>8 DEF SettledInv

(* The steps of process_probe act on what record has found. *)
LEMMA ProcessSettled ==
  ASSUME SettledInv, NoOverlap, AlertInv', Undisturbed, Undisturbed', NEW t \in Tasks,
         OpenIncident(t) \/ ResolveIncident(t) \/ ProcessNothing(t)
  PROVE  SettledInv'
<1>1. /\ task[t].pc = "process" /\ UNCHANGED mon /\ Typed
      /\ task \in [Tasks -> TaskRecord] /\ task[t].mon \in Monitors
      /\ openOn \in [IncidentIds -> Monitors \cup {NoMonitor}]
      /\ \E kind, i : Processed(t, kind, i)
  BY DEF OpenIncident, ResolveIncident, ProcessNothing, db, SettledInv, AlertInv,
         Typed, TypeOK, TaskShape, WellFormed
<1>2. PICK m \in Monitors : m = task[t].mon
  BY <1>1
<1>3. /\ task'[t].pc # "process"
      /\ \A u \in Tasks \ {t} : task'[u] = task[u] /\ task[u].mon # m
  <2>1. task'[t].pc # "process" /\ \A u \in Tasks \ {t} : task'[u] = task[u]
    BY <1>1 DEF Processed, SetTask, TaskRecord
  <2>2. \A u \in Tasks \ {t} : task[u].mon # m
    BY <1>2, ConstantsAssumption DEF NoOverlap
  <2> QED BY <2>1, <2>2
<1>4. /\ \A n \in Monitors : n # m => OpenOf(n)' = OpenOf(n)
      /\ task[t].status = "up" => OpenOf(m)' = {}
      /\ task[t].status = "down" /\ Present(m) => OpenOf(m)' # {}
  <2>1. CASE OpenIncident(t)
    <3>1. PICK i \in Fresh : openOn' = [openOn EXCEPT ![i] = m]
      BY <1>2, <2>1 DEF OpenIncident
    <3>2. task[t].status = "down" /\ i \in IncidentIds /\ openOn[i] = NoMonitor
      BY <2>1 DEF OpenIncident, Fresh
    <3>3. \A n \in Monitors : n # m => OpenOf(n)' = OpenOf(n)
      BY <1>1, <3>1, <3>2, ConstantsAssumption DEF OpenOf
    <3>4. i \in OpenOf(m)'
      BY <1>1, <3>1, <3>2 DEF OpenOf
    <3> QED BY <3>2, <3>3, <3>4
  <2>2. CASE ResolveIncident(t)
    <3>1. PICK i \in OpenOf(m) : openOn' = [openOn EXCEPT ![i] = NoMonitor]
      BY <1>2, <2>2 DEF ResolveIncident
    <3>2. task[t].status = "up" /\ i \in IncidentIds /\ openOn[i] = m
      BY <2>2 DEF ResolveIncident, OpenOf
    <3>3. \A n \in Monitors : n # m => OpenOf(n)' = OpenOf(n)
      BY <1>1, <3>1, <3>2, ConstantsAssumption DEF OpenOf
    <3>4. OpenOf(m) = {i}
      BY <3>1 DEF SettledInv, AlertInv, AtMostOneOpen
    <3>5. OpenOf(m)' = {}
      BY <1>1, <3>1, <3>2, <3>4, ConstantsAssumption DEF OpenOf
    <3> QED BY <3>2, <3>3, <3>5
  <2>3. CASE ProcessNothing(t)
    <3>1. PICK e \in {"none", "statement"} :
            /\ Faulty(e)
            /\ e = "none" => CASE task[t].status = "down" ->
                                    OpenOf(m) # {} \/ ~Present(m)
                               [] task[t].status = "up" -> OpenOf(m) = {}
                               [] OTHER -> TRUE
      BY <1>2, <2>3 DEF ProcessNothing
    <3>2. e = "none"
      BY <1>1, <3>1, NothingFails
    <3>3. /\ task[t].status = "down" => OpenOf(m) # {} \/ ~Present(m)
          /\ task[t].status = "up" => OpenOf(m) = {}
      BY <3>1, <3>2
    <3>4. \A n \in Monitors : OpenOf(n)' = OpenOf(n)
      BY <2>3 DEF ProcessNothing, db, OpenOf
    <3> QED BY <3>3, <3>4
  <2> QED BY <2>1, <2>2, <2>3
<1>5. ASSUME NEW n \in Monitors PROVE SettledPart(n)'
  <2>2. SettledPart(n)
    BY DEF SettledInv
  <2>3. CASE n # m
    <3>1. \A u \in Tasks : /\ Processing(u, n)' <=> Processing(u, n)
                           /\ Processing(u, n) => task'[u] = task[u]
      BY <1>2, <1>3, <2>3 DEF Processing
    <3>2. Agrees(n)' <=> Agrees(n)
      BY <1>1, <1>4, <2>3 DEF Agrees
    <3> QED BY <1>1, <2>2, <3>1, <3>2, SettledElsewhere
  <2>4. CASE n = m
    <3>1. Processing(t, n) /\ \A u \in Tasks : ~Processing(u, n)'
      BY <1>1, <1>2, <1>3, <2>4 DEF Processing
    <3>2. mon[n].status \in {"up", "down"} => mon[n].status = task[t].status /\ Present(n)
      BY <2>2, <3>1 DEF SettledPart
    <3> QED BY <1>1, <1>4, <2>2, <2>4, <3>1, <3>2 DEF SettledPart, Agrees, Present
  <2> QED BY <2>3, <2>4
<1> QED BY <1>5 DEF SettledInv

LEMMA NextSettled ==
  SettledInv /\ NoOverlap /\ Undisturbed /\ Undisturbed' /\ [Next]_vars => SettledInv'
<1> SUFFICES ASSUME SettledInv, NoOverlap, Undisturbed, Undisturbed', [Next]_vars
             PROVE  SettledInv'
    OBVIOUS
<1>1. /\ AlertInv' /\ Typed /\ Typed'
      /\ task \in [Tasks -> TaskRecord]
  BY NextAlerts DEF SettledInv, AlertInv, Typed, TypeOK
<1>3. CASE Operator
  BY <1>1, <1>3, OperatorSettled
<1>4. ASSUME NEW t \in Tasks, Record(t) PROVE SettledInv'
  BY <1>1, <1>4, RecordSettled
<1>5. ASSUME NEW t \in Tasks,
             OpenIncident(t) \/ ResolveIncident(t) \/ ProcessNothing(t)
      PROVE  SettledInv'
  BY <1>1, <1>5, ProcessSettled
<1>6. ASSUME UNCHANGED <<mon, openOn>>,
             \A t \in Tasks : \/ task'[t] = task[t]
                              \/ task[t].pc # "process" /\ task'[t].pc # "process"
      PROVE  SettledInv'
  <2>1. \A m \in Monitors : OpenOf(m)' = OpenOf(m)
    BY <1>6 DEF OpenOf
  <2> QED BY <1>1, <1>6, <2>1, NoVerdictStep
<1>7. ASSUME NEW t \in Tasks,
             Probe(t) \/ NotifyOff(t) \/ NotifyOn(t) \/ Send(t) \/ Broadcast(t)
      PROVE  SettledInv'
  <2>1. UNCHANGED <<mon, openOn>> /\ task[t].pc # "process"
    BY <1>7 DEF Probe, NotifyOff, NotifyOn, Send, Broadcast, db
  <2>2. task'[t].pc # "process" /\ \A u \in Tasks \ {t} : task'[u] = task[u]
    <3>1. CASE Probe(t)
      BY <1>1, <3>1 DEF Probe, SetTask, TaskRecord
    <3>2. CASE NotifyOff(t) \/ Send(t)
      <4>1. Told(t)
        BY <3>2 DEF NotifyOff, Send
      <4> QED BY <1>1, <4>1 DEF Told, SetTask, TaskRecord
    <3>3. CASE NotifyOn(t)
      BY <1>1, <3>3 DEF NotifyOn, SetTask, TaskRecord
    <3>4. CASE Broadcast(t)
      BY <1>1, <3>4 DEF Broadcast, SetTask, Idle
    <3> QED BY <1>7, <3>1, <3>2, <3>3, <3>4
  <2> QED BY <1>6, <2>1, <2>2
<1>8. ASSUME NEW m \in Monitors, NEW t \in Tasks, SchedSpawn(m, t) PROVE SettledInv'
  <2>1. UNCHANGED <<mon, openOn>> /\ task[t].pc # "process"
    BY <1>8 DEF SchedSpawn, Start, db
  <2>2. task'[t].pc # "process" /\ \A u \in Tasks \ {t} : task'[u] = task[u]
    BY <1>1, <1>8 DEF SchedSpawn, Start, SetTask, Idle
  <2> QED BY <1>6, <2>1, <2>2
<1>9. CASE (\E m \in Monitors : HealthFlip(m)) \/ SchedTick \/ UNCHANGED vars
  BY <1>6, <1>9 DEF HealthFlip, SchedTick, db, vars
<1>10. ~Restart /\ \A t \in Tasks : ~Cancel(t)
  BY <1>1, NothingFails DEF Restart, Cancel
<1> QED BY <1>3, <1>4, <1>5, <1>7, <1>8, <1>9, <1>10 DEF Next, TaskStep

LEMMA InitSettled == Init => SettledInv
<1> SUFFICES ASSUME Init PROVE SettledInv
    OBVIOUS
<1>1. AlertInv
  BY InitAlerts
<1>2. \A m \in Monitors : SettledPart(m)
  BY DEF Init, NoRow, Idle, SettledPart, Processing, Agrees, Present
<1> QED BY <1>1, <1>2 DEF SettledInv

(* As long as no two tasks work on the same monitor at once and nothing    *)
(* fails or is cut short, a monitor that no task works on has an open      *)
(* incident when its status is "down" and none when it is "up", whatever   *)
(* the operator and the tasks of other monitors do.                        *)
THEOREM SerialAgreement ==
  Spec /\ []NoOverlap /\ []Undisturbed => []SettledAgreement
<1>1. SettledInv => SettledAgreement
  BY DEF SettledInv, SettledPart, SettledAgreement, Processing, Agrees
<1>2. SettledInv /\ NoOverlap /\ Undisturbed /\ Undisturbed' /\ [Next]_vars => SettledInv'
  BY NextSettled
<1> QED BY InitSettled, <1>1, <1>2, PTL DEF Spec
=============================================================================
