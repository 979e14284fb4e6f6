---------------------------- MODULE LivePageProofs ----------------------------
(* Theorems about LivePage for any number of monitors, requests, events in  *)
(* the channel, edits, flips and faults.                                    *)
EXTENDS LivePage, TLAPS

(* Status and incident of a monitor that is not marred agree unless a probe *)
(* of it is between its two writes; then the status is what every such      *)
(* probe recorded, or what an edit has made of it since.                    *)
OnItsWay(m) == \E l \in Lanes : task[m][l] \in Recorded

RowAgrees(m) ==
  IF OnItsWay(m)
  THEN \A l \in Lanes : task[m][l] \in Recorded =>
         /\ mon[m].status \in {task[m][l], "paused", "pending"}
         /\ \A k \in Lanes : task[m][k] \in Recorded => task[m][k] = task[m][l]
  ELSE /\ mon[m].status = "down" => mon[m].incident
       /\ mon[m].status = "up" => ~mon[m].incident

TableAgrees == \A m \in Monitors \ marred : RowAgrees(m)

(* What a request has read is still true of every monitor that nothing     *)
(* has touched since.                                                      *)
AnswerFresh ==
  \A f \in Slots : fetch[f].stage = "listed" =>
    \A m \in Monitors \ fetch[f].moved :
      m \notin Between \cup marred /\ fetch[f].answer.shown[m] = Shown[m]

Inv == TypeOK /\ TableAgrees /\ AnswerFresh /\ SummaryAgrees

Row == [status : Statuses, active : BOOLEAN, public : BOOLEAN, incident : BOOLEAN]
Stage == {"idle", "probe", "send"} \cup Recorded
FetchRecord == [stage : {"none", "asked", "listed", "answered"}, answer : Summary,
             moved : SUBSET Monitors]

-----------------------------------------------------------------------------
(* Lemmas about the operators the actions are built from. *)

LEMMA SummaryTyped ==
  ASSUME mon \in [Monitors -> Row]
  PROVE  /\ Shown \in [Monitors -> Statuses \cup {"hidden"}]
         /\ Ongoing \in SUBSET Monitors
         /\ Listed \in SUBSET Monitors
  BY DEF Row, Shown, Ongoing, Listed

LEMMA NoFetchTyped == NoFetch \in FetchRecord
  BY DEF NoFetch, NoSummary, FetchRecord, Summary, Statuses

LEMMA MovedTyped ==
  ASSUME fetch \in [Slots -> FetchRecord], NEW m \in Monitors, Moved(m)
  PROVE  fetch' \in [Slots -> FetchRecord]
<1>1. ASSUME NEW f \in Slots
      PROVE  [fetch[f] EXCEPT !.moved = @ \cup {m}] \in FetchRecord
  BY DEF FetchRecord
<1> QED BY <1>1 DEF Moved

(* A step that changes the row or the probe of one monitor only and notes  *)
(* that leaves what requests have read alone.                              *)
LEMMA MovedFresh ==
  ASSUME Inv, NEW m \in Monitors, Moved(m),
         \A n \in Monitors \ {m} : mon'[n] = mon[n] /\ task'[n] = task[n],
         marred' \subseteq marred \cup {m}
  PROVE  AnswerFresh' /\ SummaryAgrees'
<1>1. fetch \in [Slots -> FetchRecord]
  BY DEF Inv, TypeOK, FetchRecord
<1>2. ASSUME NEW f \in Slots
      PROVE  /\ fetch'[f].stage = fetch[f].stage
             /\ fetch'[f].answer = fetch[f].answer
             /\ fetch[f].moved \subseteq fetch'[f].moved
             /\ fetch[f].stage = "listed" => m \in fetch'[f].moved
  BY <1>1 DEF Moved, FetchRecord
<1>3. \A n \in Monitors \ {m} : Shown'[n] = Shown[n]
  BY DEF Shown, Listed
<1>3a. \A n \in Monitors \ {m} : n \in Between' => n \in Between
  BY DEF Between
<1>4. AnswerFresh'
  BY <1>2, <1>3, <1>3a DEF Inv, AnswerFresh
<1>5. SummaryAgrees'
  BY <1>2 DEF Inv, SummaryAgrees
<1> QED BY <1>4, <1>5

(* A step that leaves table and probes alone and gives no request a new     *)
(* answer keeps the three conditions.                                       *)
LEMMA QuietFresh ==
  ASSUME Inv, UNCHANGED <<mon, task, marred>>,
         \A f \in Slots : fetch'[f] = fetch[f] \/ fetch'[f].stage \in {"none", "asked"}
  PROVE  TableAgrees' /\ AnswerFresh' /\ SummaryAgrees'
<1>1. \A m \in Monitors : Shown'[m] = Shown[m]
  BY DEF Shown, Listed
<1>2. TableAgrees' /\ Between' = Between
  BY DEF Inv, TableAgrees, RowAgrees, OnItsWay, Between
<1>3. AnswerFresh' /\ SummaryAgrees'
  BY <1>1, <1>2 DEF Inv, AnswerFresh, SummaryAgrees
<1> QED BY <1>2, <1>3

-----------------------------------------------------------------------------
(* Type correctness. *)

LEMMA InitTyped == Init => TypeOK
<1> SUFFICES ASSUME Init PROVE TypeOK
  OBVIOUS
<1>1. fetch \in [Slots -> FetchRecord]
  BY NoFetchTyped DEF Init, FetchRecord
<1>2. view \in Summary
  BY DEF Init, NoSummary, Summary
<1>3. mon \in [Monitors -> Row]
  BY DEF Init, Row, Statuses
<1>4. unread \in 0..Capacity
  BY PageAssumption DEF Init
<1>5. task \in [Monitors -> [Lanes -> Stage]] /\ marred \subseteq Monitors
  BY DEF Init, Stage
<1>6. health \in [Monitors -> BOOLEAN] /\ conn = "waiting" /\ unread = 0 /\ timer \in BOOLEAN
  BY DEF Init
<1> QED BY <1>1, <1>2, <1>3, <1>4, <1>5, <1>6 DEF TypeOK, FetchRecord, Row, Stage

(* One probe moves on. *)
LEMMA SetTaskIs ==
  ASSUME task \in [Monitors -> [Lanes -> Stage]], NEW m \in Monitors, NEW l \in Lanes,
         NEW stage \in Stage, SetTask(m, l, stage)
  PROVE  /\ task' \in [Monitors -> [Lanes -> Stage]]
         /\ task'[m][l] = stage
         /\ \A k \in Lanes \ {l} : task'[m][k] = task[m][k]
         /\ \A n \in Monitors \ {m} : task'[n] = task[n]
<1>1. task' = [task EXCEPT ![m] = [task[m] EXCEPT ![l] = stage]]
  BY DEF SetTask
<1>2. [task[m] EXCEPT ![l] = stage] \in [Lanes -> Stage]
  OBVIOUS
<1> QED BY <1>1, <1>2

(* Heartbeat::record: what it writes and what the probe goes on with. *)
LEMMA RecordIs ==
  ASSUME TypeOK, NEW m \in Monitors, NEW l \in Lanes, Record(m, l)
  PROVE  \E s \in Recorded, result \in Recorded, x \in Statuses :
           /\ mon' = [mon EXCEPT ![m].status = x]
           /\ SetTask(m, l, result)
           /\ \/ marred' = marred \cup {m}
              \/ /\ marred' = marred \ {m} /\ x = s /\ result = s
                 /\ \A k \in Lanes \ {l} : task[m][k] \in Recorded => task[m][k] = s
           /\ Moved(m)
           /\ UNCHANGED <<health, conn, unread, timer, view>>
<1>0. PICK e \in {"none", "read", "update", "insert"} : \E s \in Verdict(m, e) :
        LET failed == e \in {"update", "insert"}
            result == IF ~failed THEN s ELSE IF health[m] THEN "up" ELSE "down"
            contested == \E k \in Lanes \ {l} : task[m][k] \in Recorded \ {s}
        IN /\ task[m][l] = "probe"
           /\ Faulty(e)
           /\ mon' = [mon EXCEPT ![m].status = IF e = "update" THEN @ ELSE s]
           /\ SetTask(m, l, result)
           /\ marred' = IF failed \/ contested THEN marred \cup {m} ELSE marred \ {m}
           /\ Moved(m)
           /\ UNCHANGED <<health, conn, unread, timer, view>>
  BY DEF Record
<1>1. PICK s \in Verdict(m, e) :
        LET failed == e \in {"update", "insert"}
            result == IF ~failed THEN s ELSE IF health[m] THEN "up" ELSE "down"
            contested == \E k \in Lanes \ {l} : task[m][k] \in Recorded \ {s}
        IN /\ task[m][l] = "probe"
           /\ Faulty(e)
           /\ mon' = [mon EXCEPT ![m].status = IF e = "update" THEN @ ELSE s]
           /\ SetTask(m, l, result)
           /\ marred' = IF failed \/ contested THEN marred \cup {m} ELSE marred \ {m}
           /\ Moved(m)
           /\ UNCHANGED <<health, conn, unread, timer, view>>
  BY <1>0
<1> DEFINE failed == e \in {"update", "insert"}
           result == IF ~failed THEN s ELSE IF health[m] THEN "up" ELSE "down"
           x == IF e = "update" THEN mon[m].status ELSE s
<1>2. s \in Recorded /\ s \in Statuses
  BY DEF Verdict, Recorded, Statuses
<1>3. result \in Recorded /\ x \in Statuses
  BY <1>2 DEF TypeOK, Recorded
<1>4. mon' = [mon EXCEPT ![m].status = x] /\ SetTask(m, l, result)
  BY <1>1
<1>5. \/ marred' = marred \cup {m}
      \/ /\ marred' = marred \ {m} /\ x = s /\ result = s
         /\ \A k \in Lanes \ {l} : task[m][k] \in Recorded => task[m][k] = s
  BY <1>1
<1>6. Moved(m) /\ UNCHANGED <<health, conn, unread, timer, view>>
  BY <1>1
<1> HIDE DEF result, x
<1> QED BY <1>2, <1>3, <1>4, <1>5, <1>6

LEMMA NextTyped ==
  ASSUME TypeOK, [Next]_vars
  PROVE  TypeOK'
<1> USE DEF TypeOK, server, page
<1>0. /\ mon \in [Monitors -> Row] /\ fetch \in [Slots -> FetchRecord]
      /\ task \in [Monitors -> [Lanes -> Stage]]
  BY DEF Row, FetchRecord, Stage
<1>1. ASSUME NEW m \in Monitors, Flip(m)
      PROVE  TypeOK'
  BY <1>1 DEF Flip
<1>2. ASSUME NEW m \in Monitors, NEW l \in Lanes, Spawn(m, l) \/ Check(m, l) \/ Broadcast(m, l)
      PROVE  TypeOK'
  <2>1. task' \in [Monitors -> [Lanes -> Stage]]
    BY <1>0, <1>2, SetTaskIs DEF Spawn, Check, Begin, Broadcast, Stage
  <2>2. unread' \in 0..Capacity /\ (conn = "waiting" => unread' = 0)
    BY <1>2, PageAssumption DEF Spawn, Check, Broadcast, Kept
  <2> QED BY <1>2, <2>1, <2>2 DEF Spawn, Check, Broadcast, Stage
<1>3. ASSUME NEW m \in Monitors, NEW l \in Lanes, Record(m, l)
      PROVE  TypeOK'
  <2>1. PICK result \in Recorded, x \in Statuses :
          /\ mon' = [mon EXCEPT ![m].status = x]
          /\ SetTask(m, l, result)
          /\ marred' \in {marred \cup {m}, marred \ {m}}
          /\ Moved(m)
          /\ UNCHANGED <<health, conn, unread, timer, view>>
    BY <1>3, RecordIs
  <2>2. mon' \in [Monitors -> Row]
    BY <1>0, <2>1 DEF Row
  <2>3. task' \in [Monitors -> [Lanes -> Stage]]
    BY <1>0, <2>1, SetTaskIs DEF Stage
  <2>4. fetch' \in [Slots -> FetchRecord]
    BY <1>0, <2>1, MovedTyped
  <2> QED BY <2>1, <2>2, <2>3, <2>4 DEF Row, FetchRecord, Stage
<1>4. ASSUME NEW m \in Monitors, NEW l \in Lanes, Process(m, l)
      PROVE  TypeOK'
  <2>1. PICK b \in BOOLEAN : mon' = [mon EXCEPT ![m].incident = b] \/ mon' = mon
    <3>1. CASE mon' = mon
      BY <3>1
    <3>2. CASE task[m][l] = "down"
      BY <1>4, <3>2 DEF Process
    <3>3. CASE task[m][l] = "up"
      BY <1>4, <3>3 DEF Process
    <3>4. CASE task[m][l] \notin {"down", "up"}
      BY <1>4, <3>4 DEF Process
    <3> QED BY <3>1, <3>2, <3>3, <3>4
  <2>2. mon' \in [Monitors -> Row] /\ marred' \subseteq Monitors
    <3>1. mon' \in [Monitors -> Row]
      BY <1>0, <2>1 DEF Row
    <3>2. marred' \subseteq Monitors
      BY <1>4 DEF Process
    <3> QED BY <3>1, <3>2
  <2>3. task' \in [Monitors -> [Lanes -> Stage]]
    BY <1>0, <1>4, SetTaskIs DEF Process, Stage
  <2>4. fetch' \in [Slots -> FetchRecord]
    BY <1>0, <1>4, MovedTyped DEF Process
  <2> QED BY <1>4, <2>2, <2>3, <2>4 DEF Process, Row, FetchRecord, Stage
<1>5. ASSUME NEW m \in Monitors, NEW l \in Lanes, Drop(m, l)
      PROVE  TypeOK'
  <2>1. task' \in [Monitors -> [Lanes -> Stage]] /\ marred' \subseteq Monitors
    BY <1>0, <1>5, SetTaskIs DEF Drop, Stage
  <2>2. fetch' \in [Slots -> FetchRecord]
    BY <1>0, <1>5, MovedTyped DEF Drop
  <2> QED BY <1>5, <2>1, <2>2 DEF Drop, FetchRecord, Stage
<1>5a. CASE Restart
  <2>1. task' \in [Monitors -> [Lanes -> Stage]] /\ marred' \subseteq Monitors
    BY <1>5a DEF Restart, Stage, Between
  <2>2. fetch' \in [Slots -> FetchRecord]
    BY <1>5a, NoFetchTyped DEF Restart
  <2>3. unread' \in 0..Capacity /\ unread' = 0 /\ conn' = "waiting"
    BY <1>5a, PageAssumption DEF Restart
  <2> QED BY <1>5a, <2>1, <2>2, <2>3 DEF Restart, FetchRecord, Stage
<1>6. ASSUME NEW m \in Monitors,
             TogglePause(m) \/ Reset(m) \/ ResetHalf(m) \/ \E l \in Lanes : Update(m, l)
      PROVE  TypeOK'
  <2>1. mon' \in [Monitors -> Row]
    <3>1. CASE TogglePause(m)
      <4>1. (IF mon[m].active THEN "paused" ELSE "pending") \in Statuses
        BY DEF Statuses
      <4>2. (~mon[m].active) \in BOOLEAN
        OBVIOUS
      <4>3. PICK s \in Statuses, b \in BOOLEAN :
              mon' = [mon EXCEPT ![m].active = b, ![m].status = s]
        BY <3>1, <4>1, <4>2 DEF TogglePause
      <4> QED BY <1>0, <4>3 DEF Row
    <3>2. ASSUME NEW l \in Lanes, Update(m, l) PROVE mon' \in [Monitors -> Row]
      <4>1. PICK b \in BOOLEAN : mon' = [mon EXCEPT ![m].public = b]
        BY <3>2 DEF Update
      <4> QED BY <1>0, <4>1 DEF Row
    <3>3. CASE Reset(m)
      <4>1. PICK b \in BOOLEAN :
              mon' = [mon EXCEPT ![m].status = "pending", ![m].incident = b]
        BY <3>3 DEF Reset
      <4> QED BY <1>0, <4>1 DEF Row, Statuses
    <3>4. CASE ResetHalf(m)
      <4>1. PICK b \in BOOLEAN : mon' = [mon EXCEPT ![m].incident = b]
        BY <3>4 DEF ResetHalf
      <4> QED BY <1>0, <4>1 DEF Row
    <3> QED BY <1>6, <3>1, <3>2, <3>3, <3>4
  <2>2. task' \in [Monitors -> [Lanes -> Stage]] /\ marred' \subseteq Monitors
    BY <1>0, <1>6, SetTaskIs DEF TogglePause, Update, Begin, Reset, ResetHalf, Stage
  <2>3. fetch' \in [Slots -> FetchRecord]
    BY <1>0, <1>6, MovedTyped DEF TogglePause, Update, Reset, ResetHalf
  <2> QED BY <1>6, <2>1, <2>2, <2>3
          DEF TogglePause, Update, Reset, ResetHalf, Row, FetchRecord, Stage
<1>7. ASSUME NEW f \in Slots, TimerFires(f)
      PROVE  TypeOK'
  <2>1. [NoFetch EXCEPT !.stage = "asked"] \in FetchRecord
    BY NoFetchTyped DEF FetchRecord
  <2>2. fetch' \in [Slots -> FetchRecord]
    BY <1>0, <1>7, <2>1 DEF TimerFires
  <2> QED BY <1>7, <2>2 DEF TimerFires, FetchRecord
<1>8. ASSUME NEW f \in Slots, ReadMonitors(f)
      PROVE  TypeOK'
  <2>1. fetch' \in [Slots -> FetchRecord]
    BY <1>0, <1>8, SummaryTyped DEF ReadMonitors, FetchRecord, Summary, Between
  <2> QED BY <1>8, <2>1 DEF ReadMonitors, FetchRecord
<1>9. ASSUME NEW f \in Slots, ReadIncidents(f)
      PROVE  TypeOK'
  <2>1. [fetch[f] EXCEPT !.stage = "answered", !.answer.open = Ongoing] \in FetchRecord
    <3>1. fetch[f] \in FetchRecord /\ fetch[f].answer \in Summary
      BY <1>0 DEF FetchRecord
    <3>2. [fetch[f].answer EXCEPT !.open = Ongoing] \in Summary
      BY <1>0, <3>1, SummaryTyped DEF Summary
    <3> QED BY <3>1, <3>2 DEF FetchRecord
  <2>2. fetch' \in [Slots -> FetchRecord]
    BY <1>0, <1>9, <2>1 DEF ReadIncidents
  <2> QED BY <1>9, <2>2 DEF ReadIncidents, FetchRecord
<1>10. ASSUME NEW f \in Slots, Arrive(f) \/ Fail(f)
       PROVE  TypeOK'
  <2>1. fetch' \in [Slots -> FetchRecord]
    BY <1>0, <1>10, NoFetchTyped DEF Arrive, Fail
  <2>2. view' \in Summary
    BY <1>0, <1>10 DEF Arrive, Fail, FetchRecord
  <2> QED BY <1>10, <2>1, <2>2 DEF Arrive, Fail, FetchRecord
<1>11. CASE Receive \/ Disconnect \/ Reconnect
  <2>1. UNCHANGED <<mon, task, marred, health, fetch, view>>
    BY <1>11 DEF Receive, Disconnect, Reconnect
  <2>2. conn' \in {"open", "waiting"} /\ timer' \in BOOLEAN
    BY <1>11 DEF Receive, Disconnect, Reconnect
  <2>3. unread' \in 0..Capacity /\ (conn' = "waiting" => unread' = 0)
    BY <1>11, PageAssumption DEF Receive, Disconnect, Reconnect
  <2> QED BY <2>1, <2>2, <2>3
<1>12. CASE UNCHANGED vars
  BY <1>12 DEF vars
<1> QED BY <1>1, <1>2, <1>3, <1>4, <1>5, <1>5a, <1>6, <1>7, <1>8, <1>9, <1>10, <1>11, <1>12
        DEF Next, Probe, Request, Lanes

-----------------------------------------------------------------------------
(* One answer tells one story. *)

LEMMA InitInv == Init => Inv
<1> SUFFICES ASSUME Init PROVE Inv
  OBVIOUS
<1>1. TableAgrees
  BY DEF Init, TableAgrees, RowAgrees, OnItsWay, Recorded
<1>2. \A f \in Slots : fetch[f].stage \in {"none", "asked"}
  BY DEF Init, NoFetch
<1> QED BY <1>1, <1>2, InitTyped DEF Inv, AnswerFresh, SummaryAgrees

(* A step that touches one monitor leaves the others in agreement. *)
LEMMA OthersAgree ==
  ASSUME Inv, NEW m \in Monitors,
         \A n \in Monitors \ {m} : mon'[n] = mon[n] /\ task'[n] = task[n],
         marred \ {m} \subseteq marred', m \notin marred' => RowAgrees(m)'
  PROVE  TableAgrees'
<1>1. ASSUME NEW n \in Monitors \ marred', n # m
      PROVE  RowAgrees(n)'
  BY <1>1 DEF Inv, TableAgrees, RowAgrees, OnItsWay
<1> QED BY <1>1 DEF TableAgrees

LEMMA NextInv ==
  ASSUME Inv, [Next]_vars
  PROVE  Inv'
<1>0. TypeOK /\ TypeOK'
  BY NextTyped DEF Inv
<1>1. /\ mon \in [Monitors -> Row] /\ fetch \in [Slots -> FetchRecord]
      /\ task \in [Monitors -> [Lanes -> Stage]]
  BY <1>0 DEF TypeOK, Row, FetchRecord, Stage
<1>2. ASSUME NEW m \in Monitors, NEW l \in Lanes, Spawn(m, l) \/ Check(m, l) \/ Broadcast(m, l)
      PROVE  TableAgrees' /\ AnswerFresh' /\ SummaryAgrees'
  <2>1. task[m][l] \notin Recorded
    BY <1>2 DEF Spawn, Check, Begin, Broadcast, Recorded
  <2>2. PICK stage \in Stage \ Recorded : SetTask(m, l, stage)
    BY <1>2 DEF Spawn, Check, Begin, Broadcast, Stage, Recorded
  <2>3. \A n \in Monitors, k \in Lanes : /\ task'[n][k] \in Recorded <=> task[n][k] \in Recorded
                                         /\ task'[n][k] \in Recorded => task'[n][k] = task[n][k]
    BY <1>1, <2>1, <2>2, SetTaskIs
  <2>4. UNCHANGED <<mon, marred, fetch>>
    BY <1>2 DEF Spawn, Check, Broadcast, page
  <2>5. Between' = Between /\ \A n \in Monitors : Shown'[n] = Shown[n]
    BY <2>3, <2>4 DEF Shown, Listed, Between
  <2>6. TableAgrees'
    BY <2>3, <2>4 DEF Inv, TableAgrees, RowAgrees, OnItsWay
  <2>7. AnswerFresh' /\ SummaryAgrees'
    BY <2>4, <2>5 DEF Inv, AnswerFresh, SummaryAgrees
  <2> QED BY <2>6, <2>7
<1>3. ASSUME NEW m \in Monitors, NEW l \in Lanes, Record(m, l)
      PROVE  TableAgrees' /\ AnswerFresh' /\ SummaryAgrees'
  <2>1. PICK s \in Recorded, result \in Recorded, x \in Statuses :
          /\ mon' = [mon EXCEPT ![m].status = x]
          /\ SetTask(m, l, result)
          /\ \/ marred' = marred \cup {m}
             \/ /\ marred' = marred \ {m} /\ x = s /\ result = s
                /\ \A k \in Lanes \ {l} : task[m][k] \in Recorded => task[m][k] = s
          /\ Moved(m)
    BY <1>0, <1>3, RecordIs
  <2>2. /\ task'[m][l] = result /\ \A k \in Lanes \ {l} : task'[m][k] = task[m][k]
        /\ \A n \in Monitors \ {m} : task'[n] = task[n]
    BY <1>1, <2>1, SetTaskIs DEF Stage
  <2>3. /\ mon'[m].status = x
        /\ \A n \in Monitors \ {m} : mon'[n] = mon[n]
    BY <1>1, <2>1 DEF Row
  <2>4. m \notin marred' => RowAgrees(m)'
    <3>1. ASSUME m \notin marred'
          PROVE  /\ mon'[m].status = s /\ task'[m][l] = s
                 /\ \A k \in Lanes : task'[m][k] \in Recorded => task'[m][k] = s
      BY <2>1, <2>2, <2>3, <3>1
    <3> QED BY <2>1, <3>1 DEF RowAgrees, OnItsWay
  <2>5. TableAgrees'
    BY <2>1, <2>2, <2>3, <2>4, OthersAgree
  <2> QED BY <2>1, <2>2, <2>3, <2>5, MovedFresh
<1>4. ASSUME NEW m \in Monitors, NEW l \in Lanes, Process(m, l)
      PROVE  TableAgrees' /\ AnswerFresh' /\ SummaryAgrees'
  <2>1. /\ task'[m][l] = "send" /\ \A k \in Lanes \ {l} : task'[m][k] = task[m][k]
        /\ \A n \in Monitors \ {m} : task'[n] = task[n]
    BY <1>1, <1>4, SetTaskIs DEF Process, Stage
  <2>2. /\ \A n \in Monitors \ {m} : mon'[n] = mon[n]
        /\ mon'[m].status = mon[m].status
        /\ marred' \in {marred, marred \cup {m}}
    BY <1>1, <1>4 DEF Process, Row
  <2>3. ASSUME m \notin marred'
        PROVE  RowAgrees(m)'
    <3>1. /\ m \notin marred /\ task[m][l] \in Recorded /\ RowAgrees(m)
      BY <1>4, <2>2, <2>3 DEF Process, Inv, TableAgrees
    <3>2. /\ task[m][l] = "down" => mon'[m].incident
          /\ task[m][l] = "up" => ~mon'[m].incident
      BY <1>1, <1>4, <2>3 DEF Process, Row
    <3>3. /\ mon[m].status \in {task[m][l], "paused", "pending"}
          /\ \A k \in Lanes : task[m][k] \in Recorded =>
               /\ mon[m].status \in {task[m][k], "paused", "pending"}
               /\ \A i \in Lanes : task[m][i] \in Recorded => task[m][i] = task[m][k]
      BY <3>1 DEF RowAgrees, OnItsWay
    <3>4. \A k \in Lanes : task'[m][k] \in Recorded => task'[m][k] = task[m][k]
      BY <2>1 DEF Recorded
    <3>5. CASE OnItsWay(m)'
      BY <2>2, <3>3, <3>4, <3>5 DEF RowAgrees, OnItsWay
    <3>6. CASE ~OnItsWay(m)'
      BY <2>2, <3>2, <3>3, <3>6 DEF RowAgrees
    <3> QED BY <3>5, <3>6
  <2>4. TableAgrees'
    BY <2>1, <2>2, <2>3, OthersAgree
  <2>5. Moved(m)
    BY <1>4 DEF Process
  <2> QED BY <2>1, <2>2, <2>4, <2>5, MovedFresh
<1>5. ASSUME NEW m \in Monitors,
             TogglePause(m) \/ Reset(m) \/ \E l \in Lanes : Update(m, l)
      PROVE  TableAgrees' /\ AnswerFresh' /\ SummaryAgrees'
  <2>1. /\ \A n \in Monitors \ {m} : mon'[n] = mon[n] /\ task'[n] = task[n]
        /\ \A k \in Lanes : /\ task'[m][k] \in Recorded <=> task[m][k] \in Recorded
                            /\ task'[m][k] \in Recorded => task'[m][k] = task[m][k]
        /\ marred' = marred
    <3>1. CASE UNCHANGED task
      BY <1>1, <1>5, <3>1 DEF TogglePause, Update, Reset
    <3>2. ASSUME NEW l \in Lanes, Update(m, l)
          PROVE  /\ \A n \in Monitors \ {m} : mon'[n] = mon[n] /\ task'[n] = task[n]
                 /\ \A k \in Lanes : /\ task'[m][k] \in Recorded <=> task[m][k] \in Recorded
                                     /\ task'[m][k] \in Recorded => task'[m][k] = task[m][k]
                 /\ marred' = marred
      <4>1. task[m][l] = "idle" /\ SetTask(m, l, "probe") /\ marred' = marred
        BY <3>2 DEF Update, Begin
      <4> QED BY <1>1, <3>2, <4>1, SetTaskIs DEF Update, Stage, Recorded
    <3> QED BY <1>5, <3>1, <3>2 DEF TogglePause, Reset
  <2>2. \/ mon'[m].status \in {"paused", "pending"}
        \/ mon'[m].status = mon[m].status /\ mon'[m].incident = mon[m].incident
    BY <1>1, <1>5 DEF TogglePause, Update, Reset, Row
  <2>3. ASSUME m \notin marred'
        PROVE  RowAgrees(m)'
    <3>1. RowAgrees(m) /\ (OnItsWay(m)' <=> OnItsWay(m))
      BY <2>1, <2>3 DEF Inv, TableAgrees, OnItsWay
    <3>2. CASE OnItsWay(m)
      BY <2>1, <2>2, <3>1, <3>2 DEF RowAgrees
    <3>3. CASE ~OnItsWay(m)
      BY <2>2, <3>1, <3>3 DEF RowAgrees
    <3> QED BY <3>2, <3>3
  <2>4. TableAgrees'
    BY <2>1, <2>3, OthersAgree
  <2>5. Moved(m)
    BY <1>5 DEF TogglePause, Update, Reset
  <2> QED BY <2>1, <2>4, <2>5, MovedFresh
<1>5a. ASSUME NEW m \in Monitors, NEW l \in Lanes, Drop(m, l)
       PROVE  TableAgrees' /\ AnswerFresh' /\ SummaryAgrees'
  <2>1. /\ task'[m][l] = "idle" /\ \A k \in Lanes \ {l} : task'[m][k] = task[m][k]
        /\ \A n \in Monitors \ {m} : task'[n] = task[n]
    BY <1>1, <1>5a, SetTaskIs DEF Drop, Stage
  <2>2. mon' = mon /\ marred' \in {marred, marred \cup {m}} /\ Moved(m)
    BY <1>5a DEF Drop
  <2>3. ASSUME m \notin marred'
        PROVE  RowAgrees(m)'
    <3>1. m \notin marred /\ task[m][l] \notin Recorded /\ RowAgrees(m)
      BY <1>5a, <2>3 DEF Drop, Inv, TableAgrees
    <3>2. \A k \in Lanes : /\ task'[m][k] \in Recorded <=> task[m][k] \in Recorded
                           /\ task'[m][k] \in Recorded => task'[m][k] = task[m][k]
      BY <2>1, <3>1 DEF Recorded
    <3>3. mon'[m] = mon[m] /\ (OnItsWay(m)' <=> OnItsWay(m))
      BY <2>2, <3>2 DEF OnItsWay
    <3>4. ASSUME OnItsWay(m), NEW k \in Lanes, task'[m][k] \in Recorded
          PROVE  /\ mon'[m].status \in {task'[m][k], "paused", "pending"}
                 /\ \A i \in Lanes : task'[m][i] \in Recorded => task'[m][i] = task'[m][k]
      BY <3>1, <3>2, <3>3, <3>4 DEF RowAgrees, OnItsWay
    <3>5. ASSUME ~OnItsWay(m)
          PROVE  /\ mon'[m].status = "down" => mon'[m].incident
                 /\ mon'[m].status = "up" => ~mon'[m].incident
      BY <3>1, <3>3, <3>5 DEF RowAgrees
    <3> QED BY <3>3, <3>4, <3>5 DEF RowAgrees
  <2>4. TableAgrees'
    BY <2>1, <2>2, <2>3, OthersAgree
  <2> QED BY <2>1, <2>2, <2>4, MovedFresh
<1>5b. ASSUME NEW m \in Monitors, ResetHalf(m)
       PROVE  TableAgrees' /\ AnswerFresh' /\ SummaryAgrees'
  <2>1. /\ \A n \in Monitors \ {m} : mon'[n] = mon[n] /\ task'[n] = task[n]
        /\ marred' = marred \cup {m} /\ Moved(m)
    BY <1>1, <1>5b DEF ResetHalf
  <2>2. TableAgrees'
    BY <2>1, OthersAgree
  <2> QED BY <2>1, <2>2, MovedFresh
<1>5c. ASSUME Restart
       PROVE  TableAgrees' /\ AnswerFresh' /\ SummaryAgrees'
  <2>1. mon' = mon /\ marred' = marred \cup Between
    BY <1>5c DEF Restart
  <2>2. \A n \in Monitors : ~OnItsWay(n)'
    BY <1>5c DEF Restart, OnItsWay, Recorded
  <2>3. TableAgrees'
    BY <2>1, <2>2 DEF Inv, TableAgrees, RowAgrees, OnItsWay, Between
  <2>4. \A f \in Slots : fetch'[f].stage = "none"
    BY <1>5c DEF Restart, NoFetch
  <2>5. AnswerFresh' /\ SummaryAgrees'
    BY <2>4 DEF AnswerFresh, SummaryAgrees
  <2> QED BY <2>3, <2>5
<1>6. ASSUME NEW f \in Slots, TimerFires(f) \/ Arrive(f) \/ Fail(f)
      PROVE  TableAgrees' /\ AnswerFresh' /\ SummaryAgrees'
  BY <1>1, <1>6, QuietFresh DEF TimerFires, Arrive, Fail, server, NoFetch
<1>7. ASSUME NEW f \in Slots, ReadMonitors(f)
      PROVE  TableAgrees' /\ AnswerFresh' /\ SummaryAgrees'
  <2>1. UNCHANGED <<mon, task, marred>>
    BY <1>7 DEF ReadMonitors, server
  <2>2. /\ \A g \in Slots \ {f} : fetch'[g] = fetch[g]
        /\ fetch'[f].stage = "listed"
        /\ fetch'[f].answer.shown = Shown
        /\ fetch'[f].moved = Between \cup marred
    BY <1>1, <1>7 DEF ReadMonitors
  <2>3. \A m \in Monitors : Shown'[m] = Shown[m]
    BY <2>1 DEF Shown, Listed
  <2>4. Between' = Between
    BY <2>1 DEF Between
  <2>5. TableAgrees'
    BY <2>1 DEF Inv, TableAgrees, RowAgrees, OnItsWay
  <2>6. AnswerFresh'
    BY <2>1, <2>2, <2>3, <2>4 DEF Inv, AnswerFresh
  <2>7. SummaryAgrees'
    BY <2>2 DEF Inv, SummaryAgrees
  <2> QED BY <2>5, <2>6, <2>7
<1>8. ASSUME NEW f \in Slots, ReadIncidents(f)
      PROVE  TableAgrees' /\ AnswerFresh' /\ SummaryAgrees'
  <2>1. UNCHANGED <<mon, task, marred>>
    BY <1>8 DEF ReadIncidents, server
  <2>2. /\ \A g \in Slots \ {f} : fetch'[g] = fetch[g]
        /\ fetch'[f].stage = "answered"
        /\ fetch'[f].answer.shown = fetch[f].answer.shown
        /\ fetch'[f].answer.open = Ongoing
        /\ fetch'[f].moved = fetch[f].moved
    BY <1>1, <1>8 DEF ReadIncidents, FetchRecord, Summary
  <2>3. \A m \in Monitors : Shown'[m] = Shown[m]
    BY <2>1 DEF Shown, Listed
  <2>4. TableAgrees' /\ Between' = Between
    BY <2>1 DEF Inv, TableAgrees, RowAgrees, OnItsWay, Between
  <2>4a. AnswerFresh'
    BY <2>1, <2>2, <2>3, <2>4 DEF Inv, AnswerFresh
  <2>5. ASSUME NEW m \in Monitors \ fetch[f].moved
        PROVE  /\ Shown[m] = "down" => m \in Ongoing
               /\ Shown[m] \in {"up", "hidden"} => m \notin Ongoing
    <3>1. m \notin marred /\ ~OnItsWay(m)
      BY <1>8, <2>5 DEF Inv, AnswerFresh, ReadIncidents, Between, OnItsWay
    <3>2. /\ mon[m].status = "down" => mon[m].incident
          /\ mon[m].status = "up" => ~mon[m].incident
          /\ mon[m].status # "hidden"
      BY <1>1, <3>1 DEF Inv, TableAgrees, RowAgrees, Row, Statuses
    <3> QED BY <3>2 DEF Shown, Ongoing, Listed
  <2>6. \A m \in Monitors \ fetch[f].moved : fetch[f].answer.shown[m] = Shown[m]
    BY <1>8 DEF Inv, AnswerFresh, ReadIncidents
  <2>7. SummaryAgrees'
    BY <2>2, <2>5, <2>6 DEF Inv, SummaryAgrees
  <2> QED BY <2>4, <2>4a, <2>7
<1>9. ASSUME Receive \/ Disconnect \/ Reconnect \/ (\E m \in Monitors : Flip(m))
             \/ UNCHANGED vars
      PROVE  TableAgrees' /\ AnswerFresh' /\ SummaryAgrees'
  BY <1>9, QuietFresh DEF Receive, Disconnect, Reconnect, Flip, server, page, vars
<1>10. TableAgrees' /\ AnswerFresh' /\ SummaryAgrees'
  BY <1>2, <1>3, <1>4, <1>5, <1>5a, <1>5b, <1>5c, <1>6, <1>7, <1>8, <1>9
     DEF Next, Probe, Request, Lanes
<1> QED BY <1>0, <1>10 DEF Inv

-----------------------------------------------------------------------------
(* LivePage's variables have their types. *)
THEOREM PageTyped == Spec => []TypeOK
<1>1. Init => TypeOK
  BY InitTyped
<1>2. TypeOK /\ [Next]_vars => TypeOK'
  BY NextTyped
<1> QED BY <1>1, <1>2, PTL DEF Spec

(* However probes of one monitor and of others, edits, requests, failing   *)
(* statements, abandoned checks and restarts interleave, an answer of      *)
(* get_public_summary does not contradict itself about a monitor nothing   *)
(* touched between its two reads, unless such an event had left the        *)
(* monitor's status and incident at odds and no later probe has put them   *)
(* right.                                                                  *)
THEOREM AnswersAgree == Spec => []SummaryAgrees
<1>1. Init => Inv
  BY InitInv
<1>2. Inv /\ [Next]_vars => Inv'
  BY NextInv
<1>3. Inv => SummaryAgrees
  BY DEF Inv
<1> QED BY <1>1, <1>2, <1>3, PTL DEF Spec
=============================================================================
