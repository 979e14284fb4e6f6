------------------------------ MODULE LivePage ------------------------------
(***************************************************************************)
(* The public status page: the bounded broadcast channel of src/main.rs,   *)
(* the event stream and the summary of src/controllers/                    *)
(* public_controller.rs, and the page of src/public/js/public.js that      *)
(* fetches the summary again some time after an event.                     *)
(*                                                                         *)
(* The summary reads the monitors and the open incidents under two locks,  *)
(* and the pipeline writes status and incident under two locks, so they    *)
(* may disagree in an answer.  The channel drops its oldest events when    *)
(* the page lags; the page does not look at an event, so it is a count.    *)
(* Probes of one monitor overlap, statements fail, and a probe may end     *)
(* between its two writes: each leaves status and incident at odds until a *)
(* later probe, as history variable `marred' notes.                        *)
(***************************************************************************)
EXTENDS Integers, FiniteSets

CONSTANTS
  Monitors,
  Spawned, Checks,  \* bounds: probes of one monitor at a time, in tasks of their
                    \* own and in requests of the operator (manual checks)
  Capacity,   \* broadcast::channel(100)
  Slots,      \* bound, 1..n: summary requests of the page at a time
  MaxEdits, MaxFlips, MaxFaults, MaxEvents  \* bounds: operator, target, failures;
                                            \* and all of these together

ASSUME PageAssumption ==
  /\ Spawned \cap Checks = {}
  /\ Capacity \in Nat \ {0} /\ \E n \in 1..10 : Slots = 1..n
  /\ MaxEdits \in Nat /\ MaxFlips \in Nat /\ MaxFaults \in Nat
  /\ MaxEvents \in Nat

VARIABLES
  mon,      \* table monitors, with its open incident
  task,     \* the probes of every monitor: the stage, or what it recorded
  marred,   \* history: monitors whose status and incident may be at odds
  health,   \* the monitored target
  conn,     \* the page's event stream: "open", or "waiting" to reconnect
  unread,   \* events in the channel the stream has not handed over
  timer,    \* publicRefetchTimer is set
  fetch,    \* the page's requests in flight
  view,     \* latestPublicData
  budget    \* edits, flips, faults and events left

vars == <<mon, task, marred, health, conn, unread, timer, fetch, view, budget>>
server == <<mon, task, marred, health>>
page == <<conn, timer, fetch, view>>

Lanes == Spawned \cup Checks
Statuses == {"pending", "up", "retrying", "down", "paused"}
Summary == [shown : [Monitors -> Statuses \cup {"hidden"}], open : SUBSET Monitors]

Listed == {m \in Monitors : mon[m].active /\ mon[m].public}
Shown == [m \in Monitors |-> IF m \in Listed THEN mon[m].status ELSE "hidden"]
Ongoing == {m \in Listed : mon[m].incident}     \* list_ongoing(db, true)

NoSummary == [shown |-> [m \in Monitors |-> "hidden"], open |-> {}]
NoFetch == [stage |-> "none", answer |-> NoSummary, moved |-> {}]

(* Between record and process_probe status and incident differ; a request  *)
(* notes the monitors for which that may show: history variable `moved'.   *)
Recorded == {"up", "retrying", "down"}
Between == {m \in Monitors : \E l \in Lanes : task[m][l] \in Recorded}
Moved(m) == fetch' = [f \in Slots |-> IF fetch[f].stage = "listed"
                                      THEN [fetch[f] EXCEPT !.moved = @ \cup {m}]
                                      ELSE fetch[f]]

(* The slot of the next request: the first free one, 0 if there is none.   *)
Free == IF \E f \in Slots : fetch[f].stage = "none"
        THEN CHOOSE f \in Slots : /\ fetch[f].stage = "none"
                                  /\ \A g \in Slots : g < f => fetch[g].stage # "none"
        ELSE 0

Spend(kind) == /\ budget[kind] > 0 /\ budget.events > 0
               /\ budget' = [budget EXCEPT ![kind] = @ - 1, !.events = @ - 1]

(* A statement fails, or does not. *)
Faulty(e) == IF e = "none" THEN UNCHANGED budget ELSE Spend("faults")

SetTask(m, l, stage) == task' = [task EXCEPT ![m][l] = stage]

-----------------------------------------------------------------------------
(* DOMContentLoaded: one fetch, and a first connection. *)
Init ==
  /\ mon = [m \in Monitors |-> [status |-> "pending", active |-> TRUE,
                                public |-> TRUE, incident |-> FALSE]]
  /\ task = [m \in Monitors |-> [l \in Lanes |-> "idle"]] /\ marred = {}
  /\ health = [m \in Monitors |-> TRUE]
  /\ conn = "waiting" /\ unread = 0 /\ timer = FALSE
  /\ fetch = [g \in Slots |-> IF g = 1 THEN [NoFetch EXCEPT !.stage = "asked"] ELSE NoFetch]
  /\ view = NoSummary
  /\ budget = [edits |-> MaxEdits, flips |-> MaxFlips, faults |-> MaxFaults,
               events |-> MaxEvents]

Flip(m) ==
  /\ Spend("flips")
  /\ health' = [health EXCEPT ![m] = ~@]
  /\ UNCHANGED <<mon, task, marred, unread, page>>

(* One more probe of m, whether or not the last one has ended. *)
Begin(m, l) == task[m][l] = "idle" /\ SetTask(m, l, "probe")

Spawn(m, l) ==
  /\ mon[m].active /\ Begin(m, l)
  /\ UNCHANGED <<mon, marred, health, unread, page, budget>>

(* Heartbeat::record; where retrying ends depends on max_retries, and a    *)
(* failing read of the counter counts from nothing.                        *)
Verdict(m, e) == IF health[m] THEN {"up"}
                 ELSE IF mon[m].status = "down" /\ e # "read" THEN {"down"}
                 ELSE {"retrying", "down"}

(* When its UPDATE or its INSERT fails, the probe goes on with a result of *)
(* its own.  The row is at odds with what the probe will do, and also when *)
(* another probe is on its way with another result.                        *)
Record(m, l) ==
  \E e \in {"none", "read", "update", "insert"} : \E s \in Verdict(m, e) :
    LET failed == e \in {"update", "insert"}
        result == IF ~failed THEN s ELSE IF health[m] THEN "up" ELSE "down"
        contested == \E k \in Lanes \ {l} : task[m][k] \in Recorded \ {s}
    IN /\ task[m][l] = "probe"
       /\ Faulty(e)
       /\ mon' = [mon EXCEPT ![m].status = IF e = "update" THEN @ ELSE s]
       /\ SetTask(m, l, result)
       /\ marred' = IF failed \/ contested THEN marred \cup {m} ELSE marred \ {m}
       /\ Moved(m)
       /\ UNCHANGED <<health, conn, unread, timer, view>>

(* process_probe goes by the status this probe recorded, whatever an edit   *)
(* or another probe has made of the row since.                             *)
Process(m, l) ==
  /\ task[m][l] \in Recorded
  /\ \/ /\ mon' = [mon EXCEPT ![m].incident = CASE task[m][l] = "down" -> TRUE
                                               [] task[m][l] = "up" -> FALSE
                                               [] OTHER -> @]
        /\ UNCHANGED <<marred, budget>>
     \/ Spend("faults") /\ marred' = marred \cup {m} /\ UNCHANGED mon
  /\ SetTask(m, l, "send")
  /\ Moved(m)
  /\ UNCHANGED <<health, conn, unread, timer, view>>

(* tx.send: the channel keeps the newest Capacity events for a receiver.   *)
(* Mutant: every event is kept.                                            *)
Kept_All(n) == n + 1
Kept(n) == IF n < Capacity THEN n + 1 ELSE n
Broadcast(m, l) ==
  /\ task[m][l] = "send" /\ SetTask(m, l, "idle")
  /\ unread' = IF conn = "open" THEN Kept(unread) ELSE unread
  /\ UNCHANGED <<mon, marred, health, page, budget>>

(* The client of a manual check goes away, and the probe with it. *)
Drop(m, l) ==
  /\ l \in Checks /\ task[m][l] # "idle" /\ Spend("faults")
  /\ SetTask(m, l, "idle")
  /\ marred' = IF task[m][l] \in Recorded THEN marred \cup {m} ELSE marred
  /\ Moved(m)
  /\ UNCHANGED <<mon, health, conn, unread, timer, view>>

(* The server stops and starts again: every probe is gone, and every        *)
(* connection.                                                             *)
Restart ==
  /\ Spend("faults")
  /\ task' = [m \in Monitors |-> [l \in Lanes |-> "idle"]]
  /\ marred' = marred \cup Between
  /\ conn' = "waiting" /\ unread' = 0
  /\ fetch' = [f \in Slots |-> NoFetch]
  /\ UNCHANGED <<mon, health, timer, view>>

-----------------------------------------------------------------------------
(* The operator.  None of these sends an event. *)

TogglePause(m) ==
  /\ Spend("edits")
  /\ mon' = [mon EXCEPT ![m].active = ~@,
                        ![m].status = IF mon[m].active THEN "paused" ELSE "pending"]
  /\ Moved(m)
  /\ UNCHANGED <<task, marred, health, conn, unread, timer, view>>

(* update, here of is_public; it probes the monitor, active or not. *)
Update(m, l) ==
  /\ Spend("edits")
  /\ mon' = [mon EXCEPT ![m].public = ~@]
  /\ Begin(m, l)
  /\ Moved(m)
  /\ UNCHANGED <<marred, health, conn, unread, timer, view>>

Check(m, l) ==
  /\ Spend("edits") /\ Begin(m, l)
  /\ UNCHANGED <<mon, marred, health, unread, page>>

(* reset_stats deletes the incidents and then writes the row, without a    *)
(* transaction.                                                            *)
Reset(m) ==
  /\ Spend("edits")
  /\ mon' = [mon EXCEPT ![m].status = "pending", ![m].incident = FALSE]
  /\ Moved(m)
  /\ UNCHANGED <<task, marred, health, conn, unread, timer, view>>

ResetHalf(m) ==
  /\ Spend("faults")
  /\ mon' = [mon EXCEPT ![m].incident = FALSE]
  /\ marred' = marred \cup {m}
  /\ Moved(m)
  /\ UNCHANGED <<task, health, conn, unread, timer, view>>

-----------------------------------------------------------------------------
(* The page. *)

(* onmessage, schedulePublicRefetch: every event until the timer fires is  *)
(* covered by it.                                                          *)
Receive ==
  /\ conn = "open" /\ unread > 0
  /\ unread' = unread - 1
  /\ timer' = TRUE
  /\ UNCHANGED <<server, conn, fetch, view, budget>>

(* The timer is cleared and the summary asked for. *)
TimerFires(f) ==
  /\ timer /\ f = Free
  /\ timer' = FALSE
  /\ fetch' = [fetch EXCEPT ![f] = [NoFetch EXCEPT !.stage = "asked"]]
  /\ UNCHANGED <<server, conn, unread, view, budget>>

(* get_public_summary: Monitor::all under one lock ... *)
ReadMonitors(f) ==
  /\ fetch[f].stage = "asked"
  /\ fetch' = [fetch EXCEPT ![f] = [stage |-> "listed", moved |-> Between \cup marred,
                                    answer |-> [shown |-> Shown, open |-> {}]]]
  /\ UNCHANGED <<server, conn, unread, timer, view, budget>>

(* Mutant: list_ongoing without public_only. *)
ReadIncidents_All(f) ==
  /\ fetch[f].stage = "listed"
  /\ fetch' = [fetch EXCEPT ![f].stage = "answered",
                            ![f].answer.open = {m \in Monitors : mon[m].incident}]
  /\ UNCHANGED <<server, conn, unread, timer, view, budget>>
(* ... and, after the statistics of every monitor, the incidents. *)
ReadIncidents(f) ==
  /\ fetch[f].stage = "listed"
  /\ fetch' = [fetch EXCEPT ![f].stage = "answered", ![f].answer.open = Ongoing]
  /\ UNCHANGED <<server, conn, unread, timer, view, budget>>

(* loadPublicData shows whatever answer arrives last, asked first or not.  *)
Arrive(f) ==
  /\ fetch[f].stage = "answered"
  /\ view' = fetch[f].answer
  /\ fetch' = [fetch EXCEPT ![f] = NoFetch]
  /\ UNCHANGED <<server, conn, unread, timer, budget>>

(* An error answer or a network error: the page keeps what it shows. *)
Fail(f) ==
  /\ fetch[f].stage # "none" /\ Spend("faults")
  /\ fetch' = [fetch EXCEPT ![f] = NoFetch]
  /\ UNCHANGED <<server, conn, unread, timer, view>>

Disconnect ==
  /\ conn = "open" /\ Spend("faults")
  /\ conn' = "waiting" /\ unread' = 0
  /\ UNCHANGED <<server, timer, fetch, view>>

(* Mutant: onerror closes the stream and sets no timer. *)
Reconnect_Once ==
  /\ conn = "waiting" /\ budget.faults = MaxFaults
  /\ conn' = "open"
  /\ UNCHANGED <<server, unread, timer, fetch, view, budget>>
(* Six seconds after onerror; nothing is fetched then. *)
Reconnect ==
  /\ conn = "waiting"
  /\ conn' = "open"
  /\ UNCHANGED <<server, unread, timer, fetch, view, budget>>

-----------------------------------------------------------------------------
Probe(m, l) == Record(m, l) \/ Process(m, l) \/ Broadcast(m, l)
Request(f) == ReadMonitors(f) \/ ReadIncidents(f) \/ Arrive(f)

Next ==
  \/ \E m \in Monitors : Flip(m) \/ TogglePause(m) \/ Reset(m) \/ ResetHalf(m)
  \/ \E m \in Monitors, l \in Lanes : Probe(m, l) \/ Drop(m, l)
  \/ \E m \in Monitors, l \in Spawned : Spawn(m, l) \/ Update(m, l)
  \/ \E m \in Monitors, l \in Checks : Check(m, l)
  \/ \E f \in Slots : TimerFires(f) \/ Request(f) \/ Fail(f)
  \/ Receive \/ Disconnect \/ Reconnect \/ Restart

Spec == Init /\ [][Next]_vars

(* The scheduler picks an active monitor again and again and tokio runs    *)
(* the probe to its end; the browser's timers fire, a stream hands over    *)
(* what it has, and a request that does not fail is answered.              *)
Fairness ==
  /\ \A m \in Monitors : WF_vars(\E l \in Spawned : Spawn(m, l))
  /\ \A m \in Monitors, l \in Lanes : WF_vars(Probe(m, l))
  /\ \A f \in Slots : WF_vars(Request(f))
  /\ WF_vars(\E f \in Slots : TimerFires(f))
  /\ WF_vars(Receive) /\ WF_vars(Reconnect)

FairSpec == Spec /\ Fairness

-----------------------------------------------------------------------------
(* The variables have their types; a closed stream holds no events.        *)
TypeOK ==
  /\ mon \in [Monitors -> [status : Statuses, active : BOOLEAN, public : BOOLEAN,
                           incident : BOOLEAN]]
  /\ task \in [Monitors -> [Lanes -> {"idle", "probe", "send"} \cup Recorded]]
  /\ marred \subseteq Monitors
  /\ health \in [Monitors -> BOOLEAN]
  /\ conn \in {"open", "waiting"} /\ unread \in 0..Capacity
  /\ conn = "waiting" => unread = 0
  /\ timer \in BOOLEAN
  /\ fetch \in [Slots -> [stage : {"none", "asked", "listed", "answered"},
                          answer : Summary, moved : SUBSET Monitors]]
  /\ view \in Summary

(* One answer tells one story: a monitor is listed with an incident when it *)
(* is shown down, without one when it is shown up, and without one when it  *)
(* is not shown at all -- if no probe or edit touched it between the two    *)
(* reads, no probe was between its two writes at the first of them, and the *)
(* last probe to record it did so completely and ran to the end of its      *)
(* second write, no other with another result around it, and no reset has   *)
(* failed half-way since.  Else, and until the next such probe, the answers *)
(* may contradict themselves.  (The two reads of get_public_summary, the    *)
(* filter of list_ongoing, and the two writes of the pipeline.)             *)
SummaryAgrees ==
  \A f \in Slots : fetch[f].stage = "answered" =>
    \A m \in Monitors \ fetch[f].moved :
      /\ fetch[f].answer.shown[m] = "down" => m \in fetch[f].answer.open
      /\ fetch[f].answer.shown[m] \in {"up", "hidden"} => m \notin fetch[f].answer.open

(* Events are dropped when the page lags, edits send none, a request or    *)
(* the connection may fail and answers may overtake each other; still,     *)
(* when the targets and the operator have come to rest, the page comes to  *)
(* show the table and goes on showing it, as long as an active monitor is  *)
(* left whose probes send events.                                          *)
PageCatchesUp ==
  \/ <>[](\A m \in Monitors : ~mon[m].active)
  \/ <>[](view = [shown |-> Shown, open |-> Ongoing])
=============================================================================
