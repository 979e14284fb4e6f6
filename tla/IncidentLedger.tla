--------------------------- MODULE IncidentLedger ----------------------------
(***************************************************************************)
(* What the probe pipeline promises about incidents, with no tasks, stages *)
(* or counters: an incident is opened on a monitor that has none, closed   *)
(* once, or deleted with its monitor; opening and closing each hand out at *)
(* most one notice; and a notice is settled once (sent, refused, switched  *)
(* off or cancelled) or forgotten when the process ends.  Implemented by   *)
(* ProbePipeline, whose tasks carry the notices.                           *)
(***************************************************************************)
CONSTANTS Monitors, NoMonitor, IncidentIds

VARIABLES openOn,   \* incident id -> the monitor it is open on, or NoMonitor
          notices   \* alerts handed out and not settled: <<kind, incident>>

ledgerVars == <<openOn, notices>>

Init == /\ openOn = [i \in IncidentIds |-> NoMonitor]
        /\ notices = {}

(* Handing out a notice may fail (the monitor's name cannot be read). *)
HandOut(n) == notices' \in {notices, notices \cup {n}}

Open(i, m) ==
  /\ openOn[i] = NoMonitor /\ \A n \in notices : n[2] # i
  /\ \A j \in IncidentIds : openOn[j] # m
  /\ openOn' = [openOn EXCEPT ![i] = m]
  /\ HandOut(<<"down", i>>)

Close(i) ==
  /\ openOn[i] # NoMonitor
  /\ openOn' = [openOn EXCEPT ![i] = NoMonitor]
  /\ HandOut(<<"recovery", i>>)

Delete(S) ==
  /\ openOn' = [i \in IncidentIds |-> IF openOn[i] \in S THEN NoMonitor
                                                         ELSE openOn[i]]
  /\ UNCHANGED notices

Settle(n) == /\ notices' = notices \ {n}
             /\ UNCHANGED openOn

Forget == /\ notices' = {}
          /\ UNCHANGED openOn

Next ==
  \/ \E i \in IncidentIds, m \in Monitors : Open(i, m)
  \/ \E i \in IncidentIds : Close(i)
  \/ \E S \in SUBSET Monitors : Delete(S)
  \/ \E n \in notices : Settle(n)
  \/ Forget

Spec == Init /\ [][Next]_ledgerVars
=============================================================================
