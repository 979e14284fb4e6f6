--------------------------- MODULE DeliveryPromise ---------------------------
(***************************************************************************)
(* What send_message and the alert log promise of every alert, with no     *)
(* settings, timeouts or files: it is refused, or handed to the network    *)
(* once; what is handed over arrives at most once; it is called OK only    *)
(* after it has arrived; and a verdict is logged at most once, its text    *)
(* before its end.  At any time an alert may be given up, and what it had  *)
(* still to do is left out.  Implemented by AlertDelivery.                 *)
(***************************************************************************)
EXTENDS Sequences

CONSTANTS Alerts, Levels

VARIABLES
  fate,      \* of an alert: waiting, trying, the verdict to be logged, begun, through
  transit,   \* alerts handed to the network, neither arrived nor lost
  received,  \* what Telegram received, in order
  log        \* what was written to the log, in order

promiseVars == <<fate, transit, received, log>>

Init == /\ fate = [a \in Alerts |-> "waiting"]
        /\ transit = {} /\ received = <<>>
        /\ \A i \in DOMAIN log : log[i].alert \notin Alerts

Become(a, from, to) == fate[a] = from /\ fate' = [fate EXCEPT ![a] = to]

(* Notifications are off, or the work on some alerts was cut short: nothing *)
(* more is sent or logged of them.                                          *)
Stop(S) == /\ fate' = [a \in Alerts |-> IF a \in S THEN "through" ELSE fate[a]]
           /\ UNCHANGED <<transit, received, log>>

Refuse(a) == /\ \E l \in Levels \ {"OK"} : Become(a, "waiting", l)
             /\ UNCHANGED <<transit, received, log>>

Try(a) == /\ Become(a, "waiting", "trying")
          /\ transit' = transit \cup {a}
          /\ UNCHANGED <<received, log>>

Arrive(a) == /\ a \in transit
             /\ transit' = transit \ {a} /\ received' = Append(received, a)
             /\ UNCHANGED <<fate, log>>

Lose(a) == a \in transit /\ transit' = transit \ {a} /\ UNCHANGED <<fate, received, log>>

Conclude(a) == /\ \/ Become(a, "trying", "ERROR")
                  \/ Become(a, "trying", "OK") /\ \E i \in DOMAIN received : received[i] = a
               /\ UNCHANGED <<transit, received, log>>

Log(a) == /\ \E l \in Levels : /\ Become(a, l, "begun")
                               /\ log' = Append(log, [alert |-> a, part |-> l])
          /\ UNCHANGED <<transit, received>>

Finish(a) == /\ Become(a, "begun", "through")
             /\ log' = Append(log, [alert |-> a, part |-> "end"])
             /\ UNCHANGED <<transit, received>>

Next == \/ \E S \in SUBSET Alerts : Stop(S)
        \/ \E a \in Alerts : \/ Refuse(a) \/ Try(a) \/ Arrive(a) \/ Lose(a)
                             \/ Conclude(a) \/ Log(a) \/ Finish(a)

Spec == Init /\ [][Next]_promiseVars
=============================================================================
