----------------------------- MODULE MCScheduler -----------------------------
(* Scheduler on small instances, for TLC.  Monitor 6 with an interval of 6  *)
(* has stagger 0.  A configuration file cannot hold a negative number.      *)
EXTENDS Scheduler
AnyInterval == {-1, 3}
=============================================================================
