----------------------------- MODULE MCRetention -----------------------------
(* Retention on small instances, for TLC. *)
EXTENDS Retention
=============================================================================
