---------------------------- MODULE MCAdminAccess ----------------------------
(* AdminAccess on small instances, for TLC. *)
EXTENDS AdminAccess
=============================================================================
