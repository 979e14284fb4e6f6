--------------------------- MODULE MCProbePipeline ---------------------------
(* ProbePipeline on small instances, for TLC. *)
EXTENDS ProbePipeline, TLC

(* Tasks and incident identities are interchangeable; monitors too. *)
Symmetric == Permutations(Monitors) \cup Permutations(Tasks)
               \cup Permutations(IncidentIds)
=============================================================================
