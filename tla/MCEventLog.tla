----------------------------- MODULE MCEventLog -----------------------------
(* EventLog on small instances.                                             *)
EXTENDS EventLog, TLC

Symmetry == Permutations(Logs) \cup Permutations(Ids)
=============================================================================
