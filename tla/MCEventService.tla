---------------------------- MODULE MCEventService ----------------------------
(* EventService on small instances.                                         *)
EXTENDS EventService, TLC

\* The runs are interchangeable, and so are the senders of each kind.
Symmetry ==
  Permutations(Runs) \cup Permutations(RunSenders) \cup Permutations(Senders \ RunSenders)
=============================================================================
