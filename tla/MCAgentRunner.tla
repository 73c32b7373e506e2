---------------------------- MODULE MCAgentRunner ----------------------------
(* AgentRunner on small instances.                                          *)
EXTENDS AgentRunner, TLC

\* The threads of one kind are interchangeable.
Symmetry == Permutations(Runs) \cup Permutations(Senders)
=============================================================================
