---------------------------- MODULE MCEventFlow ----------------------------
EXTENDS EventFlow
CONSTANTS agent, user
\* A run, and the calls of a user under the lock of the state: rejections and
\* answers to a review, which are stored, and pauses, which are not.
KindsOfThreads ==
    [p \in Publishers |-> IF p = agent THEN {"stored"} ELSE {"locked", "transient"}]
=============================================================================
