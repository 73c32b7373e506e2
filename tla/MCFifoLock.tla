------------------------------ MODULE MCFifoLock ------------------------------
(* FifoLock on small instances.                                             *)
EXTENDS FifoLock
=============================================================================
