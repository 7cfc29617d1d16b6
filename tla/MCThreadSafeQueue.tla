-------------------------- MODULE MCThreadSafeQueue --------------------------
(* Instance of ThreadSafeQueue for TLC: the constants are in the cfg.         *)
EXTENDS ThreadSafeQueue
=============================================================================
