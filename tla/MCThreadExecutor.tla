-------------------------- MODULE MCThreadExecutor --------------------------
(* Small instance of ThreadExecutor for TLC.                               *)
EXTENDS ThreadExecutor

CONSTANTS t1, t2, t3, c1, c2
=============================================================================
