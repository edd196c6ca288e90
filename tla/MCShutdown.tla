------------------------------ MODULE MCShutdown ------------------------------
(* Model-checking instance of Threadpool_Destroy.                          *)
EXTENDS Shutdown, TLC
=============================================================================
