----------------------------- MODULE MCThreadPool -----------------------------
(* Model-checking instance of the thread pool.                             *)
EXTENDS ThreadPool, TLC
=============================================================================
