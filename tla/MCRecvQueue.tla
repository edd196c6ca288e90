----------------------------- MODULE MCRecvQueue -----------------------------
(* Model-checking instance of the receive queue.                           *)
EXTENDS RecvQueue, TLC
=============================================================================
