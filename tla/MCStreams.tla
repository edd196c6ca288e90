------------------------------ MODULE MCStreams ------------------------------
(* Model-checking instance of what is read, sent and logged: the two       *)
(* directions of a connection and the log file.  They share no state, and  *)
(* a behaviour is one of a single part.                                    *)
EXTENDS Logger, ReadData, SendData, TLC

VARIABLE part

streamVars == <<vars, readVars, sendVars, part>>

StreamInit ==
  /\ part \in {"read", "send", "log"}
  /\ Init /\ ReadInit /\ SendInit

StreamNext ==
  /\ UNCHANGED part
  /\ \/ part = "read" /\ ReadNext /\ UNCHANGED <<vars, sendVars>>
     \/ part = "send" /\ SendNext /\ UNCHANGED <<vars, readVars>>
     \/ part = "log"  /\ Next     /\ UNCHANGED <<readVars, sendVars>>

\* Fairness of the threads that log.
StreamSpec ==
  /\ StreamInit /\ [][StreamNext]_streamVars
  /\ \A t \in Threads : WF_vars(LogStep(t))
=============================================================================
