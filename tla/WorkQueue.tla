------------------------------ MODULE WorkQueue ------------------------------
(***************************************************************************)
(* What both queues of the server promise to the code that uses them, the  *)
(* receive queue (event_read to Server_Process) and the task queue of a    *)
(* thread pool (Threadpool_Addtask to Threadpool_Run): jobs enter in some  *)
(* order, are taken out in that order, one at a time, each by one thread,  *)
(* and each is worked on once.  No locks, no semaphore, no threads.        *)
(***************************************************************************)
EXTENDS Sequences

CONSTANT Jobs

VARIABLES
  pending,     \* the submitted jobs nobody has taken, oldest first
  active,      \* the jobs some thread has taken and not finished
  done         \* the finished jobs

wqVars == <<pending, active, done>>

Init ==
  /\ pending = <<>>
  /\ active  = {}
  /\ done    = {}

\* A job enters the queue at most once in its life.
Submit(j) ==
  /\ j \notin active \cup done
  /\ \A k \in DOMAIN pending : pending[k] # j
  /\ pending' = Append(pending, j)
  /\ UNCHANGED <<active, done>>

Take ==
  /\ pending # <<>>
  /\ pending' = Tail(pending)
  /\ active'  = active \cup {Head(pending)}
  /\ UNCHANGED done

Finish(j) ==
  /\ j \in active
  /\ active' = active \ {j}
  /\ done'   = done \cup {j}
  /\ UNCHANGED pending

Next == Take \/ \E j \in Jobs : Submit(j) \/ Finish(j)

\* The safety half: order, exclusivity, at-most-once.
Spec == Init /\ [][Next]_wqVars

\* The queue never sits on work.
TakeSpec == Spec /\ WF_wqVars(Take)

\* ... and nobody who took a job keeps it for ever.
FairSpec == TakeSpec /\ \A j \in Jobs : WF_wqVars(Finish(j))

=============================================================================
