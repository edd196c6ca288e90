------------------------------ MODULE ThreadPool ------------------------------
(***************************************************************************)
(* threadpool.c: Threadpool_Create starts the threads, Threadpool_Addtask  *)
(* queues a task under the mutex and signals after releasing it,           *)
(* Threadpool_Run is the loop of every pool thread.  The server has two    *)
(* such pools, one thread for Server_Loop and MAX_WORK_THREAD threads for  *)
(* the Server_Process tasks, which never return.                           *)
(*                                                                         *)
(* Tasks are numbered in the order they are allocated; 0 is NULL.          *)
(***************************************************************************)
EXTENDS Locker, Integers, Sequences, FiniteSets

CONSTANTS
  Threads,     \* the pool's threads
  Callers,     \* the threads that add tasks
  MaxTasks     \* bound: tasks ever added

ASSUME PoolAssumption ==
  /\ IsFiniteSet(Threads)
  /\ IsFiniteSet(Callers)
  /\ Threads \cap Callers = {}
  /\ NoThread \notin Threads \cup Callers
  /\ MaxTasks \in Nat

VARIABLES
  list,        \* the pool's task queue, head first
  pc,          \* where each thread is
  task,        \* threadpool_task, a local variable of each thread
  made,        \* tasks allocated so far
  finished     \* tasks whose callback returned

vars == <<lockerVars, list, pc, task, made, finished>>

NULL  == 0
Tasks == 1..MaxTasks

Goto(t, from, to) ==
  /\ pc[t] = from
  /\ pc' = [pc EXCEPT ![t] = to]

Init ==
  /\ locker_init
  /\ list = <<>>
  /\ pc = [t \in Threads \cup Callers |-> IF t \in Threads THEN "unborn" ELSE "idle"]
  /\ task = [t \in Threads \cup Callers |-> NULL]
  /\ made = 0
  /\ finished = {}

-----------------------------------------------------------------------------
(* Threadpool_Create: one pthread_create per turn of its loop.             *)

Spawn(t) ==
  /\ Goto(t, "unborn", "lock")
  /\ UNCHANGED <<lockerVars, list, task, made, finished>>

-----------------------------------------------------------------------------
(* Threadpool_Addtask.  The pool is only known to the callers once         *)
(* Threadpool_Create returned.  A failed malloc changes nothing.           *)

AddMake(c) ==
  /\ made < MaxTasks
  /\ \A t \in Threads : pc[t] # "unborn"
  /\ Goto(c, "idle", "lock")
  /\ made' = made + 1
  /\ task' = [task EXCEPT ![c] = made']
  /\ UNCHANGED <<lockerVars, list, finished>>

AddLock(c) ==
  /\ Goto(c, "lock", "push")
  /\ locker_lock(c)
  /\ UNCHANGED <<list, task, made, finished>>

AddPush(c) ==
  /\ Goto(c, "push", "unlock")
  /\ list' = Append(list, task[c])
  /\ UNCHANGED <<lockerVars, task, made, finished>>

AddUnlock(c) ==
  /\ Goto(c, "unlock", "signal")
  /\ locker_unlock
  /\ UNCHANGED <<list, task, made, finished>>

\* Seeded faults: the semaphore is posted in place of the condition variable,
\* or nobody is told.
BadPost(c) ==
  /\ Goto(c, "signal", "idle")
  /\ locker_post
  /\ task' = [task EXCEPT ![c] = NULL]
  /\ UNCHANGED <<list, made, finished>>

BadNoSignal(c) ==
  /\ Goto(c, "signal", "idle")
  /\ task' = [task EXCEPT ![c] = NULL]
  /\ UNCHANGED <<lockerVars, list, made, finished>>


AddSignal(c) ==
  /\ Goto(c, "signal", "idle")
  /\ locker_signal
  /\ task' = [task EXCEPT ![c] = NULL]
  /\ UNCHANGED <<list, made, finished>>

AddStep(c) == AddLock(c) \/ AddPush(c) \/ AddUnlock(c) \/ AddSignal(c)

-----------------------------------------------------------------------------
(* Threadpool_Run.                                                         *)

RunLock(t) ==
  /\ Goto(t, "lock", "check")
  /\ locker_lock(t)
  /\ UNCHANGED <<list, task, made, finished>>

\* while (size <= 0) cwait
RunWait(t) ==
  /\ list = <<>>
  /\ Goto(t, "check", "asleep")
  /\ locker_condwait(t)
  /\ UNCHANGED <<list, task, made, finished>>

\* Seeded fault: `if` in place of `while` around cwait.
BadWakeNoTest(t) ==
  /\ t \notin m_cond
  /\ Goto(t, "asleep", "pop")
  /\ locker_lock(t)
  /\ UNCHANGED <<list, task, made, finished>>

\* pthread_cond_wait returns with the mutex held again; the size is tested again.
RunWake(t) ==
  /\ t \notin m_cond
  /\ Goto(t, "asleep", "check")
  /\ locker_lock(t)
  /\ UNCHANGED <<list, task, made, finished>>

RunSpurious(t) ==
  /\ SpuriousWakeup(t)
  /\ UNCHANGED <<list, pc, task, made, finished>>

RunLeaveWhile(t) ==
  /\ list # <<>>
  /\ Goto(t, "check", "pop")
  /\ UNCHANGED <<lockerVars, list, task, made, finished>>

\* Seeded faults: the head is read but not removed; the tail is taken.
BadPeek(t) ==
  /\ Goto(t, "pop", "unlock")
  /\ task' = [task EXCEPT ![t] = Head(list)]
  /\ UNCHANGED <<lockerVars, list, made, finished>>

BadPopTail(t) ==
  /\ Goto(t, "pop", "unlock")
  /\ task' = [task EXCEPT ![t] = list[Len(list)]]
  /\ list' = SubSeq(list, 1, Len(list) - 1)
  /\ UNCHANGED <<lockerVars, made, finished>>


RunPop(t) ==
  /\ Goto(t, "pop", "unlock")
  /\ IF list = <<>>
     THEN UNCHANGED <<list, task>>
     ELSE /\ task' = [task EXCEPT ![t] = Head(list)]
          /\ list' = Tail(list)
  /\ UNCHANGED <<lockerVars, made, finished>>

\* A NULL task is unlocked once more before the thread function returns.
AfterUnlock(t) ==
  IF pc[t] = "unlockAgain" THEN "exited"
  ELSE IF task[t] = NULL THEN "unlockAgain" ELSE "run"

RunUnlock(t) ==
  /\ pc[t] \in {"unlock", "unlockAgain"}
  /\ pc' = [pc EXCEPT ![t] = AfterUnlock(t)]
  /\ locker_unlock
  /\ UNCHANGED <<list, task, made, finished>>

\* The callback returns; the next turn of the loop overwrites threadpool_task.
TaskReturns(t) ==
  /\ Goto(t, "run", "lock")
  /\ finished' = finished \cup {task[t]}
  /\ task' = [task EXCEPT ![t] = NULL]
  /\ UNCHANGED <<lockerVars, list, made>>

RunStep(t) ==
  \/ Spawn(t) \/ RunLock(t) \/ RunWait(t) \/ RunWake(t) \/ RunLeaveWhile(t)
  \/ RunPop(t) \/ RunUnlock(t)

Next ==
  \/ \E t \in Threads : RunStep(t) \/ RunSpurious(t) \/ TaskReturns(t)
  \/ \E c \in Callers : AddMake(c) \/ AddStep(c)

Spec == Init /\ [][Next]_vars

\* Every thread that can run does.  No task has to return, nobody has to add
\* one, and no wakeup is spurious by obligation.
FairSpec ==
  /\ Spec
  /\ \A t \in Threads : WF_vars(RunStep(t))
  /\ \A c \in Callers : WF_vars(AddStep(c))

-----------------------------------------------------------------------------
(* Properties.                                                             *)

RunLabels == {"unborn", "lock", "check", "asleep", "pop", "unlock", "run",
              "unlockAgain", "exited"}
AddLabels == {"idle", "lock", "push", "unlock", "signal"}

\* Every variable but the mutex keeps the shape its C counterpart has.
PoolShapes ==
  /\ m_cond \subseteq Threads
  /\ m_sem = 0
  /\ list \in Seq(Tasks)
  /\ pc \in [Threads \cup Callers -> RunLabels \cup AddLabels]
  /\ \A t \in Threads : pc[t] \in RunLabels
  /\ \A c \in Callers : pc[c] \in AddLabels
  /\ task \in [Threads \cup Callers -> Tasks \cup {NULL}]
  /\ made \in 0..MaxTasks
  /\ finished \subseteq Tasks

\* So does the mutex: its owner is a thread or a caller of the pool.
TypeOK == PoolShapes /\ m_mutex \in Threads \cup Callers \cup {NoThread}

\* Between the size test and the pop the mutex is never let go, so the pop
\* finds the task the test saw: no thread ever gets a NULL task and exits,
\* unlocking a mutex it does not hold.
NoThreadExits ==
  /\ \A t \in Threads : pc[t] \notin {"unlockAgain", "exited"}
  /\ \A u \in Threads \cup Callers :
       pc[u] \in {"check", "pop", "push", "unlock"} <=> m_mutex = u

\* Threads that will test the size before they sleep (again).
Seekers == {t \in Threads : \/ pc[t] \in {"lock", "check", "pop"}
                            \/ pc[t] = "asleep" /\ t \notin m_cond}

\* Callers that pushed a task and have not signalled yet.
Signallers == {c \in Callers : pc[c] \in {"unlock", "signal"}}

\* No lost wakeup: while a thread sleeps, each queued task has a thread on
\* its way to it, or a signal that is still to be sent.
NoLostWakeup ==
  m_cond # {} => Len(list) <= Cardinality(Seekers) + Cardinality(Signallers)

Queued  == {list[k] : k \in DOMAIN list}
Running == {task[t] : t \in Threads} \ {NULL}
Adding  == {task[c] : c \in {d \in Callers : pc[d] \in {"lock", "push"}}}

\* Each task added is in exactly one place: with the caller that adds it, in
\* the queue, with the one thread that runs it, or finished.
OnePlace ==
  /\ Queued \cup Running \cup Adding \cup finished = 1..made
  /\ Queued \cap (Running \cup Adding \cup finished) = {}
  /\ Running \cap (Adding \cup finished) = {}
  /\ Adding \cap finished = {}
  /\ \A j, k \in DOMAIN list : list[j] = list[k] => j = k
  /\ \A t, u \in Threads : task[t] = task[u] /\ task[t] # NULL => t = u

\* With no more tasks than threads every queued task starts although none
\* ever returns: each Server_Process of StartServer gets a thread.
EveryTaskStarts == \A k \in Tasks : k \in Queued ~> k \in Running \cup finished

WQ == INSTANCE WorkQueue WITH
        Jobs    <- Tasks,
        pending <- list,
        active  <- Running,
        done    <- finished

\* The pool's queue implements the abstract work queue, and with a thread per
\* task it never sits on work.
ImplementsWorkQueue == WQ!TakeSpec

=============================================================================
