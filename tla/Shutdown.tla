------------------------------- MODULE Shutdown -------------------------------
(***************************************************************************)
(* threadpool.c once more, with Threadpool_Destroy: called by              *)
(* Threadpool_Create when a pthread_create fails, and by Server_Clear      *)
(* (server.c) when nobody adds tasks any longer.  It takes the mutex,      *)
(* signals once, joins threads that are detached, gives the mutex back and *)
(* frees the pool (Threadpool_Free) while its threads are still there.     *)
(*                                                                         *)
(* A pool thread that uses what was freed goes on with what the memory     *)
(* still says, or the process ends; after that nothing happens any more.   *)
(***************************************************************************)
EXTENDS ThreadPool

CONSTANT Destroyer

ASSUME DestroyerAssumption == Destroyer \notin Threads \cup Callers \cup {NoThread}

VARIABLES
  dpc,         \* where the destroyer is; "away" before the call
  joined,      \* the index i of its loop
  gone,        \* what was freed last: "none", "queue", "locker", "pool"
  crashed,     \* the process has ended
  dropped,     \* history: tasks in the queue when it was cleared
  used         \* history: a pool thread used what was freed

endVars      == <<dpc, joined, gone, crashed, dropped, used>>
shutdownVars == <<vars, endVars>>

Spawned == {t \in Threads : pc[t] # "unborn"}

\* Threadpool_Create starts from the number asked for and counts up from it.
thread_count == Cardinality(Threads) + Cardinality(Spawned)

ShutdownInit ==
  /\ Init
  /\ dpc = "away" /\ joined = 0 /\ gone = "none"
  /\ crashed = FALSE /\ dropped = {} /\ used = FALSE

-----------------------------------------------------------------------------
(* The pool's threads and their callers.                                   *)

\* What the next step of t touches, outside of a task.
Touches(t) ==
  CASE pc[t] \in {"check", "pop"} -> gone # "none"
    [] pc[t] \in {"lock", "asleep", "unlock", "unlockAgain"} -> gone \in {"locker", "pool"}
    [] OTHER -> FALSE

\* Once Threadpool_Destroy is called no thread is started any more.
PoolStep(t) ==
  /\ pc[t] = "unborn" => dpc = "away"
  /\ RunStep(t)
  /\ used' = (used \/ Touches(t))
  /\ UNCHANGED <<dpc, joined, gone, crashed, dropped>>

PoolOther(t) == (TaskReturns(t) \/ RunSpurious(t)) /\ UNCHANGED endVars

PoolCrash(t) ==
  /\ Touches(t)
  /\ crashed' = TRUE /\ used' = TRUE
  /\ UNCHANGED <<vars, dpc, joined, gone, dropped>>

Adds(c) ==
  /\ AddStep(c) \/ (AddMake(c) /\ dpc = "away")
  /\ UNCHANGED endVars

-----------------------------------------------------------------------------
(* Threadpool_Destroy                                                      *)

DGoto(from, to) == dpc = from /\ dpc' = to

\* The caller of Threadpool_Destroy sees to it that nobody adds a task.
Threadpool_Destroy ==
  /\ Spawned = Threads /\ \A c \in Callers : pc[c] = "idle"
  /\ DGoto("away", "lock")
  /\ UNCHANGED <<vars, joined, gone, crashed, dropped, used>>

\* pthread_create fails in Threadpool_Create.
CreateFails ==
  /\ Spawned # Threads
  /\ DGoto("away", "lock")
  /\ UNCHANGED <<vars, joined, gone, crashed, dropped, used>>

\* Seeded fault: the mutex is not taken.
BadDestroyLock ==
  /\ DGoto("lock", "signal")
  /\ UNCHANGED <<vars, joined, gone, crashed, dropped, used>>

DestroyLock ==
  /\ DGoto("lock", "signal")
  /\ locker_lock(Destroyer)
  /\ UNCHANGED <<list, pc, task, made, finished, joined, gone, crashed, dropped, used>>

\* One sleeper wakes; the error text calls it "single all".
DestroySignal ==
  /\ DGoto("signal", "join")
  /\ locker_signal
  /\ UNCHANGED <<list, pc, task, made, finished, joined, gone, crashed, dropped, used>>

\* Seeded fault: the threads were not detached, and the join waits for one.
BadJoin ==
  /\ dpc = "join" /\ joined < Cardinality(Spawned)
  /\ \E t \in Threads : pc[t] = "exited"
  /\ joined' = joined + 1
  /\ UNCHANGED <<vars, dpc, gone, crashed, dropped, used>>

\* pthread_join does not wait for a detached thread.
Join ==
  /\ dpc = "join" /\ joined < Cardinality(Spawned)
  /\ joined' = joined + 1
  /\ UNCHANGED <<vars, dpc, gone, crashed, dropped, used>>

\* Entries of threadmgr that were never written, then what lies behind it:
\* the join fails or the process ends.
JoinGarbage ==
  /\ dpc = "join"
  /\ Cardinality(Spawned) <= joined /\ joined < thread_count
  /\ joined' = joined + 1
  /\ crashed' \in BOOLEAN
  /\ UNCHANGED <<vars, dpc, gone, dropped, used>>

DestroyUnlock ==
  /\ joined = thread_count
  /\ DGoto("join", "free")
  /\ locker_unlock
  /\ UNCHANGED <<list, pc, task, made, finished, joined, gone, crashed, dropped, used>>

-----------------------------------------------------------------------------
(* Threadpool_Free                                                         *)

\* The queue is emptied; the tasks are not freed with it.
FreeQueue ==
  /\ dpc = "free" /\ gone = "none"
  /\ gone' = "queue"
  /\ list' = <<>>
  /\ dropped' = Queued
  /\ UNCHANGED <<lockerVars, pc, task, made, finished, dpc, joined, crashed, used>>

\* With threads asleep on it pthread_cond_destroy need not return: no fairness.
FreeLocker ==
  /\ gone = "queue"
  /\ gone' = "locker"
  /\ UNCHANGED <<vars, dpc, joined, crashed, dropped, used>>

FreePool ==
  /\ gone = "locker"
  /\ gone' = "pool"
  /\ DGoto("free", "done")
  /\ UNCHANGED <<vars, joined, crashed, dropped, used>>

DestroyStep ==
  DestroyLock \/ DestroySignal \/ Join \/ JoinGarbage \/ DestroyUnlock \/ FreeQueue

ShutdownNext ==
  /\ ~ crashed
  /\ \/ \E t \in Threads : PoolStep(t) \/ PoolOther(t) \/ PoolCrash(t)
     \/ \E c \in Callers : Adds(c)
     \/ Threadpool_Destroy \/ CreateFails
     \/ DestroyStep \/ FreeLocker \/ FreePool

ShutdownSpec ==
  /\ ShutdownInit /\ [][ShutdownNext]_shutdownVars
  /\ WF_shutdownVars(~ crashed /\ DestroyStep)

-----------------------------------------------------------------------------
(* Properties.                                                             *)

\* As long as nothing freed is used the destroyer is alone inside the mutex,
\* no pool thread is inside with it, none gets a NULL task and none ends:
\* waking and joining the threads does not make them leave.
DestroyExclusive ==
  ~ used =>
    /\ dpc \in {"signal", "join"} <=> m_mutex = Destroyer
    /\ \A u \in Threads \cup Callers :
         pc[u] \in {"check", "pop", "push", "unlock"} <=> m_mutex = u
    /\ \A t \in Threads : pc[t] \notin {"unlockAgain", "exited"}

\* As long as nothing freed is used each task added is in one place: with its
\* caller, in the queue, with the one thread that runs it, finished, or among
\* those Threadpool_Free dropped.
TasksKept ==
  ~ used =>
    /\ Queued \cup Running \cup Adding \cup finished \cup dropped = 1..made
    /\ dropped \cap (Queued \cup Running \cup Adding \cup finished) = {}
    /\ Queued \cap (Running \cup Adding \cup finished) = {}
    /\ Running \cap finished = {}

\* Although it joins threads that may need the mutex, the destroyer always
\* gives the mutex back, unless the process ends first.
LockComesBack == m_mutex = Destroyer ~> m_mutex # Destroyer \/ crashed
=============================================================================
