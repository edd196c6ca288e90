--------------------------- MODULE ThreadPoolProofs ---------------------------
(***************************************************************************)
(* Proofs about the thread pool, for any number of pool threads, callers   *)
(* and tasks.                                                              *)
(***************************************************************************)
EXTENDS ThreadPool, QueueLemmas

\* A caller that adds, and a thread that runs, has a task in hand.
TaskHeld ==
  /\ \A c \in Callers : pc[c] \in {"lock", "push"} => task[c] # NULL
  /\ \A t \in Threads : pc[t] \in {"unlock", "run"} => task[t] # NULL

\* A thread that left the while loop finds a task: nobody else can have
\* taken it, because the thread still owns the mutex.
PopFinds == \A t \in Threads : pc[t] = "pop" => list # <<>>

\* What holds also while a thread of another kind owns the mutex.
PoolInv == PoolShapes /\ NoThreadExits /\ TaskHeld

IInv == TypeOK /\ PoolInv /\ PopFinds

LEMMA PoolInit == Init => IInv
<1> SUFFICES ASSUME Init
             PROVE  IInv
  OBVIOUS
<1> USE PoolAssumption DEF PoolAssumption, Init, NULL, Tasks, RunLabels, AddLabels
<1>1. TypeOK
  BY DEF TypeOK, PoolShapes, locker_init
<1>2. NoThreadExits /\ TaskHeld /\ PopFinds
  BY DEF NoThreadExits, TaskHeld, PopFinds, locker_init
<1> QED
  BY <1>1, <1>2 DEF IInv, PoolInv, TypeOK

LEMMA CallerKeeps ==
  ASSUME PoolInv, NEW c \in Callers, AddMake(c) \/ AddStep(c)
  PROVE  PoolInv' /\ (PopFinds => PopFinds') /\ (TypeOK => TypeOK')
<1> USE PoolAssumption
    DEF PoolAssumption, PoolInv, TypeOK, PoolShapes, NoThreadExits, TaskHeld, PopFinds, NULL,
        Tasks, RunLabels, AddLabels, Goto, lockerVars
<1>1. CASE AddMake(c)
  <2>1. made' \in 1..MaxTasks
    BY <1>1 DEF AddMake
  <2> QED
    BY <1>1, <2>1 DEF AddMake
<1>2. CASE AddLock(c)
  BY <1>2 DEF AddLock, locker_lock
<1>3. CASE AddPush(c)
  <2>1. task[c] \in Tasks
    BY <1>3 DEF AddPush
  <2>2. list' \in Seq(Tasks) /\ list' # <<>>
    BY <1>3, <2>1 DEF AddPush
  <2> QED
    BY <1>3, <2>2 DEF AddPush
<1>4. CASE AddUnlock(c)
  BY <1>4 DEF AddUnlock, locker_unlock
<1>5. CASE AddSignal(c)
  BY <1>5 DEF AddSignal, locker_signal
<1> QED
  BY <1>1, <1>2, <1>3, <1>4, <1>5 DEF AddStep

LEMMA ThreadKeeps ==
  ASSUME PoolInv, NEW t \in Threads, RunStep(t) \/ RunSpurious(t) \/ TaskReturns(t),
         pc[t] = "pop" => list # <<>>
  PROVE  PoolInv' /\ (PopFinds => PopFinds') /\ (TypeOK => TypeOK')
<1> USE PoolAssumption
    DEF PoolAssumption, PoolInv, TypeOK, PoolShapes, NoThreadExits, TaskHeld, PopFinds, NULL,
        Tasks, RunLabels, AddLabels, Goto, lockerVars
<1>1. CASE Spawn(t)
  BY <1>1 DEF Spawn
<1>2. CASE RunLock(t)
  BY <1>2 DEF RunLock, locker_lock
<1>3. CASE RunWait(t)
  BY <1>3 DEF RunWait, locker_condwait
<1>4. CASE RunWake(t)
  BY <1>4 DEF RunWake, locker_lock
<1>5. CASE RunLeaveWhile(t)
  BY <1>5 DEF RunLeaveWhile
<1>6. CASE RunPop(t)
  <2>1. list # <<>> /\ m_mutex = t
    BY <1>6 DEF RunPop
  <2>2. /\ Head(list) \in Tasks /\ Tail(list) \in Seq(Tasks)
        /\ task' = [task EXCEPT ![t] = Head(list)] /\ list' = Tail(list)
    BY <1>6, <2>1 DEF RunPop
  <2>3. \A u \in Threads : pc'[u] # "pop"
    BY <1>6, <2>1 DEF RunPop
  <2>4. TypeOK' /\ NoThreadExits'
    BY <1>6, <2>1, <2>2 DEF RunPop
  <2>5. TaskHeld'
    BY <1>6, <2>2 DEF RunPop
  <2> QED
    BY <2>3, <2>4, <2>5
<1>7. CASE RunUnlock(t)
  <2>1. pc[t] = "unlock" /\ AfterUnlock(t) = "run"
    BY <1>7 DEF RunUnlock, AfterUnlock
  <2> QED
    BY <1>7, <2>1 DEF RunUnlock, locker_unlock
<1>8. CASE RunSpurious(t)
  BY <1>8 DEF RunSpurious, SpuriousWakeup
<1>9. CASE TaskReturns(t)
  BY <1>9 DEF TaskReturns
<1> QED
  BY <1>1, <1>2, <1>3, <1>4, <1>5, <1>6, <1>7, <1>8, <1>9 DEF RunStep

LEMMA PoolNext == IInv /\ [Next]_vars => IInv'
<1> SUFFICES ASSUME IInv, [Next]_vars
             PROVE  IInv'
  OBVIOUS
<1>1. CASE UNCHANGED vars
  <2>1. UNCHANGED <<m_mutex, m_cond, m_sem, list, pc, task, made, finished>>
    BY <1>1 DEF vars, lockerVars
  <2>2. TypeOK' /\ PoolShapes'
    BY <2>1 DEF IInv, TypeOK, PoolShapes
  <2>3. NoThreadExits' /\ TaskHeld' /\ PopFinds'
    BY <2>1 DEF IInv, PoolInv, NoThreadExits, TaskHeld, PopFinds
  <2> QED
    BY <2>2, <2>3 DEF IInv, PoolInv
<1>2. ASSUME NEW c \in Callers, AddMake(c) \/ AddStep(c)
      PROVE  IInv'
  BY <1>2, CallerKeeps DEF IInv
<1>3. ASSUME NEW t \in Threads, RunStep(t) \/ RunSpurious(t) \/ TaskReturns(t)
      PROVE  IInv'
  <2>1. pc[t] = "pop" => list # <<>>
    BY DEF IInv, PopFinds
  <2> QED
    BY <1>3, <2>1, ThreadKeeps DEF IInv
<1> QED
  BY <1>1, <1>2, <1>3 DEF Next

\* No thread of the pool ever takes the path of a NULL task, which unlocks a
\* mutex it does not hold and ends the thread; and whoever is between lock
\* and unlock owns the mutex.
THEOREM ThreadsStay == Spec => []NoThreadExits
<1>1. IInv => NoThreadExits
  BY DEF IInv, PoolInv
<1> QED
  BY PoolInit, PoolNext, <1>1, PTL DEF Spec

\* Type correctness of the thread pool.
THEOREM PoolTypes == Spec => []TypeOK
<1>1. IInv => TypeOK
  BY DEF IInv
<1> QED
  BY PoolInit, PoolNext, <1>1, PTL DEF Spec

-----------------------------------------------------------------------------
(* Where a task is.                                                        *)

Busy   == {"unlock", "run"}
Adders == {c \in Callers : pc[c] \in {"lock", "push"}}

\* threadpool_task is non-NULL exactly from the pop to the return of the task.
TaskTaken == \A t \in Threads : task[t] # NULL <=> pc[t] \in Busy

\* No two callers add the same task.
OwnTask == \A c, d \in Adders : task[c] = task[d] => c = d

\* OnePlace, with one more place for a task: D, a set that no step of the pool
\* changes.
InOnePlace(D) ==
  /\ Queued \cup Running \cup Adding \cup finished \cup D = 1..made
  /\ D \cap (Queued \cup Running \cup Adding \cup finished) = {}
  /\ Queued \cap (Running \cup Adding \cup finished) = {}
  /\ Running \cap (Adding \cup finished) = {}
  /\ Adding \cap finished = {}
  /\ NoRepeat(list)
  /\ \A t, u \in Threads : task[t] = task[u] /\ task[t] # NULL => t = u

PlaceInv(D) == InOnePlace(D) /\ TaskTaken /\ OwnTask

LEMMA PlaceInit == Init => PlaceInv({})
<1> SUFFICES ASSUME Init
             PROVE  PlaceInv({})
  OBVIOUS
<1> USE PoolAssumption DEF PoolAssumption
<1>1. /\ \A t \in Threads : pc[t] = "unborn" /\ task[t] = NULL
      /\ \A c \in Callers : pc[c] = "idle"
      /\ list = <<>> /\ made = 0 /\ finished = {}
  BY DEF Init
<1>2. Queued = {} /\ Running = {} /\ Adding = {} /\ Adders = {}
  BY <1>1 DEF Queued, Running, Adding, Adders
<1>3. InOnePlace({})
  BY <1>1, <1>2 DEF InOnePlace, NoRepeat, NULL
<1> QED
  BY <1>1, <1>2, <1>3 DEF PlaceInv, TaskTaken, OwnTask, NULL, Busy

LEMMA PoolFacts ==
  ASSUME NEW D, PoolInv, PlaceInv(D)
  PROVE  /\ list \in Seq(Tasks) /\ Queued = Entries(list) /\ NoRepeat(list)
         /\ made \in Nat /\ \A c \in Adders : task[c] \in Tasks \ {NULL}
         /\ Adding = {task[c] : c \in Adders}
         /\ \A t \in Threads : task[t] \in Tasks \cup {NULL}
<1> USE PoolAssumption DEF PoolAssumption, PoolInv, PoolShapes, Tasks, NULL
<1>1. Queued = Entries(list) /\ NoRepeat(list)
  BY DEF Queued, Entries, NoRepeat, PlaceInv, InOnePlace
<1>2. \A c \in Adders : task[c] \in Tasks \ {NULL}
  BY DEF Adders, TaskHeld
<1> QED
  BY <1>1, <1>2 DEF Adding, Adders

\* Steps that move no task.
LEMMA PlaceStill ==
  ASSUME NEW D, PlaceInv(D),
         UNCHANGED <<list, made, finished>>,
         \A t \in Threads : task'[t] = task[t] /\ (pc'[t] \in Busy <=> pc[t] \in Busy),
         \A c \in Callers : pc'[c] \in {"lock", "push"} <=> pc[c] \in {"lock", "push"},
         \A c \in Adders : task'[c] = task[c]
  PROVE  PlaceInv(D)'
<1>1. Queued' = Queued /\ Running' = Running /\ Adders' = Adders
  BY DEF Queued, Running, Adders
<1>2. Adding' = Adding
  BY <1>1 DEF Adding, Adders
<1>3. InOnePlace(D)'
  BY <1>1, <1>2 DEF PlaceInv, InOnePlace
<1>4. TaskTaken' /\ OwnTask'
  BY <1>1 DEF PlaceInv, TaskTaken, OwnTask
<1> QED
  BY <1>3, <1>4 DEF PlaceInv

LEMMA PlaceCaller ==
  ASSUME NEW D, PoolInv, PlaceInv(D), NEW c \in Callers, AddMake(c) \/ AddStep(c)
  PROVE  PlaceInv(D)'
<1> USE PoolAssumption DEF PoolAssumption, Goto
<1>1. \A t \in Threads : pc'[t] = pc[t] /\ task'[t] = task[t]
  BY DEF AddMake, AddStep, AddLock, AddPush, AddUnlock, AddSignal, PoolInv, PoolShapes
<1>2. Running' = Running
  BY <1>1 DEF Running
<1>3. CASE AddMake(c)
  <2>1. /\ UNCHANGED <<list, finished>> /\ made' = made + 1
        /\ pc[c] = "idle" /\ pc'[c] = "lock" /\ task'[c] = made'
        /\ \A d \in Callers \ {c} : pc'[d] = pc[d] /\ task'[d] = task[d]
    BY <1>3 DEF AddMake, PoolInv, PoolShapes
  <2>2. Adders' = Adders \cup {c} /\ c \notin Adders /\ Queued' = Queued
    BY <2>1 DEF Adders, Queued
  <2>3. Adding' = Adding \cup {made'}
    <3>1. \A d \in Adders : task'[d] = task[d]
      BY <2>1, <2>2 DEF Adders
    <3> QED
      BY <2>1, <2>2, <3>1 DEF Adding, Adders
  <2>4. 1..made' = 1..made \cup {made'} /\ made' \notin 1..made
    BY <2>1, PoolFacts
  <2>5. InOnePlace(D)'
    <3>1. \A t, u \in Threads : task'[t] = task'[u] /\ task'[t] # NULL => t = u
      BY <1>1 DEF PlaceInv, InOnePlace
    <3> QED
      BY <1>2, <2>1, <2>2, <2>3, <2>4, <3>1 DEF PlaceInv, InOnePlace
  <2>6. OwnTask'
    <3>1. \A d \in Adders : task[d] \in Adding
      BY DEF Adding, Adders
    <3>2. \A d \in Adders : task'[d] = task[d] /\ task[d] # made'
      BY <2>1, <2>2, <2>4, <3>1 DEF PlaceInv, InOnePlace, Adders
    <3> QED
      BY <2>1, <2>2, <3>2 DEF PlaceInv, OwnTask
  <2>7. TaskTaken'
    BY <1>1 DEF PlaceInv, TaskTaken
  <2> QED
    BY <2>5, <2>6, <2>7 DEF PlaceInv
<1>4. CASE AddPush(c)
  <2>1. /\ UNCHANGED <<task, made, finished>> /\ list' = Append(list, task[c])
        /\ pc[c] = "push" /\ pc'[c] = "unlock" /\ c \in Adders
        /\ \A d \in Callers \ {c} : pc'[d] = pc[d]
    BY <1>4 DEF AddPush, PoolInv, PoolShapes, Adders
  <2>2. task[c] \in Tasks /\ task[c] \in Adding
    BY <2>1, PoolFacts
  <2>3. task[c] \notin Queued \cup Running \cup finished
    BY <2>2 DEF PlaceInv, InOnePlace
  <2>4. Queued' = Queued \cup {task[c]} /\ NoRepeat(list')
    <3>1. /\ Entries(Append(list, task[c])) = Entries(list) \cup {task[c]}
          /\ NoRepeat(Append(list, task[c]))
      BY <2>2, <2>3, PoolFacts, PushEntries
    <3> QED
      BY <2>1, <3>1 DEF Queued, Entries
  <2>5. Adders' = Adders \ {c} /\ \A d \in Adders : task[d] = task[c] => d = c
    BY <2>1 DEF Adders, PlaceInv, OwnTask
  <2>6. Adding' = Adding \ {task[c]}
    BY <2>1, <2>5 DEF Adding, Adders
  <2>7. InOnePlace(D)'
    BY <1>2, <2>1, <2>2, <2>3, <2>4, <2>6 DEF PlaceInv, InOnePlace, NoRepeat
  <2> QED
    BY <1>1, <2>1, <2>5, <2>7 DEF PlaceInv, TaskTaken, OwnTask
<1>5. CASE AddLock(c) \/ AddUnlock(c) \/ AddSignal(c)
  <2>1. /\ UNCHANGED <<list, made, finished>>
        /\ \A d \in Callers : pc'[d] \in {"lock", "push"} <=> pc[d] \in {"lock", "push"}
        /\ \A d \in Adders : task'[d] = task[d]
    BY <1>5 DEF AddLock, AddUnlock, AddSignal, PoolInv, PoolShapes, Adders
  <2> QED
    BY <1>1, <2>1, PlaceStill
<1> QED
  BY <1>3, <1>4, <1>5 DEF AddStep

LEMMA PlaceThread ==
  ASSUME NEW D, PoolInv, PlaceInv(D), NEW t \in Threads,
         RunStep(t) \/ RunSpurious(t) \/ TaskReturns(t),
         pc[t] = "pop" => list # <<>>
  PROVE  PlaceInv(D)'
<1> USE PoolAssumption DEF PoolAssumption, Goto
<1>1. \A c \in Callers : pc'[c] = pc[c] /\ task'[c] = task[c]
  BY DEF RunStep, Spawn, RunLock, RunWait, RunWake, RunLeaveWhile, RunPop, RunUnlock,
         RunSpurious, TaskReturns, PoolInv, PoolShapes
<1>2. Adders' = Adders /\ Adding' = Adding
  <2>1. Adders' = Adders
    BY <1>1 DEF Adders
  <2> QED
    BY <1>1, <2>1 DEF Adding, Adders
<1>3. OwnTask'
  BY <1>1, <1>2 DEF PlaceInv, OwnTask, Adders
<1>4. \A u \in Threads \ {t} : pc'[u] = pc[u] /\ task'[u] = task[u]
  BY DEF RunStep, Spawn, RunLock, RunWait, RunWake, RunLeaveWhile, RunPop, RunUnlock,
         RunSpurious, TaskReturns, PoolInv, PoolShapes
<1>5. CASE RunPop(t)
  <2> DEFINE m == Head(list)
  <2>1. list # <<>> /\ pc[t] = "pop"
    BY <1>5 DEF RunPop
  <2>2. /\ list' = Tail(list) /\ UNCHANGED <<made, finished>>
        /\ task[t] = NULL /\ pc'[t] = "unlock" /\ task'[t] = m
    BY <1>5, <2>1 DEF RunPop, PoolInv, PoolShapes, PlaceInv, TaskTaken, Busy
  <2>3. /\ m \in Tasks /\ m \in Queued /\ Queued = Queued' \cup {m} /\ m \notin Queued'
        /\ NoRepeat(list')
    <3>1. /\ m \in Tasks /\ m \in Entries(list) /\ m \notin Entries(Tail(list))
          /\ Entries(list) = Entries(Tail(list)) \cup {m} /\ NoRepeat(Tail(list))
      BY <2>1, PoolFacts, PopEntries
    <3> QED
      BY <2>2, <3>1 DEF Queued, Entries
  <2> HIDE DEF m
  <2>4. m # NULL /\ m \notin Running \cup Adding \cup finished
    BY <2>3 DEF PlaceInv, InOnePlace, Tasks, NULL
  <2>5. Running' = Running \cup {m}
    BY <1>4, <2>2, <2>4 DEF Running
  <2>6. \A u \in Threads : task[u] # m
    BY <2>4 DEF Running
  <2>7. \A u, v \in Threads : task'[u] = task'[v] /\ task'[u] # NULL => u = v
    BY <1>4, <2>2, <2>6 DEF PlaceInv, InOnePlace
  <2>8. InOnePlace(D)'
    BY <1>2, <2>2, <2>3, <2>4, <2>5, <2>7 DEF PlaceInv, InOnePlace, NoRepeat
  <2>9. TaskTaken'
    BY <1>4, <2>2, <2>4 DEF PlaceInv, TaskTaken, Busy
  <2> QED
    BY <1>3, <2>8, <2>9 DEF PlaceInv
<1>6. CASE TaskReturns(t)
  <2>1. /\ UNCHANGED <<list, made>> /\ finished' = finished \cup {task[t]}
        /\ pc[t] = "run" /\ pc'[t] = "lock" /\ task'[t] = NULL
    BY <1>6 DEF TaskReturns, PoolInv, PoolShapes
  <2>2. task[t] # NULL /\ task[t] \in Running
    BY <2>1 DEF PlaceInv, TaskTaken, Busy, Running
  <2>3. \A u \in Threads : task[u] = task[t] => u = t
    BY <2>2 DEF PlaceInv, InOnePlace
  <2>4. Running' = Running \ {task[t]} /\ Queued' = Queued
    BY <1>4, <2>1, <2>3 DEF Running, Queued
  <2>5. InOnePlace(D)'
    <3>1. \A u, v \in Threads : task'[u] = task'[v] /\ task'[u] # NULL => u = v
      BY <1>4, <2>1 DEF PlaceInv, InOnePlace
    <3> QED
      BY <1>2, <2>1, <2>2, <2>4, <3>1 DEF PlaceInv, InOnePlace
  <2>6. TaskTaken'
    BY <1>4, <2>1 DEF PlaceInv, TaskTaken, Busy
  <2> QED
    BY <1>3, <2>5, <2>6 DEF PlaceInv
<1>7. CASE RunUnlock(t)
  <2>1. /\ UNCHANGED <<list, task, made, finished>> /\ pc[t] \in Busy /\ pc'[t] \in Busy
    BY <1>7 DEF RunUnlock, AfterUnlock, PoolInv, PoolShapes, NoThreadExits, TaskHeld, Busy
  <2>2. \A u \in Threads : task'[u] = task[u] /\ (pc'[u] \in Busy <=> pc[u] \in Busy)
    BY <1>4, <2>1
  <2> QED
    BY <1>1, <2>1, <2>2, PlaceStill DEF Adders
<1>8. CASE Spawn(t) \/ RunLock(t) \/ RunWait(t) \/ RunWake(t) \/ RunLeaveWhile(t) \/ RunSpurious(t)
  <2>1. /\ UNCHANGED <<list, task, made, finished>>
        /\ \A u \in Threads : pc'[u] \in Busy <=> pc[u] \in Busy
    BY <1>8 DEF Spawn, RunLock, RunWait, RunWake, RunLeaveWhile, RunSpurious, PoolInv,
                PoolShapes, Busy
  <2> QED
    BY <1>1, <2>1, PlaceStill
<1> QED
  BY <1>5, <1>6, <1>7, <1>8 DEF RunStep

LEMMA PlaceNext == IInv /\ PlaceInv({}) /\ [Next]_vars => PlaceInv({})'
<1> SUFFICES ASSUME IInv, PlaceInv({}), [Next]_vars
             PROVE  PlaceInv({})'
  OBVIOUS
<1>1. CASE UNCHANGED vars
  BY <1>1, PlaceStill DEF vars
<1>2. PoolInv /\ PopFinds
  BY DEF IInv
<1> QED
  BY <1>1, <1>2, PlaceCaller, PlaceThread DEF Next, PopFinds

LEMMA PlaceAlways == Spec => [](IInv /\ PlaceInv({}))
  BY PoolInit, PoolNext, PlaceInit, PlaceNext, PTL DEF Spec

\* Any number of threads and callers, tasks in any number: a task that was
\* added is in one place, and run by one thread.
THEOREM TasksInOnePlace == Spec => []OnePlace
<1>1. PlaceInv({}) => OnePlace
  BY DEF PlaceInv, InOnePlace, OnePlace, NoRepeat
<1> QED
  BY <1>1, PlaceAlways, PTL

-----------------------------------------------------------------------------
(* Wakeups.                                                                *)

\* Only a thread inside pthread_cond_wait is on the condition variable.
SleepersSleep == \A t \in m_cond : t \in Threads /\ pc[t] = "asleep"

WakeInv == NoLostWakeup /\ SleepersSleep

LEMMA WakeSets ==
  /\ IsFiniteSet(Seekers) /\ IsFiniteSet(Signallers)
  /\ IsFiniteSet(Seekers') /\ IsFiniteSet(Signallers')
  /\ Cardinality(Seekers) \in Nat /\ Cardinality(Signallers) \in Nat
  /\ Cardinality(Seekers') \in Nat /\ Cardinality(Signallers') \in Nat
<1>1. /\ Seekers \subseteq Threads /\ Seekers' \subseteq Threads
      /\ Signallers \subseteq Callers /\ Signallers' \subseteq Callers
  BY DEF Seekers, Signallers
<1>2. /\ IsFiniteSet(Seekers) /\ IsFiniteSet(Signallers)
      /\ IsFiniteSet(Seekers') /\ IsFiniteSet(Signallers')
  BY <1>1, FS_Subset, PoolAssumption DEF PoolAssumption
<1> QED
  BY <1>2, FS_CardinalityType

LEMMA WakeInit == Init => WakeInv
  BY DEF Init, locker_init, WakeInv, NoLostWakeup, SleepersSleep

\* While a thread sleeps a step may only add a task with a signal to come, end
\* a signaller when it wakes a thread, or end a seeker with a task.
LEMMA WakeNext ==
  ASSUME IInv, WakeInv, [Next]_vars
  PROVE  WakeInv'
<1> DEFINE K == Cardinality(Seekers)
           G == Cardinality(Signallers)
           L == Len(list)
<1>1. K \in Nat /\ G \in Nat /\ K' \in Nat /\ G' \in Nat /\ L \in Nat
  BY WakeSets DEF IInv, PoolInv, PoolShapes
<1>2. m_cond # {} => L <= K + G
  BY DEF WakeInv, NoLostWakeup
<1>3. ASSUME NEW t \in Threads, t \notin Seekers, Seekers' = Seekers \cup {t}
      PROVE  K' = K + 1
  BY <1>3, WakeSets, CardinalityStep
<1>4. ASSUME NEW t \in Threads, t \in Seekers, Seekers' = Seekers \ {t}
      PROVE  K' = K - 1
  BY <1>4, WakeSets, CardinalityStep
<1>5. ASSUME NEW c \in Callers, c \notin Signallers, Signallers' = Signallers \cup {c}
      PROVE  G' = G + 1
  BY <1>5, WakeSets, CardinalityStep
<1>6. ASSUME NEW c \in Callers, c \in Signallers, Signallers' = Signallers \ {c}
      PROVE  G' = G - 1
  BY <1>6, WakeSets, CardinalityStep
<1>7. Seekers' = Seekers => K' = K
  OBVIOUS
<1>8. Signallers' = Signallers => G' = G
  OBVIOUS
<1>9. SUFFICES SleepersSleep' /\ (m_cond' # {} => L' <= K' + G')
  BY DEF WakeInv, NoLostWakeup
<1> HIDE DEF K, G
<1> USE PoolAssumption DEF PoolAssumption, Goto
<1>10. ASSUME NEW c \in Callers, AddMake(c) \/ AddStep(c)
       PROVE  SleepersSleep' /\ (m_cond' # {} => L' <= K' + G')
  <2>1. \A t \in Threads : pc'[t] = pc[t]
    BY <1>10 DEF AddMake, AddStep, AddLock, AddPush, AddUnlock, AddSignal, IInv, PoolInv,
                 PoolShapes
  <2>2. CASE AddMake(c) \/ AddLock(c)
    <3>1. UNCHANGED <<m_cond, list>> /\ Seekers' = Seekers /\ Signallers' = Signallers
      BY <2>1, <2>2 DEF AddMake, AddLock, lockerVars, locker_lock, Seekers, Signallers, IInv,
                        PoolInv, PoolShapes
    <3> QED
      BY <1>2, <1>7, <1>8, <2>1, <3>1 DEF WakeInv, SleepersSleep
  <2>3. CASE AddPush(c)
    <3>1. /\ UNCHANGED m_cond /\ list' = Append(list, task[c]) /\ task[c] \in Tasks
          /\ pc[c] = "push" /\ pc'[c] = "unlock" /\ \A d \in Callers \ {c} : pc'[d] = pc[d]
      BY <2>3 DEF AddPush, lockerVars, IInv, PoolInv, PoolShapes, TaskHeld
    <3>2. L' = L + 1
      BY <3>1 DEF IInv, PoolInv, PoolShapes
    <3>3. Seekers' = Seekers /\ c \notin Signallers /\ Signallers' = Signallers \cup {c}
      BY <2>1, <3>1 DEF Seekers, Signallers
    <3> QED
      BY <1>1, <1>2, <1>5, <1>7, <2>1, <3>1, <3>2, <3>3 DEF WakeInv, SleepersSleep
  <2>4. CASE AddUnlock(c)
    <3>1. UNCHANGED <<m_cond, list>> /\ Seekers' = Seekers /\ Signallers' = Signallers
      BY <2>1, <2>4 DEF AddUnlock, locker_unlock, Seekers, Signallers, IInv, PoolInv, PoolShapes
    <3> QED
      BY <1>2, <1>7, <1>8, <2>1, <3>1 DEF WakeInv, SleepersSleep
  <2>5. CASE AddSignal(c)
    <3>1. /\ UNCHANGED list /\ pc[c] = "signal" /\ pc'[c] = "idle"
          /\ \A d \in Callers \ {c} : pc'[d] = pc[d]
      BY <2>5 DEF AddSignal, IInv, PoolInv, PoolShapes
    <3>2. c \in Signallers /\ Signallers' = Signallers \ {c}
      BY <3>1 DEF Signallers
    <3>3. CASE m_cond = {} /\ m_cond' = {}
      BY <3>3 DEF SleepersSleep
    <3>4. ASSUME NEW t \in m_cond, m_cond' = m_cond \ {t}
          PROVE  SleepersSleep' /\ L' <= K' + G'
      <4>1. t \in Threads /\ t \notin Seekers /\ Seekers' = Seekers \cup {t}
        BY <2>1, <3>4 DEF WakeInv, SleepersSleep, Seekers
      <4> QED
        BY <1>1, <1>2, <1>3, <1>6, <2>1, <3>1, <3>2, <3>4, <4>1 DEF WakeInv, SleepersSleep
    <3> QED
      BY <2>5, <3>3, <3>4 DEF AddSignal, locker_signal
  <2> QED
    BY <1>10, <2>2, <2>3, <2>4, <2>5 DEF AddStep
<1>11. ASSUME NEW t \in Threads, RunStep(t) \/ RunSpurious(t) \/ TaskReturns(t)
       PROVE  SleepersSleep' /\ (m_cond' # {} => L' <= K' + G')
  <2>1. Signallers' = Signallers /\ \A u \in Threads \ {t} : pc'[u] = pc[u]
    BY <1>11 DEF RunStep, Spawn, RunLock, RunWait, RunWake, RunLeaveWhile, RunPop,
       RunUnlock, RunSpurious, TaskReturns, IInv, PoolInv, PoolShapes, Signallers
  <2>2. CASE Spawn(t) \/ TaskReturns(t)
    <3>1. /\ UNCHANGED <<m_cond, list>> /\ pc'[t] = "lock" /\ pc[t] \in {"unborn", "run"}
      BY <2>2 DEF Spawn, TaskReturns, lockerVars, IInv, PoolInv, PoolShapes
    <3>2. t \notin Seekers /\ Seekers' = Seekers \cup {t}
      BY <2>1, <3>1 DEF Seekers
    <3> QED
      BY <1>1, <1>2, <1>3, <1>8, <2>1, <3>1, <3>2 DEF WakeInv, SleepersSleep
  <2>3. CASE RunLock(t) \/ RunWake(t) \/ RunLeaveWhile(t)
    <3>1. /\ UNCHANGED <<m_cond, list>> /\ t \notin m_cond
          /\ pc[t] \in {"lock", "check", "asleep"} /\ pc'[t] \in {"check", "pop"}
      BY <2>3 DEF RunLock, RunWake, RunLeaveWhile, lockerVars, locker_lock, IInv, PoolInv,
                  PoolShapes, WakeInv, SleepersSleep
    <3>2. Seekers' = Seekers
      BY <2>1, <3>1 DEF Seekers
    <3> QED
      BY <1>2, <1>7, <1>8, <2>1, <3>1, <3>2 DEF WakeInv, SleepersSleep
  <2>4. CASE RunWait(t)
    <3>1. /\ list = <<>> /\ UNCHANGED list /\ m_cond' = m_cond \cup {t} /\ pc'[t] = "asleep"
      BY <2>4 DEF RunWait, locker_condwait, IInv, PoolInv, PoolShapes
    <3>2. L' = 0
      BY <3>1
    <3>3. SleepersSleep'
      BY <2>1, <3>1 DEF WakeInv, SleepersSleep
    <3>4. L' <= K' + G'
      <4>1. 0 <= K' + G'
        BY <1>1, SumIsNatural
      <4> QED
        BY <3>2, <4>1
    <3> QED
      BY <3>3, <3>4
  <2>5. CASE RunSpurious(t)
    <3>1. UNCHANGED <<pc, list>> /\ t \in m_cond /\ m_cond' = m_cond \ {t}
      BY <2>5 DEF RunSpurious, SpuriousWakeup
    <3>2. t \notin Seekers /\ Seekers' = Seekers \cup {t}
      BY <3>1 DEF Seekers, WakeInv, SleepersSleep
    <3> QED
      BY <1>1, <1>2, <1>3, <1>8, <2>1, <3>1, <3>2 DEF WakeInv, SleepersSleep
  <2>6. CASE RunPop(t)
    <3>1. /\ UNCHANGED m_cond /\ list # <<>> /\ list' = Tail(list)
          /\ pc[t] = "pop" /\ pc'[t] = "unlock"
      BY <2>6 DEF RunPop, lockerVars, IInv, PoolInv, PoolShapes, PopFinds
    <3>2. L' = L - 1
      BY <3>1 DEF IInv, PoolInv, PoolShapes
    <3>3. t \in Seekers /\ Seekers' = Seekers \ {t}
      BY <2>1, <3>1 DEF Seekers
    <3> QED
      BY <1>1, <1>2, <1>4, <1>8, <2>1, <3>1, <3>2, <3>3 DEF WakeInv, SleepersSleep
  <2>7. CASE RunUnlock(t)
    <3>1. /\ UNCHANGED <<m_cond, list>> /\ pc[t] = "unlock" /\ pc'[t] = "run"
      BY <2>7 DEF RunUnlock, AfterUnlock, locker_unlock, IInv, PoolInv, PoolShapes,
                  NoThreadExits, TaskHeld
    <3>2. Seekers' = Seekers
      BY <2>1, <3>1 DEF Seekers
    <3> QED
      BY <1>2, <1>7, <1>8, <2>1, <3>1, <3>2 DEF WakeInv, SleepersSleep
  <2> QED
    BY <1>11, <2>2, <2>3, <2>4, <2>5, <2>6, <2>7 DEF RunStep
<1>12. CASE UNCHANGED vars
  <2>1. UNCHANGED <<m_cond, list, pc>> /\ Seekers' = Seekers /\ Signallers' = Signallers
    BY <1>12 DEF vars, lockerVars, Seekers, Signallers
  <2> QED
    BY <1>2, <1>7, <1>8, <2>1 DEF WakeInv, SleepersSleep
<1> QED
  BY <1>10, <1>11, <1>12 DEF Next

\* With any number of threads and callers no wakeup is lost: as long as a
\* thread sleeps there are no more tasks queued than threads on their way to
\* them and signals to come, although Threadpool_Addtask signals outside the
\* mutex and sleepers wake spuriously.
THEOREM WakeupsKept == Spec => []NoLostWakeup
<1>1. IInv /\ WakeInv /\ [Next]_vars => WakeInv'
  BY WakeNext
<1>2. WakeInv => NoLostWakeup
  BY DEF WakeInv
<1> QED
  BY <1>1, <1>2, WakeInit, PlaceAlways, PTL DEF Spec

-----------------------------------------------------------------------------
(* The refinement.                                                         *)

LEMMA AbstractInit == Init => WQ!Init
  BY PoolAssumption DEF PoolAssumption, Init, WQ!Init, Running, NULL

\* Adding a task is a Submit, popping it a Take, its return a Finish; the
\* rest does not show.
LEMMA AbstractNext ==
  ASSUME IInv, PlaceInv({}), [Next]_vars
  PROVE  [WQ!Next]_(WQ!wqVars)
<1> USE PoolAssumption DEF PoolAssumption, Goto
<1>1. ASSUME UNCHANGED <<list, finished>>, \A t \in Threads : task'[t] = task[t]
      PROVE  UNCHANGED WQ!wqVars
  BY <1>1 DEF WQ!wqVars, Running
<1>0. PoolInv
  BY DEF IInv
<1>2. ASSUME NEW c \in Callers, AddPush(c)
      PROVE  WQ!Next
  <2>1. /\ UNCHANGED <<task, finished>> /\ list' = Append(list, task[c]) /\ c \in Adders
    BY <1>2 DEF AddPush, Adders
  <2>2. task[c] \in Tasks /\ task[c] \in Adding
    BY <1>0, <2>1, PoolFacts
  <2>3. task[c] \notin Running \cup finished /\ \A k \in DOMAIN list : list[k] # task[c]
    BY <2>2 DEF PlaceInv, InOnePlace, Queued
  <2>4. WQ!Submit(task[c])
    BY <2>1, <2>3 DEF WQ!Submit, Running
  <2> QED
    BY <2>2, <2>4 DEF WQ!Next, WQ!Submit
<1>3. ASSUME NEW t \in Threads, RunPop(t)
      PROVE  WQ!Next
  <2>1. /\ list # <<>> /\ list' = Tail(list) /\ UNCHANGED finished /\ task[t] = NULL
        /\ task' = [task EXCEPT ![t] = Head(list)]
    BY <1>3 DEF RunPop, IInv, PopFinds, PlaceInv, TaskTaken, Busy
  <2>2. Head(list) \in Tasks /\ Head(list) # NULL
    BY <2>1 DEF IInv, PoolInv, PoolShapes, Tasks, NULL
  <2>3. \A u \in Threads : task'[u] = IF u = t THEN Head(list) ELSE task[u]
    BY <2>1 DEF IInv, PoolInv, PoolShapes
  <2>4. Running' = Running \cup {Head(list)}
    BY <2>1, <2>2, <2>3 DEF Running
  <2>5. WQ!Take
    BY <2>1, <2>4 DEF WQ!Take
  <2> QED
    BY <2>5 DEF WQ!Next
<1>4. ASSUME NEW t \in Threads, TaskReturns(t)
      PROVE  WQ!Next
  <2>1. /\ UNCHANGED list /\ finished' = finished \cup {task[t]} /\ pc[t] = "run"
        /\ \A u \in Threads : task'[u] = IF u = t THEN NULL ELSE task[u]
    BY <1>4 DEF TaskReturns, IInv, PoolInv, PoolShapes
  <2>2. task[t] # NULL /\ task[t] \in Running /\ task[t] \in Tasks
    BY <1>0, <2>1, PoolFacts DEF PlaceInv, TaskTaken, Busy, Running
  <2>3. \A u \in Threads : task[u] = task[t] => u = t
    BY <2>2 DEF PlaceInv, InOnePlace
  <2>4. Running' = Running \ {task[t]}
    BY <2>1, <2>3 DEF Running
  <2>5. WQ!Finish(task[t])
    BY <2>1, <2>2, <2>4 DEF WQ!Finish
  <2> QED
    BY <2>2, <2>5 DEF WQ!Next, WQ!Finish
<1>5. ASSUME NEW c \in Callers,
             AddMake(c) \/ AddLock(c) \/ AddUnlock(c) \/ AddSignal(c)
      PROVE  UNCHANGED WQ!wqVars
  BY <1>1, <1>5 DEF AddMake, AddLock, AddUnlock, AddSignal, IInv, PoolInv, PoolShapes
<1>6. ASSUME NEW t \in Threads,
             \/ Spawn(t) \/ RunLock(t) \/ RunWait(t) \/ RunWake(t) \/ RunLeaveWhile(t)
             \/ RunUnlock(t) \/ RunSpurious(t)
      PROVE  UNCHANGED WQ!wqVars
  BY <1>1, <1>6 DEF Spawn, RunLock, RunWait, RunWake, RunLeaveWhile, RunUnlock, RunSpurious
<1>7. CASE UNCHANGED vars
  BY <1>1, <1>7 DEF vars
<1>8. ASSUME NEW c \in Callers, AddMake(c) \/ AddStep(c)
      PROVE  [WQ!Next]_(WQ!wqVars)
  BY <1>2, <1>5, <1>8 DEF AddStep
<1>9. ASSUME NEW t \in Threads, RunStep(t) \/ RunSpurious(t) \/ TaskReturns(t)
      PROVE  [WQ!Next]_(WQ!wqVars)
  BY <1>3, <1>4, <1>6, <1>9 DEF RunStep
<1> QED
  BY <1>7, <1>8, <1>9 DEF Next

\* The pool's queue is a work queue: tasks start in the order they were added,
\* each on one thread, once.
THEOREM RefinesWorkQueue == Spec => WQ!Spec
<1>1. IInv /\ PlaceInv({}) /\ [Next]_vars => [WQ!Next]_(WQ!wqVars)
  BY AbstractNext
<1> QED
  BY <1>1, AbstractInit, PlaceAlways, PTL DEF Spec, WQ!Spec
=============================================================================
