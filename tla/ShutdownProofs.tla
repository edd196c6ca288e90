---------------------------- MODULE ShutdownProofs ----------------------------
(***************************************************************************)
(* Proofs about Threadpool_Destroy, for any number of pool threads,        *)
(* callers and tasks.  They rest on the invariant of the pool: as long as  *)
(* no pool thread used what was freed the destroyer is one more thread     *)
(* that takes the mutex, and dropped one more place for a task.            *)
(***************************************************************************)
EXTENDS Shutdown, ThreadPoolProofs

\* The destroyer is inside the mutex exactly from DestroyLock to DestroyUnlock.
DestroyerOwns == dpc \in {"signal", "join"} <=> m_mutex = Destroyer

\* Nobody adds a task before the pool is complete, or once it is destroyed.
CallersOut ==
  /\ \A t \in Threads : pc[t] = "unborn" => \A c \in Callers : pc[c] = "idle"
  /\ dpc # "away" => \A c \in Callers : pc[c] = "idle"

\* Until the queue is cleared the pool is what it was.
NothingGone ==
  /\ gone # "none" => dpc \in {"free", "done"}
  /\ gone = "none" => dropped = {} /\ PopFinds

QuietInv == PoolInv /\ DestroyerOwns /\ CallersOut /\ NothingGone /\ PlaceInv(dropped)

EndInv == used \in BOOLEAN /\ (~ used => QuietInv)

LEMMA EndInit == ShutdownInit => EndInv
<1> SUFFICES ASSUME ShutdownInit
             PROVE  EndInv
  OBVIOUS
<1>1. Init /\ IInv /\ PlaceInv({})
  BY PoolInit, PlaceInit DEF ShutdownInit
<1>2. DestroyerOwns /\ CallersOut
  BY PoolAssumption, DestroyerAssumption
     DEF PoolAssumption, ShutdownInit, Init, locker_init, DestroyerOwns, CallersOut
<1> QED
  BY <1>1, <1>2 DEF ShutdownInit, EndInv, QuietInv, NothingGone, IInv

\* What a step of the pool leaves alone.
LEMMA ThreadLeaves ==
  ASSUME PoolInv, NEW t \in Threads, RunStep(t) \/ TaskReturns(t)
  PROVE  /\ \A c \in Callers : pc'[c] = pc[c]
         /\ \A u \in Threads : pc'[u] = "unborn" => pc[u] = "unborn"
         /\ m_mutex' = Destroyer <=> m_mutex = Destroyer
<1> USE PoolAssumption, DestroyerAssumption
    DEF PoolAssumption, Goto, PoolInv, PoolShapes, NoThreadExits
<1>1. \A c \in Callers : pc'[c] = pc[c]
  BY DEF RunStep, Spawn, RunLock, RunWait, RunWake, RunLeaveWhile, RunPop, RunUnlock,
         TaskReturns
<1>2. \A u \in Threads : pc'[u] = "unborn" => pc[u] = "unborn"
  BY DEF RunStep, Spawn, RunLock, RunWait, RunWake, RunLeaveWhile, RunPop, RunUnlock,
         AfterUnlock, TaskReturns
<1>3. m_mutex' = Destroyer <=> m_mutex = Destroyer
  BY DEF RunStep, Spawn, RunLock, RunWait, RunWake, RunLeaveWhile, RunPop, RunUnlock,
         TaskReturns, lockerVars, locker_lock, locker_unlock, locker_condwait
<1> QED
  BY <1>1, <1>2, <1>3

LEMMA CallerLeaves ==
  ASSUME PoolInv, NEW c \in Callers, AddMake(c) \/ AddStep(c)
  PROVE  /\ \A t \in Threads : pc'[t] = pc[t]
         /\ m_mutex' = Destroyer <=> m_mutex = Destroyer
         /\ AddStep(c) => pc[c] # "idle"
  BY PoolAssumption, DestroyerAssumption
     DEF PoolAssumption, Goto, PoolInv, PoolShapes, NoThreadExits, AddMake, AddStep, AddLock,
         AddPush, AddUnlock, AddSignal, lockerVars, locker_lock, locker_unlock, locker_signal

\* A pool thread, as long as it uses nothing that was freed.
LEMMA EndThread ==
  ASSUME QuietInv, NEW t \in Threads, RunStep(t) \/ TaskReturns(t),
         UNCHANGED <<dpc, gone, dropped>>, pc[t] = "pop" => list # <<>>
  PROVE  QuietInv'
<1>1. PoolInv' /\ (PopFinds => PopFinds')
  BY ThreadKeeps DEF QuietInv
<1>2. PICK D : D = dropped
  OBVIOUS
<1>3. PlaceInv(D)'
  BY <1>2, PlaceThread DEF QuietInv
<1>4. PlaceInv(dropped)'
  BY <1>2, <1>3 DEF PlaceInv, InOnePlace
<1>5. DestroyerOwns' /\ CallersOut' /\ NothingGone'
  <2>1. /\ \A c \in Callers : pc'[c] = pc[c]
        /\ \A u \in Threads : pc'[u] = "unborn" => pc[u] = "unborn"
        /\ m_mutex' = Destroyer <=> m_mutex = Destroyer
    BY ThreadLeaves DEF QuietInv
  <2> QED
    BY <1>1, <2>1 DEF QuietInv, DestroyerOwns, CallersOut, NothingGone
<1> QED
  BY <1>1, <1>4, <1>5 DEF QuietInv

LEMMA EndCaller ==
  ASSUME QuietInv, NEW c \in Callers, Adds(c)
  PROVE  QuietInv'
<1>1. UNCHANGED <<dpc, gone, dropped>> /\ (AddMake(c) \/ AddStep(c))
  BY DEF Adds, endVars
<1>2. PoolInv' /\ (PopFinds => PopFinds')
  BY <1>1, CallerKeeps DEF QuietInv
<1>3. PICK D : D = dropped
  OBVIOUS
<1>4. PlaceInv(D)'
  BY <1>1, <1>3, PlaceCaller DEF QuietInv
<1>5. PlaceInv(dropped)'
  BY <1>1, <1>3, <1>4 DEF PlaceInv, InOnePlace
<1>6. /\ \A t \in Threads : pc'[t] = pc[t]
      /\ m_mutex' = Destroyer <=> m_mutex = Destroyer
      /\ AddStep(c) => pc[c] # "idle"
  BY <1>1, CallerLeaves DEF QuietInv
<1>7. CallersOut'
  <2>1. dpc = "away" /\ \A t \in Threads : pc[t] # "unborn"
    BY <1>6 DEF Adds, AddMake, QuietInv, CallersOut
  <2> QED
    BY <1>1, <1>6, <2>1 DEF CallersOut
<1> QED
  BY <1>1, <1>2, <1>5, <1>6, <1>7 DEF QuietInv, DestroyerOwns, NothingGone

\* Steps that move no thread and no task: at most the owner of the mutex is
\* another one, outside the pool, and sleepers wake.
LEMMA EndStill ==
  ASSUME QuietInv, UNCHANGED <<m_sem, list, pc, task, made, finished, dropped>>,
         m_cond' \subseteq m_cond,
         \A u \in Threads \cup Callers : m_mutex' = u <=> m_mutex = u
  PROVE  /\ PoolInv' /\ (PopFinds => PopFinds') /\ PlaceInv(dropped)'
         /\ (dpc' # "away" => dpc # "away") => CallersOut'
<1>1. PoolShapes' /\ TaskHeld' /\ (PopFinds => PopFinds')
  BY DEF QuietInv, PoolInv, PoolShapes, TaskHeld, PopFinds
<1>2. NoThreadExits'
  BY DEF QuietInv, PoolInv, NoThreadExits
<1>3. Queued' = Queued /\ Running' = Running /\ Adding' = Adding /\ Adders' = Adders
  BY DEF Queued, Running, Adding, Adders
<1>4. PlaceInv(dropped)'
  BY <1>3 DEF QuietInv, PlaceInv, InOnePlace, TaskTaken, OwnTask, NoRepeat
<1>5. (dpc' # "away" => dpc # "away") => CallersOut'
  BY DEF QuietInv, CallersOut
<1> QED
  BY <1>1, <1>2, <1>4, <1>5 DEF PoolInv

\* The destroyer's own steps.
LEMMA EndDestroyer ==
  ASSUME QuietInv,
         \/ Threadpool_Destroy \/ CreateFails \/ DestroyStep \/ FreeLocker \/ FreePool
  PROVE  QuietInv'
<1> USE PoolAssumption, DestroyerAssumption DEF PoolAssumption, DGoto
<1>1. CASE Threadpool_Destroy \/ CreateFails
  <2>1. /\ UNCHANGED <<m_mutex, m_cond, m_sem, list, pc, task, made, finished, dropped, gone>>
        /\ dpc = "away" /\ dpc' = "lock"
    BY <1>1 DEF Threadpool_Destroy, CreateFails, vars, lockerVars
  <2>2. \A c \in Callers : pc[c] = "idle"
    BY <1>1 DEF Threadpool_Destroy, CreateFails, Spawned, QuietInv, CallersOut
  <2> QED
    BY EndStill, <2>1, <2>2 DEF QuietInv, DestroyerOwns, CallersOut, NothingGone
<1>2. CASE DestroyLock
  <2>1. /\ UNCHANGED <<m_cond, m_sem, list, pc, task, made, finished, dropped, gone>>
        /\ dpc = "lock" /\ dpc' = "signal" /\ m_mutex = NoThread /\ m_mutex' = Destroyer
    BY <1>2 DEF DestroyLock, locker_lock
  <2> QED
    BY EndStill, <2>1 DEF QuietInv, DestroyerOwns, NothingGone
<1>3. CASE DestroySignal
  <2>1. /\ UNCHANGED <<m_mutex, m_sem, list, pc, task, made, finished, dropped, gone>>
        /\ dpc = "signal" /\ dpc' = "join" /\ m_cond' \subseteq m_cond
    BY <1>3 DEF DestroySignal, locker_signal
  <2> QED
    BY EndStill, <2>1 DEF QuietInv, DestroyerOwns, NothingGone
<1>4. CASE Join \/ JoinGarbage
  <2>1. UNCHANGED <<m_mutex, m_cond, m_sem, list, pc, task, made, finished, dropped, gone, dpc>>
    BY <1>4 DEF Join, JoinGarbage, vars, lockerVars
  <2> QED
    BY EndStill, <2>1 DEF QuietInv, DestroyerOwns, NothingGone
<1>5. CASE DestroyUnlock
  <2>1. /\ UNCHANGED <<m_cond, m_sem, list, pc, task, made, finished, dropped, gone>>
        /\ dpc = "join" /\ dpc' = "free" /\ m_mutex = Destroyer /\ m_mutex' = NoThread
    BY <1>5 DEF DestroyUnlock, locker_unlock, QuietInv, DestroyerOwns
  <2> QED
    BY EndStill, <2>1 DEF QuietInv, DestroyerOwns, NothingGone
<1>6. CASE FreeQueue
  <2>1. /\ UNCHANGED <<m_mutex, m_cond, m_sem, pc, task, made, finished, dpc>>
        /\ dpc = "free" /\ gone = "none" /\ gone' = "queue" /\ list' = <<>>
        /\ dropped' = Queued /\ dropped = {}
    BY <1>6 DEF FreeQueue, lockerVars, QuietInv, NothingGone
  <2>2. PoolInv' /\ DestroyerOwns' /\ CallersOut' /\ NothingGone'
    BY <2>1 DEF QuietInv, PoolInv, PoolShapes, NoThreadExits, TaskHeld, DestroyerOwns,
                CallersOut, NothingGone
  <2>3. Queued' = {} /\ Running' = Running /\ Adding' = Adding /\ Adders' = Adders
    BY <2>1 DEF Queued, Running, Adding, Adders
  <2>4. InOnePlace(dropped)'
    BY <2>1, <2>3 DEF QuietInv, PlaceInv, InOnePlace, NoRepeat
  <2>5. PlaceInv(dropped)'
    BY <2>1, <2>3, <2>4 DEF QuietInv, PlaceInv, TaskTaken, OwnTask
  <2> QED
    BY <2>2, <2>5 DEF QuietInv
<1>7. CASE FreeLocker \/ FreePool
  <2>1. /\ UNCHANGED <<m_mutex, m_cond, m_sem, list, pc, task, made, finished, dropped>>
        /\ gone \in {"queue", "locker"} /\ gone' \in {"locker", "pool"}
        /\ dpc' = dpc \/ (dpc = "free" /\ dpc' = "done")
    BY <1>7 DEF FreeLocker, FreePool, vars, lockerVars
  <2> QED
    BY EndStill, <2>1 DEF QuietInv, DestroyerOwns, NothingGone
<1> QED
  BY <1>1, <1>2, <1>3, <1>4, <1>5, <1>6, <1>7 DEF DestroyStep

LEMMA EndNext == EndInv /\ [ShutdownNext]_shutdownVars => EndInv'
<1> SUFFICES ASSUME EndInv, [ShutdownNext]_shutdownVars
             PROVE  EndInv'
  OBVIOUS
<1>1. CASE UNCHANGED shutdownVars
  <2>1. UNCHANGED <<m_mutex, m_cond, m_sem, list, pc, task, made, finished>>
    BY <1>1 DEF shutdownVars, vars, lockerVars
  <2>2. UNCHANGED <<dpc, gone, dropped, used>>
    BY <1>1 DEF shutdownVars, endVars
  <2> QED
    BY <2>1, <2>2, EndStill DEF EndInv, QuietInv, DestroyerOwns, NothingGone
<1>2. ASSUME NEW t \in Threads, PoolStep(t) \/ PoolOther(t) \/ PoolCrash(t)
      PROVE  EndInv'
  <2>1. CASE PoolStep(t)
    <3>1. used' = (used \/ Touches(t)) /\ RunStep(t) /\ UNCHANGED <<dpc, gone, dropped>>
      BY <2>1 DEF PoolStep
    <3>2. used' \in BOOLEAN
      BY <3>1 DEF EndInv
    <3>3. ASSUME ~ used'
          PROVE  QuietInv'
      <4>1. ~ used /\ ~ Touches(t)
        BY <3>1, <3>3 DEF EndInv
      <4>2. pc[t] = "pop" => list # <<>>
        BY <4>1 DEF Touches, EndInv, QuietInv, NothingGone, PopFinds
      <4> QED
        BY <3>1, <4>1, <4>2, EndThread DEF EndInv
    <3> QED
      BY <3>2, <3>3 DEF EndInv
  <2>2. CASE PoolOther(t)
    <3>1. UNCHANGED <<dpc, gone, dropped, used>>
      BY <2>2 DEF PoolOther, endVars
    <3>2. CASE TaskReturns(t)
      <4>1. pc[t] # "pop"
        BY <3>2 DEF TaskReturns, Goto
      <4> QED
        BY <3>1, <3>2, <4>1, EndThread DEF EndInv
    <3>3. CASE RunSpurious(t)
      <4>1. UNCHANGED <<m_mutex, m_sem, list, pc, task, made, finished>> /\ m_cond' \subseteq m_cond
        BY <3>3 DEF RunSpurious, SpuriousWakeup
      <4> QED
        BY <3>1, <4>1, EndStill DEF EndInv, QuietInv, DestroyerOwns, NothingGone
    <3> QED
      BY <2>2, <3>2, <3>3 DEF PoolOther
  <2>3. CASE PoolCrash(t)
    BY <2>3 DEF PoolCrash, EndInv
  <2> QED
    BY <1>2, <2>1, <2>2, <2>3
<1>3. ASSUME NEW c \in Callers, Adds(c)
      PROVE  EndInv'
  <2>1. used' = used
    BY <1>3 DEF Adds, endVars
  <2> QED
    BY <1>3, <2>1, EndCaller DEF EndInv
<1>4. ASSUME \/ Threadpool_Destroy \/ CreateFails \/ DestroyStep \/ FreeLocker \/ FreePool
      PROVE  EndInv'
  <2>1. used' = used
    BY <1>4 DEF Threadpool_Destroy, CreateFails, DestroyStep, DestroyLock, DestroySignal, Join,
                JoinGarbage, DestroyUnlock, FreeQueue, FreeLocker, FreePool
  <2> QED
    BY <1>4, <2>1, EndDestroyer DEF EndInv
<1> QED
  BY <1>1, <1>2, <1>3, <1>4 DEF ShutdownNext

LEMMA EndAlways == ShutdownSpec => []EndInv
  BY EndInit, EndNext, PTL DEF ShutdownSpec

\* However many threads the pool has, and wherever they are when it is
\* destroyed: until one of them uses what was freed the destroyer is alone
\* inside the mutex, and no thread gets a NULL task or ends.
THEOREM DestroyerAlone == ShutdownSpec => []DestroyExclusive
<1>1. EndInv => DestroyExclusive
  BY DEF EndInv, QuietInv, PoolInv, NoThreadExits, DestroyerOwns, DestroyExclusive
<1> QED
  BY <1>1, EndAlways, PTL

\* Until then no task is lost or run twice, the dropped ones aside.
THEOREM NoTaskLostInDestroy == ShutdownSpec => []TasksKept
<1>1. EndInv => TasksKept
  BY DEF EndInv, QuietInv, PlaceInv, InOnePlace, TasksKept
<1> QED
  BY <1>1, EndAlways, PTL
=============================================================================
