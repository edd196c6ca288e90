------------------------------- MODULE Locker -------------------------------
(***************************************************************************)
(* The lock object of lock.c: one struct tagLock holds a POSIX semaphore,  *)
(* a mutex and a condition variable, and every other part of the server    *)
(* goes through its eight function pointers.  The module has no behaviour  *)
(* of its own: a component that owns a lock EXTENDS it and takes one of    *)
(* these operations in each step that touches the lock.                    *)
(*                                                                         *)
(* The wrappers add only a NULL test to the pthread call, so each one is   *)
(* modelled by what the call does.  Their return values are ignored by     *)
(* every caller but Threadpool_Destroy.                                    *)
(***************************************************************************)
EXTENDS Naturals

CONSTANT NoThread      \* owner of a mutex nobody holds

VARIABLES
  m_mutex,             \* the thread inside the mutex, or NoThread
  m_cond,              \* the threads asleep on the condition variable
  m_sem                \* the value of the semaphore

lockerVars == <<m_mutex, m_cond, m_sem>>

\* sem_init(.., 0), pthread_mutex_init, pthread_cond_init
locker_init ==
  /\ m_mutex = NoThread
  /\ m_cond  = {}
  /\ m_sem   = 0

locker_lock(t) ==
  /\ m_mutex = NoThread
  /\ m_mutex' = t
  /\ UNCHANGED <<m_cond, m_sem>>

\* A default mutex does not check its owner: whoever unlocks frees it.
locker_unlock ==
  /\ m_mutex' = NoThread
  /\ UNCHANGED <<m_cond, m_sem>>

locker_semwait ==
  /\ m_sem > 0
  /\ m_sem' = m_sem - 1
  /\ UNCHANGED <<m_mutex, m_cond>>

locker_post ==
  /\ m_sem' = m_sem + 1
  /\ UNCHANGED <<m_mutex, m_cond>>

\* pthread_cond_wait, first half: release the mutex and fall asleep at once.
\* The second half, once the thread left m_cond, is locker_lock.
locker_condwait(t) ==
  /\ m_cond'  = m_cond \cup {t}
  /\ m_mutex' = NoThread
  /\ UNCHANGED m_sem

\* pthread_cond_signal: one sleeper wakes; with no sleeper the signal is lost.
locker_signal ==
  /\ \/ m_cond = {} /\ UNCHANGED m_cond
     \/ \E t \in m_cond : m_cond' = m_cond \ {t}
  /\ UNCHANGED <<m_mutex, m_sem>>

\* A sleeper may wake although nobody signalled (POSIX allows it).
SpuriousWakeup(t) ==
  /\ t \in m_cond
  /\ m_cond' = m_cond \ {t}
  /\ UNCHANGED <<m_mutex, m_sem>>

=============================================================================
