--------------------------- MODULE RecvQueueProofs ---------------------------
(***************************************************************************)
(* Proofs about the receive queue, for any number of data threads, any     *)
(* number of messages, of interrupted sem_waits and of failed mallocs.     *)
(***************************************************************************)
EXTENDS RecvQueue, QueueLemmas

\* The local variable item is non-NULL exactly between the pop and the free.
ItemHeld ==
  \A w \in Workers :
    item[w] # NULL <=> pc[w] \in {"count", "unlock", "procread", "free"}

\* The epoll thread only leaves its wait with a message in hand.
RankHeld == pc[Loop] # "wait" => nrecv > 0

TypeInv == TypeOK /\ ItemHeld /\ RankHeld

\* Type correctness: TypeOK needs the two facts on who holds a message, or a
\* step could push or free NULL.
THEOREM TypeCorrect == Spec => []TypeInv
<1> USE RecvAssumption DEF RecvAssumption, NULL, Items, LoopLabels, WorkerLabels
<1>1. Init => TypeInv
  BY DEF Init, locker_init, TypeInv, TypeOK, ItemHeld, RankHeld
<1>2. TypeInv /\ [Next]_vars => TypeInv'
  <2> SUFFICES ASSUME TypeInv, [Next]_vars
               PROVE  TypeInv'
    OBVIOUS
  <2> USE DEF TypeInv, TypeOK, ItemHeld, RankHeld, Goto, lockerVars, faults
  <2>1. CASE RecvItem
    BY <2>1 DEF RecvItem
  <2>2. CASE RecvNoMemory
    BY <2>2 DEF RecvNoMemory
  <2>3. CASE LoopStep
    <3>1. CASE PushLock
      BY <3>1 DEF PushLock, locker_lock
    <3>2. CASE PushLink
      BY <3>2 DEF PushLink
    <3>3. CASE PushCount
      BY <3>3 DEF PushCount
    <3>4. CASE PushUnlock
      BY <3>4 DEF PushUnlock, locker_unlock
    <3>5. CASE PushPost
      BY <3>5 DEF PushPost, locker_post
    <3> QED
      BY <2>3, <3>1, <3>2, <3>3, <3>4, <3>5 DEF LoopStep
  <2>4. ASSUME NEW w \in Workers, WorkerStep(w)
        PROVE  TypeInv'
    <3>1. CASE SemWait(w)
      <4>1. m_sem' \in Nat
        BY <3>1 DEF SemWait, locker_semwait
      <4> QED
        BY <3>1, <4>1 DEF SemWait, locker_semwait
    <3>2. CASE SizePositive(w)
      BY <3>2 DEF SizePositive
    <3>3. CASE SizeZero(w)
      BY <3>3 DEF SizeZero
    <3>4. CASE PopLock(w)
      BY <3>4 DEF PopLock, locker_lock
    <3>5. CASE PopUnlink(w)
      BY <3>5 DEF PopUnlink
    <3>6. CASE PopCount(w)
      BY <3>6 DEF PopCount
    <3>7. CASE PopUnlock(w)
      BY <3>7 DEF PopUnlock, locker_unlock
    <3>8. CASE PopNull(w)
      BY <3>8 DEF PopNull
    <3>9. CASE ReturnNull(w)
      BY <3>9 DEF ReturnNull, locker_unlock
    <3>10. CASE ProcRead(w)
      BY <3>10 DEF ProcRead
    <3>11. CASE FreeItem(w)
      BY <3>11 DEF FreeItem
    <3> QED
      BY <2>4, <3>1, <3>2, <3>3, <3>4, <3>5, <3>6, <3>7, <3>8, <3>9, <3>10, <3>11
         DEF WorkerStep
  <2>5. ASSUME NEW w \in Workers, SemInterrupted(w)
        PROVE  TypeInv'
    <3>1. intr' \in 0..MaxIntr
      BY <2>5 DEF SemInterrupted
    <3> QED
      BY <2>5, <3>1 DEF SemInterrupted
  <2>6. CASE UNCHANGED vars
    BY <2>6 DEF vars
  <2>7. CASE PushNoNode
    <3>1. missed' \in 0..MaxMissed
      BY <2>7 DEF PushNoNode
    <3> QED
      BY <2>7, <3>1 DEF PushNoNode
  <2> QED
    BY <2>1, <2>2, <2>3, <2>4, <2>5, <2>6, <2>7 DEF Next
<1> QED
  BY <1>1, <1>2, PTL DEF Spec

-----------------------------------------------------------------------------
(* The lock.                                                               *)

\* The list is only touched by the owner of the lock, and the counter lags
\* the links only while somebody owns it.
LEMMA LockInit == Init => LockGuardsList
  BY RecvAssumption
     DEF RecvAssumption, Init, locker_init, LockGuardsList, InsideOwns,
         CounterLags, InList

LEMMA LockNext == TypeInv /\ LockGuardsList /\ [Next]_vars => LockGuardsList'
<1> SUFFICES ASSUME TypeInv, LockGuardsList, [Next]_vars
             PROVE  LockGuardsList'
  OBVIOUS
<1> USE RecvAssumption
    DEF RecvAssumption, TypeInv, TypeOK, LockGuardsList, InList, Goto, lockerVars,
        faults, LoopLabels, WorkerLabels
<1>1. InsideOwns'
  <2> USE DEF InsideOwns
  <2>1. CASE RecvItem \/ RecvNoMemory \/ UNCHANGED vars
    BY <2>1 DEF RecvItem, RecvNoMemory, vars
  <2>4. CASE PushNoNode
    BY <2>4 DEF PushNoNode
  <2>2. CASE LoopStep
    <3>1. CASE PushLock
      BY <3>1 DEF PushLock, locker_lock
    <3>2. CASE PushLink \/ PushCount
      BY <3>2 DEF PushLink, PushCount
    <3>3. CASE PushUnlock \/ PushPost
      BY <3>3 DEF PushUnlock, PushPost, locker_unlock, locker_post
    <3> QED
      BY <2>2, <3>1, <3>2, <3>3 DEF LoopStep
  <2>3. ASSUME NEW w \in Workers, WorkerStep(w) \/ SemInterrupted(w)
        PROVE  InsideOwns'
    <3>1. CASE SemWait(w) \/ SizePositive(w) \/ SizeZero(w) \/ SemInterrupted(w)
      BY <3>1 DEF SemWait, SizePositive, SizeZero, SemInterrupted, locker_semwait
    <3>2. CASE PopLock(w)
      BY <3>2 DEF PopLock, locker_lock
    <3>3. CASE PopUnlink(w) \/ PopCount(w) \/ PopNull(w)
      BY <3>3 DEF PopUnlink, PopCount, PopNull
    <3>4. CASE PopUnlock(w) \/ ReturnNull(w)
      BY <3>4 DEF PopUnlock, ReturnNull, locker_unlock
    <3>5. CASE ProcRead(w) \/ FreeItem(w)
      BY <3>5 DEF ProcRead, FreeItem
    <3> QED
      BY <2>3, <3>1, <3>2, <3>3, <3>4, <3>5 DEF WorkerStep
  <2> QED
    BY <2>1, <2>2, <2>3, <2>4 DEF Next
<1>2. CounterLags'
  <2> USE DEF CounterLags
  <2>1. CASE RecvItem \/ RecvNoMemory \/ UNCHANGED vars
    BY <2>1 DEF RecvItem, RecvNoMemory, vars
  <2>4. CASE PushNoNode
    BY <2>4 DEF PushNoNode
  <2>2. CASE LoopStep
    <3>1. CASE PushLink
      <4>1. nrecv \in Items
        BY <3>1 DEF PushLink, RankHeld, Items
      <4>2. Len(list') = Len(list) + 1 /\ Len(list) \in Nat
        BY <3>1, <4>1 DEF PushLink
      <4>3. count' = count /\ missed' = missed /\ missed \in Nat
        BY <3>1 DEF PushLink
      <4>4. pc[Loop] = "link" /\ pc'[Loop] = "count"
        BY <3>1 DEF PushLink
      <4>5. (\E v \in Workers : pc'[v] = "count") <=> (\E v \in Workers : pc[v] = "count")
        BY <3>1 DEF PushLink
      <4> DEFINE inside == IF \E v \in Workers : pc[v] = "count" THEN 1 ELSE 0
      <4> DEFINE owed == IF pc[Loop] = "count" THEN 1 ELSE 0
      <4>6. inside' = inside /\ inside \in {0, 1}
        BY <4>5
      <4>7. owed = 0 /\ owed' = 1
        BY <4>4
      <4>8. CounterLags
        OBVIOUS
      <4> HIDE DEF TypeInv, TypeOK, LockGuardsList, InList
      <4>9. count = Len(list) + missed + inside - owed
        BY <4>8, Zenon DEF CounterLags
      <4>10. CounterLags' <=> count' = Len(list') + missed' + inside' - owed'
        BY Zenon DEF CounterLags
      <4> HIDE DEF inside, owed, CounterLags
      <4>11. count' = Len(list') + missed' + inside' - owed'
        BY <4>2, <4>3, <4>6, <4>7, <4>9
      <4> QED
        BY <4>10, <4>11
    <3>2. CASE PushCount
      <4>1. count' = count + 1 /\ list' = list /\ missed' = missed
        BY <3>2 DEF PushCount
      <4>2. pc[Loop] = "count" /\ pc'[Loop] # "count"
        BY <3>2 DEF PushCount
      <4>3. (\E v \in Workers : pc'[v] = "count") <=> (\E v \in Workers : pc[v] = "count")
        BY <3>2 DEF PushCount
      <4>4. Len(list) \in Nat /\ missed \in Nat
        OBVIOUS
      <4> DEFINE inside == IF \E v \in Workers : pc[v] = "count" THEN 1 ELSE 0
      <4> DEFINE owed == IF pc[Loop] = "count" THEN 1 ELSE 0
      <4>5. inside' = inside /\ inside \in {0, 1}
        BY <4>3
      <4>6. owed = 1 /\ owed' = 0
        BY <4>2
      <4>7. CounterLags
        OBVIOUS
      <4> HIDE DEF TypeInv, TypeOK, LockGuardsList, InList
      <4>8. count = Len(list) + missed + inside - owed
        BY <4>7, Zenon DEF CounterLags
      <4>9. CounterLags' <=> count' = Len(list') + missed' + inside' - owed'
        BY Zenon DEF CounterLags
      <4> HIDE DEF inside, owed, CounterLags
      <4>10. count' = Len(list') + missed' + inside' - owed'
        BY <4>1, <4>4, <4>5, <4>6, <4>8
      <4> QED
        BY <4>9, <4>10
    <3>3. CASE PushLock \/ PushUnlock \/ PushPost
      BY <3>3 DEF PushLock, PushUnlock, PushPost
    <3> QED
      BY <2>2, <3>1, <3>2, <3>3 DEF LoopStep
  <2>3. ASSUME NEW w \in Workers, WorkerStep(w) \/ SemInterrupted(w)
        PROVE  CounterLags'
    <3>1. CASE PopUnlink(w)
      <4>1. Len(list') = Len(list) - 1
        BY <3>1 DEF PopUnlink
      <4>2. ~ \E v \in Workers : pc[v] = "count"
        <5>1. m_mutex = w
          BY <3>1 DEF PopUnlink, InsideOwns
        <5> QED
          BY <3>1, <5>1 DEF PopUnlink, InsideOwns
      <4>3. pc'[w] = "count" /\ pc'[Loop] = pc[Loop] /\ count' = count
            /\ missed' = missed /\ missed \in Nat
        BY <3>1 DEF PopUnlink
      <4>4. Len(list) \in Nat /\ pc[Loop] # "count"
        BY <3>1 DEF PopUnlink, InsideOwns
      <4> QED
        BY <4>1, <4>2, <4>3, <4>4
    <3>2. CASE PopCount(w)
      <4>1. \A v \in Workers : pc[v] = "count" => v = w
        BY <3>2 DEF PopCount, InsideOwns
      <4>2. ~ \E v \in Workers : pc'[v] = "count"
        BY <3>2, <4>1 DEF PopCount
      <4> QED
        BY <3>2, <4>2 DEF PopCount
    <3>3. CASE \/ SemWait(w) \/ SizePositive(w) \/ SizeZero(w) \/ PopLock(w)
               \/ PopUnlock(w) \/ PopNull(w) \/ ReturnNull(w) \/ ProcRead(w)
               \/ FreeItem(w) \/ SemInterrupted(w)
      BY <3>3 DEF SemWait, SizePositive, SizeZero, PopLock, PopUnlock, PopNull,
                  ReturnNull, ProcRead, FreeItem, SemInterrupted
    <3> QED
      BY <2>3, <3>1, <3>2, <3>3 DEF WorkerStep
  <2> QED
    BY <2>1, <2>2, <2>3, <2>4 DEF Next
<1> QED
  BY <1>1, <1>2

\* Whatever the number of data threads, nobody walks or counts the list of
\* the receive queue without owning its lock, and every path gives it back.
THEOREM LockSafe == Spec => []LockGuardsList
<1>1. TypeInv /\ [Next]_vars /\ LockGuardsList => LockGuardsList'
  BY LockNext
<1> QED
  BY LockInit, <1>1, TypeCorrect, PTL DEF Spec

-----------------------------------------------------------------------------
(* Tokens.                                                                 *)

LEMMA ThreadSets ==
  /\ IsFiniteSet(Claimants) /\ IsFiniteSet(Returned)
  /\ IsFiniteSet(Claimants') /\ IsFiniteSet(Returned')
<1>1. /\ Claimants \subseteq Workers /\ Returned \subseteq Workers
      /\ Claimants' \subseteq Workers /\ Returned' \subseteq Workers
  BY DEF Claimants, Returned
<1> QED
  BY <1>1, FS_Subset, RecvAssumption DEF RecvAssumption

LEMMA TokenInit == Init => TokenBalance
<1> SUFFICES ASSUME Init
             PROVE  TokenBalance
  OBVIOUS
<1>1. Claimants = {} /\ Returned = {}
  BY RecvAssumption DEF RecvAssumption, Init, Claimants, Returned
<1>2. Unposted = 0 /\ m_sem = 0 /\ Len(list) = 0 /\ intr = 0 /\ missed = 0
  BY RecvAssumption DEF RecvAssumption, Init, locker_init, Unposted
<1>3. Cardinality({}) = 0
  BY FS_EmptySet
<1> QED
  BY <1>1, <1>2, <1>3 DEF TokenBalance, Tokens

\* What a step does to the five terms of the balance.  A step that moves no
\* worker into or out of the two sets leaves their sizes alone.
Still == Claimants' = Claimants /\ Returned' = Returned

LEMMA TokenNext ==
  TypeInv /\ TypeInv' /\ LockGuardsList /\ TokenBalance /\ [Next]_vars => TokenBalance'
<1> SUFFICES ASSUME TypeInv, TypeInv', LockGuardsList, TokenBalance, [Next]_vars
             PROVE  TokenBalance'
  OBVIOUS
<1> DEFINE C == Cardinality(Claimants)
           R == Cardinality(Returned)
<1>1. C \in Nat /\ R \in Nat
  BY ThreadSets, FS_CardinalityType
<1>2. /\ m_sem \in Nat /\ Len(list) \in Nat /\ intr \in Nat /\ missed \in Nat
      /\ Unposted \in {0, 1}
  BY RecvAssumption DEF RecvAssumption, TypeInv, TypeOK, Unposted
<1>3. /\ Len(list) <= m_sem + C + Unposted
      /\ m_sem + C + Unposted - Len(list) + R <= intr + missed
  BY <1>1, <1>2 DEF TokenBalance, Tokens
<1>4. /\ C' \in Nat /\ R' \in Nat /\ m_sem' \in Nat /\ Len(list') \in Nat
      /\ intr' \in Nat /\ missed' \in Nat /\ Unposted' \in {0, 1}
  BY RecvAssumption, ThreadSets, FS_CardinalityType
     DEF RecvAssumption, TypeInv, TypeOK, Unposted
<1> HIDE DEF C, R
<1> SUFFICES /\ Len(list') <= m_sem' + C' + Unposted'
             /\ m_sem' + C' + Unposted' - Len(list') + R' <= intr' + missed'
  BY <1>4 DEF TokenBalance, Tokens, C, R
<1> USE RecvAssumption DEF RecvAssumption, Goto, lockerVars, faults
<1>5. ASSUME Still
      PROVE  C' = C /\ R' = R
  BY <1>5 DEF Still, C, R
<1>6. ASSUME NEW w \in Workers, w \notin Claimants, Claimants' = Claimants \cup {w}
      PROVE  C' = C + 1
  BY <1>6, ThreadSets, CardinalityStep DEF C
<1>7. ASSUME NEW w \in Workers, w \in Claimants, Claimants' = Claimants \ {w}
      PROVE  C' = C - 1 /\ C > 0
  BY <1>7, ThreadSets, CardinalityStep DEF C
<1>8. ASSUME NEW w \in Workers, w \notin Returned, Returned' = Returned \cup {w}
      PROVE  R' = R + 1
  BY <1>8, ThreadSets, CardinalityStep DEF R
<1>9. ASSUME Returned' = Returned
      PROVE  R' = R
  BY <1>9 DEF R
<1> USE DEF TypeInv, TypeOK, LoopLabels, WorkerLabels
<1>10. CASE RecvItem \/ RecvNoMemory \/ UNCHANGED vars
  <2>1. Still /\ UNCHANGED <<m_sem, list, faults>> /\ Unposted' = Unposted
    BY <1>10 DEF RecvItem, RecvNoMemory, vars, Still, Claimants, Returned, Unposted
  <2> QED
    BY <1>3, <1>5, <2>1
<1>11. CASE LoopStep
  <2>1. Still /\ UNCHANGED faults
    BY <1>11 DEF LoopStep, PushLock, PushLink, PushCount, PushUnlock, PushPost,
                 Still, Claimants, Returned
  <2>2. CASE PushLink
    <3>1. nrecv \in Items
      BY <2>2 DEF PushLink, RankHeld, Items
    <3>2. Len(list') = Len(list) + 1 /\ UNCHANGED m_sem
      BY <2>2, <3>1 DEF PushLink
    <3>3. Unposted = 0 /\ Unposted' = 1
      BY <2>2 DEF PushLink, Unposted
    <3> QED
      BY <1>1, <1>2, <1>3, <1>5, <2>1, <3>2, <3>3
  <2>3. CASE PushPost
    <3>1. m_sem' = m_sem + 1 /\ UNCHANGED list
      BY <2>3 DEF PushPost, locker_post
    <3>2. Unposted = 1 /\ Unposted' = 0
      BY <2>3 DEF PushPost, Unposted
    <3> QED
      BY <1>1, <1>2, <1>3, <1>5, <2>1, <3>1, <3>2
  <2>4. CASE PushLock \/ PushCount \/ PushUnlock
    <3>1. UNCHANGED <<m_sem, list>> /\ Unposted' = Unposted
      BY <2>4 DEF PushLock, PushCount, PushUnlock, locker_lock, locker_unlock,
                  Unposted
    <3> QED
      BY <1>3, <1>5, <2>1, <3>1
  <2> QED
    BY <1>11, <2>2, <2>3, <2>4 DEF LoopStep
<1>12. ASSUME NEW w \in Workers, WorkerStep(w) \/ SemInterrupted(w)
       PROVE  /\ Len(list') <= m_sem' + C' + Unposted'
              /\ m_sem' + C' + Unposted' - Len(list') + R' <= intr' + missed'
  <2>1. Unposted' = Unposted
    BY <1>12 DEF WorkerStep, SemInterrupted, SemWait, SizePositive, SizeZero,
       PopLock, PopUnlink, PopCount, PopUnlock, PopNull, ReturnNull, ProcRead,
       FreeItem, Unposted
  <2>2. CASE SemWait(w)
    <3>1. m_sem' = m_sem - 1 /\ UNCHANGED <<list, faults>>
      BY <2>2 DEF SemWait, locker_semwait
    <3>2. /\ w \notin Claimants /\ Claimants' = Claimants \cup {w}
          /\ Returned' = Returned
      BY <2>2 DEF SemWait, Claimants, Returned
    <3> QED
      BY <1>1, <1>2, <1>3, <1>6, <1>9, <2>1, <3>1, <3>2
  <2>3. CASE SemInterrupted(w)
    <3>1. intr' = intr + 1 /\ UNCHANGED <<list, m_sem, missed>>
      BY <2>3 DEF SemInterrupted
    <3>2. /\ w \notin Claimants /\ Claimants' = Claimants \cup {w}
          /\ Returned' = Returned
      BY <2>3 DEF SemInterrupted, Claimants, Returned
    <3> QED
      BY <1>1, <1>2, <1>3, <1>6, <1>9, <2>1, <3>1, <3>2
  <2>4. CASE SizeZero(w)
    <3>1. UNCHANGED <<m_sem, list, faults>>
      BY <2>4 DEF SizeZero
    <3>2. /\ w \in Claimants /\ Claimants' = Claimants \ {w}
          /\ Returned' = Returned
      BY <2>4 DEF SizeZero, Claimants, Returned
    <3>3. Len(list) <= Unposted
      BY <1>2, <2>4 DEF SizeZero, LockGuardsList, CounterLags, Unposted
    <3> QED
      BY <1>1, <1>2, <1>3, <1>7, <1>9, <2>1, <3>1, <3>2, <3>3
  <2>5. CASE PopUnlink(w)
    <3>1. Len(list') = Len(list) - 1 /\ UNCHANGED <<m_sem, faults>>
      BY <2>5 DEF PopUnlink
    <3>2. /\ w \in Claimants /\ Claimants' = Claimants \ {w}
          /\ Returned' = Returned
      BY <2>5 DEF PopUnlink, Claimants, Returned
    <3>3. C' = C - 1 /\ R' = R
      BY <1>7, <1>9, <3>2
    <3> QED
      BY <1>1, <1>2, <1>3, <2>1, <3>1, <3>3
  <2>6. CASE PopNull(w)
    <3>1. Len(list) = 0 /\ UNCHANGED <<m_sem, list, faults>>
      BY <2>6 DEF PopNull
    <3>2. /\ w \in Claimants /\ Claimants' = Claimants \ {w}
          /\ w \notin Returned /\ Returned' = Returned \cup {w}
      BY <2>6 DEF PopNull, Claimants, Returned
    <3> QED
      BY <1>1, <1>2, <1>3, <1>7, <1>8, <2>1, <3>1, <3>2
  <2>7. CASE \/ SizePositive(w) \/ PopLock(w) \/ PopCount(w) \/ PopUnlock(w)
             \/ ReturnNull(w) \/ ProcRead(w) \/ FreeItem(w)
    <3>1. UNCHANGED <<m_sem, list, faults>>
      BY <2>7 DEF SizePositive, PopLock, PopCount, PopUnlock, ReturnNull,
                  ProcRead, FreeItem, locker_lock, locker_unlock
    <3>2. Still
      BY <2>7 DEF SizePositive, PopLock, PopCount, PopUnlock, ReturnNull,
                  ProcRead, FreeItem, Still, Claimants, Returned
    <3> QED
      BY <1>3, <1>5, <2>1, <3>1, <3>2
  <2> QED
    BY <1>12, <2>2, <2>3, <2>4, <2>5, <2>6, <2>7 DEF WorkerStep
<1>13. CASE PushNoNode
  <2>1. Still /\ UNCHANGED <<m_sem, list, intr>> /\ missed' = missed + 1
    BY <1>13 DEF PushNoNode, Still, Claimants, Returned
  <2>2. Unposted = 0 /\ Unposted' = 1
    BY <1>13 DEF PushNoNode, Unposted
  <2> QED
    BY <1>1, <1>2, <1>3, <1>5, <2>1, <2>2
<1> QED
  BY <1>10, <1>11, <1>12, <1>13 DEF Next

\* Whatever the number of threads and messages, a queued message has a token.
THEOREM TokensBalance == Spec => []TokenBalance
<1>1. /\ TypeInv /\ TypeInv' /\ LockGuardsList /\ TokenBalance /\ [Next]_vars
      => TokenBalance'
  BY TokenNext
<1> QED
  BY TokenInit, <1>1, TypeCorrect, LockSafe, PTL DEF Spec

\* A data thread is lost only to an interrupted sem_wait or to a list node
\* there was no memory for, one for each.
THEOREM WorkersStay == Spec => []LostWorkers
<1>1. TypeInv /\ TokenBalance => LostWorkers
  <2>1. Cardinality(Claimants) \in Nat /\ Cardinality(Returned) \in Nat
    BY ThreadSets, FS_CardinalityType
  <2> QED
    BY <2>1, RecvAssumption DEF RecvAssumption, TypeInv, TypeOK, TokenBalance,
       Tokens, LostWorkers, Unposted
<1> QED
  BY <1>1, TypeCorrect, TokensBalance, PTL

-----------------------------------------------------------------------------
(* Who has a message.                                                      *)

\* What leaves the queue is older than what is in it or about to be.
InOrder ==
  \A a \in Held \cup freed, b \in Queued \cup Pushing : a < b

\* The thread that served b works on nothing older: it holds nothing, or what
\* it popped later.
Past(w, b) == item[w] = NULL \/ b < item[w]
MovedOn    == \A b \in freed : \E w \in Workers : Past(w, b)

OwnerInv == OneOwner /\ CalledOnce /\ InOrder /\ MovedOn

LEMMA OwnerInit == Init => OwnerInv
<1> SUFFICES ASSUME Init
             PROVE  OwnerInv
  OBVIOUS
<1>1. Queued = {} /\ Held = {} /\ Pushing = {} /\ list = <<>>
  BY RecvAssumption DEF RecvAssumption, Init, Queued, Held, Pushing
<1>2. freed = {} /\ dropped = {} /\ nrecv = 0
  BY DEF Init
<1>3. OneOwner /\ InOrder /\ MovedOn
  BY <1>1, <1>2 DEF Init, OneOwner, InOrder, MovedOn, NULL
<1>4. CalledOnce
  BY RecvAssumption DEF RecvAssumption, Init, CalledOnce, NULL, Items
<1> QED
  BY <1>3, <1>4 DEF OwnerInv

\* Steps that move no message.
LEMMA OwnerStill ==
  ASSUME TypeInv, OwnerInv,
         UNCHANGED <<list, item, nrecv, dropped, calls, freed>>,
         Pushing' = Pushing,
         \A w \in Workers : pc'[w] = "free" <=> pc[w] = "free"
  PROVE  OwnerInv'
<1>1. Queued' = Queued /\ Held' = Held
  BY DEF Queued, Held
<1>2. OneOwner' /\ InOrder' /\ MovedOn'
  BY <1>1 DEF OwnerInv, OneOwner, InOrder, MovedOn, Past
<1>3. CalledOnce'
  BY DEF OwnerInv, CalledOnce
<1> QED
  BY <1>2, <1>3 DEF OwnerInv

\* What Queued says of list, in terms of the lemmas on queues.
LEMMA ListFacts ==
  ASSUME TypeInv, OneOwner
  PROVE  /\ list \in Seq(Items) /\ list \in Seq(Int)
         /\ Queued = Entries(list) /\ Increasing(list) /\ NoRepeat(list)
         /\ nrecv \in Nat /\ 1..nrecv \subseteq Items
<1> USE RecvAssumption DEF RecvAssumption, TypeInv, TypeOK, Items
<1>1. list \in Seq(Items)
  OBVIOUS
<1>2. list \in Seq(Int)
  BY <1>1
<1>3. Queued = Entries(list) /\ Increasing(list)
  BY DEF Queued, Entries, Increasing, OneOwner
<1> QED
  BY <1>1, <1>2, <1>3, StaysIncreasing

LEMMA OwnerLoop ==
  ASSUME TypeInv, OwnerInv, RecvItem \/ RecvNoMemory \/ LoopStep \/ PushNoNode
  PROVE  OwnerInv'
<1> USE RecvAssumption DEF RecvAssumption, Goto
<1>1. \A w \in Workers : pc'[w] = pc[w]
  BY DEF TypeInv, TypeOK, RecvItem, RecvNoMemory, LoopStep, PushLock, PushLink,
         PushCount, PushUnlock, PushPost, PushNoNode
<1>2. nrecv \in Nat
  BY ListFacts DEF OwnerInv
<1>3. CASE RecvItem
  <2>1. /\ Queued' = Queued /\ Held' = Held /\ Pushing = {} /\ Pushing' = {nrecv'}
        /\ nrecv' = nrecv + 1 /\ UNCHANGED <<list, item, dropped, calls, freed>>
    BY <1>3 DEF RecvItem, Queued, Held, Pushing, TypeInv, TypeOK
  <2>2. 1..nrecv' = 1..nrecv \cup {nrecv'} /\ nrecv' \notin 1..nrecv
    BY <1>2, <2>1
  <2>3. OneOwner'
    BY <2>1, <2>2 DEF OwnerInv, OneOwner
  <2>4. InOrder'
    <3>1. \A a \in Held \cup freed : a \in 1..nrecv
      BY DEF OwnerInv, OneOwner
    <3>2. \A a \in Held \cup freed : a < nrecv'
      BY <1>2, <2>1, <3>1
    <3> QED
      BY <2>1, <3>2 DEF OwnerInv, InOrder
  <2>5. CalledOnce' /\ MovedOn'
    BY <1>1, <2>1 DEF OwnerInv, CalledOnce, MovedOn, Past
  <2> QED
    BY <2>3, <2>4, <2>5 DEF OwnerInv
<1>4. CASE RecvNoMemory
  <2>1. /\ Queued' = Queued /\ Held' = Held /\ Pushing = {} /\ Pushing' = {}
        /\ nrecv' = nrecv + 1 /\ dropped' = dropped \cup {nrecv'}
        /\ UNCHANGED <<list, item, calls, freed>>
    BY <1>4 DEF RecvNoMemory, Queued, Held, Pushing, TypeInv, TypeOK
  <2>2. 1..nrecv' = 1..nrecv \cup {nrecv'} /\ nrecv' \notin 1..nrecv
    BY <1>2, <2>1
  <2>3. OneOwner'
    BY <2>1, <2>2 DEF OwnerInv, OneOwner
  <2>4. CalledOnce' /\ MovedOn' /\ InOrder'
    BY <1>1, <2>1 DEF OwnerInv, CalledOnce, MovedOn, InOrder, Past
  <2> QED
    BY <2>3, <2>4 DEF OwnerInv
<1>5. CASE PushLink
  <2>1. /\ Held' = Held /\ Pushing = {nrecv} /\ Pushing' = {} /\ nrecv \in Items
        /\ list' = Append(list, nrecv)
        /\ UNCHANGED <<item, nrecv, dropped, calls, freed>>
    BY <1>5 DEF PushLink, Held, Pushing, TypeInv, TypeOK, RankHeld, Items
  <2>2. nrecv \notin Queued /\ \A e \in Queued : e < nrecv
    <3>1. nrecv \notin Queued /\ Queued \subseteq 1..nrecv
      BY <2>1 DEF OwnerInv, OneOwner
    <3> QED
      BY <1>2, <3>1
  <2>3. Queued' = Queued \cup {nrecv} /\ Increasing(list')
    BY <2>1, <2>2, ListFacts, PushEntries, StaysIncreasing
       DEF OwnerInv, Queued, Entries
  <2>4. OneOwner'
    BY <2>1, <2>2, <2>3 DEF OwnerInv, OneOwner, Increasing
  <2>5. CalledOnce' /\ MovedOn' /\ InOrder'
    BY <1>1, <2>1, <2>3 DEF OwnerInv, CalledOnce, MovedOn, InOrder, Past
  <2> QED
    BY <2>4, <2>5 DEF OwnerInv
<1>6. CASE PushNoNode
  <2>1. /\ Queued' = Queued /\ Held' = Held /\ Pushing = {nrecv} /\ Pushing' = {}
        /\ dropped' = dropped \cup {nrecv}
        /\ UNCHANGED <<list, item, nrecv, calls, freed>>
    BY <1>6 DEF PushNoNode, Queued, Held, Pushing, TypeInv, TypeOK
  <2>2. OneOwner'
    BY <2>1 DEF OwnerInv, OneOwner
  <2>3. CalledOnce' /\ MovedOn' /\ InOrder'
    BY <1>1, <2>1 DEF OwnerInv, CalledOnce, MovedOn, InOrder, Past
  <2> QED
    BY <2>2, <2>3 DEF OwnerInv
<1>7. CASE PushLock \/ PushCount \/ PushUnlock \/ PushPost
  <2>1. UNCHANGED <<list, item, nrecv, dropped, calls, freed>> /\ Pushing' = Pushing
    BY <1>7 DEF PushLock, PushCount, PushUnlock, PushPost, Pushing, TypeInv, TypeOK
  <2> QED
    BY <1>1, <2>1, OwnerStill
<1> QED
  BY <1>3, <1>4, <1>5, <1>6, <1>7 DEF LoopStep

LEMMA OwnerWorker ==
  ASSUME TypeInv, OwnerInv, NEW w \in Workers, WorkerStep(w) \/ SemInterrupted(w)
  PROVE  OwnerInv'
<1> USE RecvAssumption DEF RecvAssumption, Goto
<1>1. pc'[Loop] = pc[Loop] /\ nrecv' = nrecv /\ dropped' = dropped
  BY DEF TypeInv, TypeOK, WorkerStep, SemInterrupted, SemWait, SizePositive,
         SizeZero, PopLock, PopUnlink, PopCount, PopUnlock, PopNull, ReturnNull,
         ProcRead, FreeItem
<1>2. Pushing' = Pushing
  BY <1>1 DEF Pushing
<1>3. nrecv \in Nat
  BY ListFacts DEF OwnerInv
<1>4. CASE PopUnlink(w)
  <2> DEFINE m == Head(list)
  <2>1. /\ list # <<>> /\ list' = Tail(list) /\ item' = [item EXCEPT ![w] = m]
        /\ item[w] = NULL /\ UNCHANGED <<calls, freed>>
        /\ \A v \in Workers : pc'[v] = "free" <=> pc[v] = "free"
    BY <1>4 DEF PopUnlink, TypeInv, TypeOK, ItemHeld
  <2>2. /\ m \in Items /\ m \in Queued /\ Queued = Queued' \cup {m} /\ m \notin Queued'
        /\ Increasing(list') /\ \A e \in Queued' : m < e
    <3>1. /\ list \in Seq(Items) /\ list \in Seq(Int) /\ list # <<>>
          /\ Increasing(list) /\ NoRepeat(list)
      BY <2>1, ListFacts DEF OwnerInv
    <3>2. Queued = Entries(list) /\ Queued' = Entries(Tail(list))
      BY <2>1 DEF Queued, Entries
    <3>3. /\ m \in Items /\ m \in Entries(list) /\ m \notin Entries(Tail(list))
          /\ Entries(list) = Entries(Tail(list)) \cup {m}
      BY <3>1, PopEntries
    <3>4. Increasing(Tail(list)) /\ \A e \in Entries(Tail(list)) : m < e
      BY <3>1, StaysIncreasing
    <3> QED
      BY <2>1, <3>2, <3>3, <3>4
  <2> HIDE DEF m
  <2>3. /\ Held' = Held \cup {m} /\ m # NULL
        /\ \A v \in Workers : item'[v] = IF v = w THEN m ELSE item[v]
    <3>1. m # NULL /\ item \in [Workers -> Items \cup {NULL}]
      BY <2>2 DEF Items, NULL, TypeInv, TypeOK
    <3> QED
      BY <2>1, <3>1 DEF Held
  <2>4. m \notin Held \cup Pushing \cup freed \cup dropped
    BY <2>2 DEF OwnerInv, OneOwner
  <2>5. \A v \in Workers : item[v] # NULL => item[v] # m
    BY <2>4 DEF Held
  <2>6. OneOwner'
    <3>1. \A u, v \in Workers : item'[u] = item'[v] /\ item'[u] # NULL => u = v
      BY <2>3, <2>5 DEF OwnerInv, OneOwner
    <3> QED
      BY <1>1, <1>2, <2>1, <2>2, <2>3, <2>4, <3>1 DEF OwnerInv, OneOwner, Increasing
  <2>7. InOrder'
    <3>1. \A b \in Pushing : m < b
      <4>1. \A b \in Pushing : b = nrecv
        BY DEF Pushing
      <4>2. m \in 1..nrecv
        BY <2>2 DEF OwnerInv, OneOwner
      <4>3. \A b \in Pushing : m # b
        BY <2>4
      <4> QED
        BY <1>3, <4>1, <4>2, <4>3
    <3> QED
      BY <1>2, <2>1, <2>2, <2>3, <3>1 DEF OwnerInv, InOrder
  <2>8. MovedOn'
    <3>1. \A b \in freed : b < m
      BY <2>2 DEF OwnerInv, InOrder
    <3> QED
      BY <2>1, <2>3, <3>1 DEF OwnerInv, MovedOn, Past
  <2>9. CalledOnce'
    <3>1. pc[w] # "free"
      BY <1>4 DEF PopUnlink
    <3> QED
      BY <2>1, <2>3, <3>1 DEF OwnerInv, CalledOnce
  <2> QED
    BY <2>6, <2>7, <2>8, <2>9 DEF OwnerInv
<1>5. CASE ProcRead(w)
  <2>1. /\ UNCHANGED <<list, item, freed>> /\ calls' = [calls EXCEPT ![item[w]] = @ + 1]
        /\ pc[w] = "procread" /\ pc'[w] = "free"
        /\ \A v \in Workers \ {w} : pc'[v] = pc[v]
    BY <1>5 DEF ProcRead, TypeInv, TypeOK
  <2>2. Queued' = Queued /\ Held' = Held
    BY <2>1 DEF Queued, Held
  <2>3. OneOwner' /\ InOrder' /\ MovedOn'
    BY <1>1, <1>2, <2>1, <2>2 DEF OwnerInv, OneOwner, InOrder, MovedOn, Past
  <2>4. item[w] \in Items /\ item[w] # NULL /\ item[w] \in Held
    BY <2>1 DEF TypeInv, TypeOK, ItemHeld, Held
  <2>5. item[w] \notin freed /\ \A v \in Workers : item[v] = item[w] => v = w
    BY <2>4 DEF OwnerInv, OneOwner
  <2>6. CalledOnce'
    <3>1. calls[item[w]] = 0
      BY <2>1, <2>4, <2>5 DEF OwnerInv, CalledOnce
    <3>2. calls'[item[w]] = 1 /\ \A i \in Items : i # item[w] => calls'[i] = calls[i]
      BY <2>1, <2>4, <3>1 DEF TypeInv, TypeOK
    <3>3. ASSUME NEW i \in Items, i # item[w]
          PROVE  (\E v \in Workers : item'[v] = i /\ pc'[v] = "free")
                   <=> (\E v \in Workers : item[v] = i /\ pc[v] = "free")
      BY <2>1, <3>3
    <3> QED
      BY <2>1, <3>2, <3>3 DEF OwnerInv, CalledOnce
  <2> QED
    BY <2>3, <2>6 DEF OwnerInv
<1>6. CASE FreeItem(w)
  <2>1. /\ UNCHANGED <<list, calls>> /\ freed' = freed \cup {item[w]}
        /\ item' = [item EXCEPT ![w] = NULL] /\ pc[w] = "free" /\ pc'[w] # "free"
        /\ \A v \in Workers \ {w} : pc'[v] = pc[v]
    BY <1>6 DEF FreeItem, TypeInv, TypeOK
  <2>2. item[w] # NULL /\ item[w] \in Held
    BY <2>1 DEF TypeInv, ItemHeld, Held
  <2>3. \A v \in Workers : item[v] = item[w] => v = w
    BY <2>2 DEF OwnerInv, OneOwner
  <2>4. \A v \in Workers : item'[v] = IF v = w THEN NULL ELSE item[v]
    BY <2>1 DEF TypeInv, TypeOK
  <2>5. Held' = Held \ {item[w]} /\ Queued' = Queued
    BY <2>1, <2>3, <2>4 DEF Held, Queued
  <2>6. OneOwner'
    <3>1. \A u, v \in Workers : item'[u] = item'[v] /\ item'[u] # NULL => u = v
      BY <2>4 DEF OwnerInv, OneOwner
    <3> QED
      BY <1>1, <1>2, <2>1, <2>2, <2>5, <3>1 DEF OwnerInv, OneOwner
  <2>7. InOrder' /\ MovedOn'
    BY <1>2, <2>1, <2>2, <2>4, <2>5 DEF OwnerInv, InOrder, MovedOn, Past
  <2>8. CalledOnce'
    <3>1. ASSUME NEW i \in Items
          PROVE  (i \in freed' \/ \E v \in Workers : item'[v] = i /\ pc'[v] = "free")
                   <=> (i \in freed \/ \E v \in Workers : item[v] = i /\ pc[v] = "free")
      BY <2>1, <2>4
    <3> QED
      BY <2>1, <3>1 DEF OwnerInv, CalledOnce
  <2> QED
    BY <2>6, <2>7, <2>8 DEF OwnerInv
<1>7. CASE \/ SemWait(w) \/ SizePositive(w) \/ SizeZero(w) \/ PopLock(w)
           \/ PopCount(w) \/ PopUnlock(w) \/ PopNull(w) \/ ReturnNull(w)
           \/ SemInterrupted(w)
  <2>1. /\ UNCHANGED <<list, item, calls, freed>>
        /\ \A v \in Workers : pc'[v] = "free" <=> pc[v] = "free"
    BY <1>7 DEF SemWait, SizePositive, SizeZero, PopLock, PopCount, PopUnlock,
                PopNull, ReturnNull, SemInterrupted, TypeInv, TypeOK
  <2> QED
    BY <1>1, <1>2, <2>1, OwnerStill
<1> QED
  BY <1>4, <1>5, <1>6, <1>7 DEF WorkerStep

LEMMA OwnerNext == TypeInv /\ OwnerInv /\ [Next]_vars => OwnerInv'
<1> SUFFICES ASSUME TypeInv, OwnerInv, [Next]_vars
             PROVE  OwnerInv'
  OBVIOUS
<1>1. CASE UNCHANGED vars
  BY <1>1, OwnerStill DEF vars, Pushing
<1> QED
  BY <1>1, OwnerLoop, OwnerWorker DEF Next

LEMMA OwnerAlways == Spec => []OwnerInv
  BY OwnerInit, OwnerNext, TypeCorrect, PTL DEF Spec

\* Conservation: with any number of data threads and messages, and failing
\* mallocs and interrupted sem_waits at any point, a message read from a socket
\* is in exactly one place, and freed by the one thread that popped it.
THEOREM MessagesKept == Spec => []OneOwner
<1>1. OwnerInv => OneOwner
  BY DEF OwnerInv
<1> QED
  BY <1>1, OwnerAlways, PTL

\* Exactly one callback for each message whose memory is released.
THEOREM CalledBackOnce == Spec => []CalledOnce
<1>1. OwnerInv => CalledOnce
  BY DEF OwnerInv
<1> QED
  BY <1>1, OwnerAlways, PTL

\* A message that was served overtakes only messages other data threads hold,
\* and of those fewer than there are threads.
THEOREM OvertakingBounded == Spec => []BoundedOvertaking
<1>1. TypeInv /\ OwnerInv => BoundedOvertaking
  <2> SUFFICES ASSUME TypeInv, OwnerInv, NEW b \in Items, calls[b] > 0
               PROVE  /\ Unserved(b) \subseteq Held
                      /\ Cardinality(Unserved(b)) < Cardinality(Workers)
    BY DEF BoundedOvertaking
  <2> DEFINE Serves(w) == item[w] = b /\ pc[w] = "free"
  <2>1. b \in freed \/ \E w \in Workers : Serves(w)
    BY DEF OwnerInv, CalledOnce
  <2>2. b \in Held \cup freed /\ b \in 1..nrecv /\ nrecv \in Nat
    <3>1. b # NULL
      BY DEF Items, NULL
    <3>2. b \in Held \cup freed
      BY <2>1, <3>1 DEF Held
    <3> QED
      BY <3>2, ListFacts DEF OwnerInv, OneOwner
  <2>3. ASSUME NEW a \in Unserved(b)
        PROVE  a \in Held /\ a < b
    <3>1. a \in 1..(b - 1) /\ calls[a] = 0 /\ a \notin dropped
      BY DEF Unserved
    <3>2. a \in 1..nrecv /\ a < b
      BY <2>2, <3>1
    <3>3. a \in Items
      BY <3>2, ListFacts DEF OwnerInv
    <3>4. a \notin freed
      BY <3>1, <3>3 DEF OwnerInv, CalledOnce
    <3>5. a \notin Queued \cup Pushing
      <4>1. \A c \in Queued \cup Pushing : b < c
        BY <2>2 DEF OwnerInv, InOrder
      <4> QED
        BY <2>2, <3>2, <4>1
    <3> QED
      BY <3>1, <3>2, <3>4, <3>5 DEF OwnerInv, OneOwner
  <2>4. PICK w \in Workers : Past(w, b) \/ item[w] = b
    BY <2>1 DEF OwnerInv, MovedOn
  <2> DEFINE Others == {item[v] : v \in Workers \ {w}}
  <2>5. Unserved(b) \subseteq Others
    <3> SUFFICES ASSUME NEW a \in Unserved(b)
                 PROVE  a \in Others
      OBVIOUS
    <3>1. a \in Held /\ a < b /\ a # NULL /\ a \in Int
      BY <2>3 DEF Held, Unserved
    <3>2. PICK v \in Workers : item[v] = a
      BY <3>1 DEF Held
    <3>3. v # w
      BY <2>2, <2>4, <3>1, <3>2 DEF Past
    <3> QED
      BY <3>2, <3>3
  <2>6. IsFiniteSet(Workers \ {w}) /\ Cardinality(Workers \ {w}) = Cardinality(Workers) - 1
    BY FS_RemoveElement, RecvAssumption DEF RecvAssumption
  <2>7. IsFiniteSet(Others) /\ Cardinality(Others) <= Cardinality(Workers \ {w})
    <3> DEFINE f == [v \in Workers \ {w} |-> item[v]]
    <3>1. f \in Surjection(Workers \ {w}, Others)
      BY DEF Surjection
    <3> QED
      BY <2>6, <3>1, FS_Surjection
  <2>8. Cardinality(Unserved(b)) <= Cardinality(Others)
    BY <2>5, <2>7, FS_Subset
  <2>9. /\ Cardinality(Unserved(b)) \in Nat /\ Cardinality(Others) \in Nat
        /\ Cardinality(Workers) \in Nat /\ Cardinality(Workers \ {w}) \in Nat
    BY <2>5, <2>6, <2>7, FS_Subset, FS_CardinalityType, RecvAssumption DEF RecvAssumption
  <2> QED
    BY <2>3, <2>6, <2>7, <2>8, <2>9
<1> QED
  BY <1>1, OwnerAlways, TypeCorrect, PTL

-----------------------------------------------------------------------------
(* The refinement.                                                         *)

ActiveItems == {i \in Held : calls[i] = 0}
DoneItems   == {i \in Items : calls[i] > 0}

LEMMA AbstractInit == Init => WQ!Init
  BY RecvAssumption
     DEF RecvAssumption, Init, WQ!Init, Held, NULL, Items

\* Steps that the work queue does not see.
LEMMA AbstractStutter ==
  ASSUME UNCHANGED <<list, calls>>, ActiveItems' = ActiveItems
  PROVE  UNCHANGED WQ!wqVars
  BY DEF WQ!wqVars, ActiveItems

\* The push of a message is a Submit, unlinking the head a Take, the return
\* of procread a Finish; nothing else shows.
LEMMA AbstractNext ==
  ASSUME TypeInv, OwnerInv, OwnerInv', [Next]_vars
  PROVE  [WQ!Next]_(WQ!wqVars)
<1> USE RecvAssumption DEF RecvAssumption, Goto
<1>1. CASE PushLink
  <2>1. /\ nrecv \in Items /\ Pushing = {nrecv} /\ list' = Append(list, nrecv)
        /\ UNCHANGED <<item, calls>>
    BY <1>1 DEF PushLink, TypeInv, TypeOK, RankHeld, Items, Pushing
  <2>2. nrecv \notin Queued \cup Held \cup freed
    BY <2>1 DEF OwnerInv, OneOwner
  <2>3. calls[nrecv] = 0
    <3>1. \A w \in Workers : item[w] # nrecv
      BY <2>1, <2>2 DEF Held, Items, NULL
    <3> QED
      BY <2>1, <2>2, <3>1 DEF OwnerInv, CalledOnce
  <2>4. nrecv \notin ActiveItems \cup DoneItems /\ \A k \in DOMAIN list : list[k] # nrecv
    BY <2>2, <2>3 DEF ActiveItems, DoneItems, Queued
  <2>5. ActiveItems' = ActiveItems /\ DoneItems' = DoneItems
    BY <2>1 DEF ActiveItems, DoneItems, Held
  <2>6. WQ!Submit(nrecv)
    BY <2>1, <2>4, <2>5 DEF WQ!Submit, ActiveItems, DoneItems
  <2> QED
    BY <2>1, <2>6 DEF WQ!Next
<1>2. ASSUME NEW w \in Workers, PopUnlink(w)
      PROVE  WQ!Next
  <2> DEFINE m == Head(list)
  <2>1. /\ list # <<>> /\ list' = Tail(list) /\ item' = [item EXCEPT ![w] = m]
        /\ item[w] = NULL /\ UNCHANGED calls
    BY <1>2 DEF PopUnlink, TypeInv, TypeOK, ItemHeld
  <2>2. m \in Items /\ m \in Queued
    BY <2>1, ListFacts, PopEntries DEF OwnerInv
  <2> HIDE DEF m
  <2>3. Held' = Held \cup {m}
    <3>1. m # NULL /\ item \in [Workers -> Items \cup {NULL}]
      BY <2>2 DEF Items, NULL, TypeInv, TypeOK
    <3> QED
      BY <2>1, <3>1 DEF Held
  <2>4. calls[m] = 0
    <3>1. m \notin freed \cup Held
      BY <2>2 DEF OwnerInv, OneOwner
    <3>2. \A v \in Workers : item[v] # m
      BY <2>2, <3>1 DEF Held, Items, NULL
    <3> QED
      BY <2>2, <3>1, <3>2 DEF OwnerInv, CalledOnce
  <2>5. ActiveItems' = ActiveItems \cup {m} /\ DoneItems' = DoneItems
    BY <2>1, <2>3, <2>4 DEF ActiveItems, DoneItems
  <2>6. WQ!Take
    BY <2>1, <2>5 DEF WQ!Take, ActiveItems, DoneItems, m
  <2> QED
    BY <2>6 DEF WQ!Next
<1>3. ASSUME NEW w \in Workers, ProcRead(w)
      PROVE  WQ!Next
  <2>1. /\ UNCHANGED <<list, item>> /\ calls' = [calls EXCEPT ![item[w]] = @ + 1]
        /\ pc[w] = "procread"
    BY <1>3 DEF ProcRead
  <2>2. item[w] \in Items /\ item[w] # NULL /\ item[w] \in Held
    BY <2>1 DEF TypeInv, TypeOK, ItemHeld, Held
  <2>3. calls[item[w]] = 0
    <3>1. item[w] \notin freed /\ \A v \in Workers : item[v] = item[w] => v = w
      BY <2>2 DEF OwnerInv, OneOwner
    <3> QED
      BY <2>1, <2>2, <3>1 DEF OwnerInv, CalledOnce
  <2>4. calls'[item[w]] = 1 /\ \A i \in Items : i # item[w] => calls'[i] = calls[i]
    BY <2>1, <2>2, <2>3 DEF TypeInv, TypeOK
  <2>5. Held' = Held /\ Held \subseteq Items
    BY <2>1 DEF Held, TypeInv, TypeOK
  <2>6. /\ item[w] \in ActiveItems /\ ActiveItems' = ActiveItems \ {item[w]}
        /\ DoneItems' = DoneItems \cup {item[w]}
    BY <2>2, <2>3, <2>4, <2>5 DEF ActiveItems, DoneItems
  <2>7. WQ!Finish(item[w])
    BY <2>1, <2>6 DEF WQ!Finish, ActiveItems, DoneItems
  <2> QED
    BY <2>2, <2>7 DEF WQ!Next, WQ!Finish
<1>4. ASSUME NEW w \in Workers, FreeItem(w)
      PROVE  UNCHANGED WQ!wqVars
  <2>1. UNCHANGED <<list, calls>> /\ item' = [item EXCEPT ![w] = NULL] /\ pc[w] = "free"
    BY <1>4 DEF FreeItem
  <2>2. item[w] \in Items /\ item[w] # NULL
    BY <2>1 DEF TypeInv, TypeOK, ItemHeld
  <2>3. calls[item[w]] = 1 /\ \A v \in Workers : item[v] = item[w] => v = w
    BY <2>1, <2>2 DEF OwnerInv, CalledOnce, OneOwner
  <2>4. \A v \in Workers : item'[v] = IF v = w THEN NULL ELSE item[v]
    BY <2>1 DEF TypeInv, TypeOK
  <2>5. Held' = Held \ {item[w]}
    BY <2>2, <2>3, <2>4 DEF Held
  <2> QED
    BY <2>1, <2>3, <2>5, AbstractStutter DEF ActiveItems
<1>5. CASE \/ RecvItem \/ RecvNoMemory \/ PushLock \/ PushCount \/ PushUnlock
           \/ PushPost \/ PushNoNode \/ UNCHANGED vars
  <2>1. UNCHANGED <<list, calls, item>>
    BY <1>5 DEF RecvItem, RecvNoMemory, PushLock, PushCount, PushUnlock, PushPost,
                PushNoNode, vars
  <2> QED
    BY <2>1, AbstractStutter DEF ActiveItems, Held
<1>6. ASSUME NEW w \in Workers,
             \/ SemWait(w) \/ SizePositive(w) \/ SizeZero(w) \/ PopLock(w)
             \/ PopCount(w) \/ PopUnlock(w) \/ PopNull(w) \/ ReturnNull(w)
             \/ SemInterrupted(w)
      PROVE  UNCHANGED WQ!wqVars
  <2>1. UNCHANGED <<list, calls, item>>
    BY <1>6 DEF SemWait, SizePositive, SizeZero, PopLock, PopCount, PopUnlock,
                PopNull, ReturnNull, SemInterrupted
  <2> QED
    BY <2>1, AbstractStutter DEF ActiveItems, Held
<1>7. CASE LoopStep
  BY <1>1, <1>5, <1>7 DEF LoopStep
<1>8. ASSUME NEW w \in Workers, WorkerStep(w) \/ SemInterrupted(w)
      PROVE  [WQ!Next]_(WQ!wqVars)
  BY <1>2, <1>3, <1>4, <1>6, <1>8 DEF WorkerStep
<1> QED
  BY <1>5, <1>7, <1>8 DEF Next

\* Locks, semaphore, interrupted waits and failing mallocs included, the
\* receive queue is a work queue: messages are taken in the order they were
\* read, each by one thread, and called back once.
THEOREM RefinesWorkQueue == Spec => WQ!Spec
<1>1. TypeInv /\ OwnerInv /\ OwnerInv' /\ [Next]_vars => [WQ!Next]_(WQ!wqVars)
  BY AbstractNext
<1> QED
  BY <1>1, AbstractInit, OwnerAlways, TypeCorrect, PTL DEF Spec, WQ!Spec
=============================================================================
