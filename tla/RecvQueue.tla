------------------------------ MODULE RecvQueue ------------------------------
(***************************************************************************)
(* The receive queue between the epoll thread and the data threads:        *)
(* event_read (epoll.c) pushes one Item per successful read and posts the  *)
(* semaphore; every Server_Process (server.c) waits for the semaphore,     *)
(* looks at the size without the lock, pops under the lock and runs the    *)
(* application's callback.                                                 *)
(*                                                                         *)
(* A message is named by its rank: message k is the k-th one the epoll     *)
(* thread read.  0 is the NULL pointer.  Every access to the lock, the     *)
(* list, its counter and the semaphore is a step of its own.               *)
(***************************************************************************)
EXTENDS Locker, Integers, Sequences, FiniteSets

CONSTANTS
  Workers,     \* the threads that run Server_Process
  Loop,        \* the thread that runs Server_Loop
  MaxItems,    \* bound: messages the clients send
  MaxIntr,     \* bound: times sem_wait comes back with EINTR
  MaxMissed    \* bound: times there is no memory for a list node

ASSUME RecvAssumption ==
  /\ IsFiniteSet(Workers)
  /\ Loop \notin Workers
  /\ NoThread \notin Workers \cup {Loop}
  /\ MaxItems \in Nat
  /\ MaxIntr \in Nat
  /\ MaxMissed \in Nat

VARIABLES
  list,        \* the data of the list nodes, head first
  count,       \* list->count, updated after the links
  pc,          \* where each thread is
  item,        \* the worker's local variable item
  nrecv,       \* messages read so far
  dropped,     \* messages lost for want of memory
  calls,       \* times procread ran for a message
  freed,       \* messages whose Item and buffer were freed
  intr,        \* EINTR returns so far
  missed       \* list nodes there was no memory for so far

faults == <<intr, missed>>

vars == <<lockerVars, list, count, pc, item, nrecv, dropped, calls, freed, faults>>

NULL  == 0
Items == 1..MaxItems

Goto(t, from, to) ==
  /\ pc[t] = from
  /\ pc' = [pc EXCEPT ![t] = to]

Init ==
  /\ locker_init
  /\ list = <<>> /\ count = 0
  /\ pc = [t \in Workers \cup {Loop} |-> IF t = Loop THEN "wait" ELSE "swait"]
  /\ item = [w \in Workers |-> NULL]
  /\ nrecv = 0 /\ dropped = {} /\ freed = {}
  /\ calls = [i \in Items |-> 0]
  /\ intr = 0 /\ missed = 0

-----------------------------------------------------------------------------
(* The epoll thread: the part of event_read after connobj->recv.           *)

RecvItem ==
  /\ nrecv < MaxItems
  /\ Goto(Loop, "wait", "lock")
  /\ nrecv' = nrecv + 1
  /\ UNCHANGED <<lockerVars, list, count, item, dropped, calls, freed, faults>>

\* malloc(sizeof(struct tagConnItem)) returned NULL: the message is forgotten.
RecvNoMemory ==
  /\ nrecv < MaxItems
  /\ pc[Loop] = "wait"
  /\ nrecv' = nrecv + 1
  /\ dropped' = dropped \cup {nrecv'}
  /\ UNCHANGED <<lockerVars, list, count, pc, item, calls, freed, faults>>

PushLock ==
  /\ Goto(Loop, "lock", "link")
  /\ locker_lock(Loop)
  /\ UNCHANGED <<list, count, item, nrecv, dropped, calls, freed, faults>>

\* Seeded fault: DataList_Addhead in place of DataList_Addtail.
BadPushHead ==
  /\ Goto(Loop, "link", "count")
  /\ list' = <<nrecv>> \o list
  /\ UNCHANGED <<lockerVars, count, item, nrecv, dropped, calls, freed, faults>>

\* DataList_Addtail links the node ...
PushLink ==
  /\ Goto(Loop, "link", "count")
  /\ list' = Append(list, nrecv)
  /\ UNCHANGED <<lockerVars, count, item, nrecv, dropped, calls, freed, faults>>

\* No memory for the node, which DataList_Addtail does not look at: an empty
\* list only counts it.  On another one the process ends, which is no state.
PushNoNode ==
  /\ list = <<>> /\ missed < MaxMissed
  /\ Goto(Loop, "link", "count")
  /\ missed' = missed + 1
  /\ dropped' = dropped \cup {nrecv}
  /\ UNCHANGED <<lockerVars, list, count, item, nrecv, calls, freed, intr>>

\* ... and then counts it.
PushCount ==
  /\ Goto(Loop, "count", "unlock")
  /\ count' = count + 1
  /\ UNCHANGED <<lockerVars, list, item, nrecv, dropped, calls, freed, faults>>

PushUnlock ==
  /\ Goto(Loop, "unlock", "post")
  /\ locker_unlock
  /\ UNCHANGED <<list, count, item, nrecv, dropped, calls, freed, faults>>

\* Seeded faults: the token is posted twice, or not at all.
BadPostTwice ==
  /\ Goto(Loop, "post", "wait")
  /\ m_sem' = m_sem + 2
  /\ UNCHANGED <<m_mutex, m_cond, list, count, item, nrecv, dropped, calls, freed, faults>>

BadNoPost ==
  /\ Goto(Loop, "post", "wait")
  /\ UNCHANGED <<lockerVars, list, count, item, nrecv, dropped, calls, freed, faults>>

PushPost ==
  /\ Goto(Loop, "post", "wait")
  /\ locker_post
  /\ UNCHANGED <<list, count, item, nrecv, dropped, calls, freed, faults>>

LoopStep == PushLock \/ PushLink \/ PushCount \/ PushUnlock \/ PushPost

-----------------------------------------------------------------------------
(* A data thread: one turn of the loop of Server_Process.                  *)

SemWait(w) ==
  /\ Goto(w, "swait", "size")
  /\ locker_semwait
  /\ UNCHANGED <<list, count, item, nrecv, dropped, calls, freed, faults>>

\* sem_wait was interrupted by a signal handler of the application: the
\* result of swait is not looked at, so the worker goes on without a token.
SemInterrupted(w) ==
  /\ intr < MaxIntr
  /\ Goto(w, "swait", "size")
  /\ intr' = intr + 1
  /\ UNCHANGED <<lockerVars, list, count, item, nrecv, dropped, calls, freed, missed>>

\* size() reads list->count without the lock.
SizePositive(w) ==
  /\ count > 0
  /\ Goto(w, "size", "lock")
  /\ UNCHANGED <<lockerVars, list, count, item, nrecv, dropped, calls, freed, faults>>

SizeZero(w) ==
  /\ count <= 0
  /\ Goto(w, "size", "swait")
  /\ UNCHANGED <<lockerVars, list, count, item, nrecv, dropped, calls, freed, faults>>

PopLock(w) ==
  /\ Goto(w, "lock", "pop")
  /\ locker_lock(w)
  /\ UNCHANGED <<list, count, item, nrecv, dropped, calls, freed, faults>>

\* Seeded fault: the head is read but not removed.
BadPeek(w) ==
  /\ list # <<>>
  /\ Goto(w, "pop", "count")
  /\ item' = [item EXCEPT ![w] = Head(list)]
  /\ UNCHANGED <<lockerVars, list, count, nrecv, dropped, calls, freed, faults>>

\* DataList_Removehead unlinks the head ...
PopUnlink(w) ==
  /\ list # <<>>
  /\ Goto(w, "pop", "count")
  /\ item' = [item EXCEPT ![w] = Head(list)]
  /\ list' = Tail(list)
  /\ UNCHANGED <<lockerVars, count, nrecv, dropped, calls, freed, faults>>

\* ... and then uncounts it.
PopCount(w) ==
  /\ Goto(w, "count", "unlock")
  /\ count' = count - 1
  /\ UNCHANGED <<lockerVars, list, item, nrecv, dropped, calls, freed, faults>>

PopUnlock(w) ==
  /\ Goto(w, "unlock", "procread")
  /\ locker_unlock
  /\ UNCHANGED <<list, count, item, nrecv, dropped, calls, freed, faults>>

\* The list was empty after all: pop returns NULL ...
PopNull(w) ==
  /\ list = <<>>
  /\ Goto(w, "pop", "unlockNull")
  /\ UNCHANGED <<lockerVars, list, count, item, nrecv, dropped, calls, freed, faults>>

\* Seeded fault: the early return forgets the unlock.
BadKeepLock(w) ==
  /\ Goto(w, "unlockNull", "returned")
  /\ UNCHANGED <<lockerVars, list, count, item, nrecv, dropped, calls, freed, faults>>

\* ... and the task function returns: the thread is back in Threadpool_Run,
\* where no task will ever come for it again.
ReturnNull(w) ==
  /\ Goto(w, "unlockNull", "returned")
  /\ locker_unlock
  /\ UNCHANGED <<list, count, item, nrecv, dropped, calls, freed, faults>>

\* The application's callback returns.
ProcRead(w) ==
  /\ Goto(w, "procread", "free")
  /\ calls' = [calls EXCEPT ![item[w]] = @ + 1]
  /\ UNCHANGED <<lockerVars, list, count, item, nrecv, dropped, freed, faults>>

\* CStr_Free(item->recvptr); free(item); item = NULL
FreeItem(w) ==
  /\ Goto(w, "free", "swait")
  /\ freed' = freed \cup {item[w]}
  /\ item' = [item EXCEPT ![w] = NULL]
  /\ UNCHANGED <<lockerVars, list, count, nrecv, dropped, calls, faults>>

WorkerStep(w) ==
  \/ SemWait(w) \/ SizePositive(w) \/ SizeZero(w)
  \/ PopLock(w) \/ PopUnlink(w) \/ PopCount(w) \/ PopUnlock(w)
  \/ PopNull(w) \/ ReturnNull(w) \/ ProcRead(w) \/ FreeItem(w)

Next ==
  \/ RecvItem \/ RecvNoMemory \/ LoopStep \/ PushNoNode
  \/ \E w \in Workers : WorkerStep(w) \/ SemInterrupted(w)

Spec == Init /\ [][Next]_vars

\* Every thread that can run does, and procread returns.  Nothing obliges
\* a client to send, or a signal to arrive.
FairSpec ==
  /\ Spec
  /\ WF_vars(LoopStep)
  /\ \A w \in Workers : WF_vars(WorkerStep(w))

-----------------------------------------------------------------------------
(* Properties.                                                             *)

LoopLabels   == {"wait", "lock", "link", "count", "unlock", "post"}
WorkerLabels == {"swait", "size", "lock", "pop", "count", "unlock",
                 "unlockNull", "returned", "procread", "free"}

\* Every variable keeps the shape its C counterpart has.
TypeOK ==
  /\ m_mutex \in Workers \cup {Loop, NoThread}
  /\ m_cond = {}
  /\ m_sem \in Nat
  /\ list \in Seq(Items)
  /\ count \in Int
  /\ pc \in [Workers \cup {Loop} -> LoopLabels \cup WorkerLabels]
  /\ pc[Loop] \in LoopLabels
  /\ \A w \in Workers : pc[w] \in WorkerLabels
  /\ item \in [Workers -> Items \cup {NULL}]
  /\ nrecv \in 0..MaxItems
  /\ dropped \subseteq Items
  /\ calls \in [Items -> Nat]
  /\ freed \subseteq Items
  /\ intr \in 0..MaxIntr
  /\ missed \in 0..MaxMissed

InList == {"link", "pop", "count", "unlock", "unlockNull"}

InsideOwns == \A t \in Workers \cup {Loop} : pc[t] \in InList <=> m_mutex = t

CounterLags ==
  count = Len(list) + missed
                    + (IF \E w \in Workers : pc[w] = "count" THEN 1 ELSE 0)
                    - (IF pc[Loop] = "count" THEN 1 ELSE 0)

\* The list is only walked by the owner of the lock, on every path out of
\* it, the NULL one included, and the counter lags the links only inside,
\* but for the nodes it counted and did not get.
LockGuardsList == InsideOwns /\ CounterLags

Queued  == {list[k] : k \in DOMAIN list}
Held    == {item[w] : w \in Workers} \ {NULL}
Pushing == IF pc[Loop] \in {"lock", "link"} THEN {nrecv} ELSE {}

\* Conservation: each message read from a socket is in exactly one place:
\* on its way into the queue, in it, in the hands of one worker, freed, or
\* lost to a failed malloc.
OneOwner ==
  /\ Queued \cup Held \cup Pushing \cup freed \cup dropped = 1..nrecv
  /\ Queued \cap (Held \cup Pushing \cup freed \cup dropped) = {}
  /\ Held \cap (Pushing \cup freed \cup dropped) = {}
  /\ Pushing \cap (freed \cup dropped) = {}
  /\ freed \cap dropped = {}
  /\ \A j, k \in DOMAIN list : j < k => list[j] < list[k]
  /\ \A v, w \in Workers : item[v] = item[w] /\ item[v] # NULL => v = w

\* The callback ran once for a message when its memory is released, and for
\* no message that is still queued or was dropped.
CalledOnce ==
  \A i \in Items :
    calls[i] = IF i \in freed \/ \E w \in Workers : item[w] = i /\ pc[w] = "free"
               THEN 1 ELSE 0

Claimants == {w \in Workers : pc[w] \in {"size", "lock", "pop"}}
Returned  == {w \in Workers : pc[w] \in {"unlockNull", "returned"}}
Unposted  == IF pc[Loop] \in {"count", "unlock", "post"} THEN 1 ELSE 0
Tokens    == m_sem + Cardinality(Claimants) + Unposted

\* Tokens and messages balance: a queued message always has a token for it,
\* in the semaphore, with a worker that passed swait or about to be posted,
\* and what exceeds the queue was brought in by interrupted sem_waits and by
\* nodes without memory, of which each is used up by at most one worker that
\* leaves.
TokenBalance ==
  /\ Len(list) <= Tokens
  /\ Tokens - Len(list) + Cardinality(Returned) <= intr + missed

\* A data thread leaves Server_Process only if a sem_wait was interrupted or
\* there was no memory for a node, and each time costs at most one thread.
\* Without either, pop never returns NULL.
LostWorkers == Cardinality(Returned) <= intr + missed

Unserved(b) == {a \in 1..(b - 1) : calls[a] = 0 /\ a \notin dropped}

\* A message may be served before an older one, but the older ones are then
\* in the hands of other workers: fewer than there are workers.
BoundedOvertaking ==
  \A b \in Items : calls[b] > 0 =>
    /\ Unserved(b) \subseteq Held
    /\ Cardinality(Unserved(b)) < Cardinality(Workers)

\* Every message in the queue is served, as long as sem_waits interrupted and
\* nodes missed are together fewer than the data threads.
EveryMessageServed == \A i \in Items : i \in Queued ~> calls[i] = 1

\* The queue is a work queue: taken means popped, finished means that the
\* callback has returned.
WQ == INSTANCE WorkQueue WITH
        Jobs    <- Items,
        pending <- list,
        active  <- {i \in Held : calls[i] = 0},
        done    <- {i \in Items : calls[i] > 0}

\* The locked queue and its semaphore implement the abstract work queue,
\* progress included.
ImplementsWorkQueue == WQ!FairSpec

=============================================================================
