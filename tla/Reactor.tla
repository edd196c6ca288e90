------------------------------- MODULE Reactor -------------------------------
(***************************************************************************)
(* The epoll thread of the server and the connection objects it manages:   *)
(* Server_Loop, epollEvent_wait and its callback, Server_Accept,           *)
(* event_read, event_write, the connection pool - and the data threads     *)
(* that answer a message with ServerSend while the loop runs.              *)
(*                                                                         *)
(* The receive queue is the abstract work queue that RecvQueue implements. *)
(* Every access to state both kinds of threads share (the fields of a      *)
(* ConnObj, the registrations, the first slot of the epoll_event array,    *)
(* which add and modify use as their argument) is a step of its own.       *)
(***************************************************************************)
EXTENDS Sockets, Integers, Sequences, SequencesExt

CONSTANTS
  Conns,       \* the ConnObjs malloc can provide
  Senders,     \* the data threads, whose procread calls ServerSend
  Listener,    \* the ConnObj of the listening socket
  AddMayFail   \* whether epoll_ctl may refuse a new socket

ASSUME ReactorAssumption ==
  /\ IsFiniteSet(Conns) /\ Listener \notin Conns
  /\ IsFiniteSet(Senders)
  /\ None \notin Conns \cup {Listener}
  /\ AddMayFail \in BOOLEAN

VARIABLES
  obj,         \* the fields of every ConnObj
  pool,        \* connmgr's queue of ConnObjs to reuse
  fresh,       \* ConnObjs not yet allocated
  rqueue,      \* Items read and not yet taken by a data thread
  slot,        \* evb->event[0]
  batch,       \* evb->event[i], ..., as filled by the last epoll_wait
  first,       \* the loop stands at event[0], not at the head of batch
  events,      \* epollEvent_wait's local variable events
  pc,          \* where the loop is
  half,        \* which of the two callbacks for an entry runs
  conn,        \* the callback's _connobj
  spc,         \* where each data thread is
  item,        \* the Item each data thread works on
  got          \* the clients whose replies were written to a connection

loopVars   == <<batch, first, events, pc, half, conn>>
senderVars == <<spc, item>>
objVars    == <<obj, pool, fresh>>
vars == <<socketVars, objVars, rqueue, slot, loopVars, senderVars, got>>

NoFd == -1

ConnObj ==
  [fd       : Fds \cup {NoFd},
   activity : {"CONNECTING", "CONNECTED", "CONNCLOSED"},
   sendptr  : Clients \cup {None},     \* whom the data is meant for
   sendlen  : BOOLEAN]                 \* sendlen > 0

Event == [events : SUBSET {"IN", "OUT", "RDHUP", "HUP", "ERR"},
          ptr    : Conns \cup {Listener}]

Item == [connobj : Conns, from : Clients]

\* None is neither an event nor an Item.
ASSUME NoneAssumption == None \notin Event \cup Item

EpollEvent(e, c) == [events |-> e, ptr |-> c]

\* A client's registration, and the listening socket's, as Server_Listen
\* left it in event[0].
Init ==
  /\ SocketsInit
  /\ obj = [c \in Conns |-> [fd |-> NoFd, activity |-> "CONNCLOSED",
                             sendptr |-> None, sendlen |-> FALSE]]
  /\ pool = <<>> /\ fresh = Conns
  /\ rqueue = <<>>
  /\ slot = EpollEvent({"IN"}, Listener)
  /\ batch = <<>> /\ first = TRUE /\ events = {}
  /\ pc = "wait" /\ half = "in" /\ conn = Listener
  /\ spc = [s \in Senders |-> "take"]
  /\ item = [s \in Senders |-> None]
  /\ got = [k \in Clients |-> {}]

-----------------------------------------------------------------------------
(* epollEvent_wait                                                         *)

Entry == IF first THEN slot ELSE Head(batch)

\* Seeded fault: only the first entry epoll_wait returned is handled.
BadNextEntry ==
  /\ batch' = <<>> /\ first' = TRUE
  /\ pc' = "wait"

\* Go on to the next entry of the array, or back to epoll_wait.
NextEntry ==
  LET rest == IF first THEN batch ELSE Tail(batch)
  IN  /\ batch' = rest
      /\ first' = (rest = <<>>)
      /\ pc' = IF rest = <<>> THEN "wait" ELSE "out"

\* The callback returns to the place in the loop body it was called from.
Return ==
  \/ half = "out" /\ pc' = "in" /\ UNCHANGED <<batch, first>>
  \/ half = "in" /\ NextEntry

\* epoll_wait stores what is ready, in any order, from event[0] on.
\* Descriptor 0 stands for the listening socket.
EpollWait ==
  /\ pc = "wait"
  /\ LET waiting  == Reportable \cup (IF Backlog # {} THEN {0} ELSE {})
         Stored(f) == IF f = 0 THEN EpollEvent({"IN"}, Listener)
                      ELSE EpollEvent(Wanted(f, reg[f].events), reg[f].ptr)
     IN  \E order \in SetToSeqs(waiting) :
           /\ order # <<>>
           /\ slot' = Stored(Head(order))
           /\ batch' = [i \in 1..Len(order) - 1 |-> Stored(order[i + 1])]
  /\ ready' = {}
  /\ first' = TRUE /\ events' = {}
  /\ pc' = "out"
  /\ UNCHANGED <<sock, fdtab, reg, objVars, rqueue, half, conn, senderVars, got>>

Callback(h) ==
  /\ conn' = Entry.ptr
  /\ half' = h
  /\ pc' = IF Entry.ptr = Listener THEN "accept" ELSE "sockopt"
  /\ UNCHANGED <<batch, first>>

\* The first half of the loop body.  events is never reset between entries.
LoopOut ==
  /\ pc = "out"
  /\ IF Entry.events \cap {"OUT", "HUP"} # {}
     THEN events' = events \cup {"WRITE"} /\ Callback("out")
     ELSE pc' = "in" /\ UNCHANGED <<batch, first, events, half, conn>>
  /\ UNCHANGED <<socketVars, objVars, rqueue, slot, senderVars, got>>

\* The second half, which looks at the entry again.
LoopIn ==
  /\ pc = "in"
  /\ LET seen == events \cup (IF "ERR" \in Entry.events THEN {"ERR"} ELSE {})
     IN  IF Entry.events \cap {"IN", "HUP"} # {}
         THEN events' = seen \cup {"READ"} /\ Callback("in")
         ELSE events' = seen /\ NextEntry /\ UNCHANGED <<half, conn>>
  /\ UNCHANGED <<socketVars, objVars, rqueue, slot, senderVars, got>>

-----------------------------------------------------------------------------
(* connmgr: getConn and setConn.  Only the loop calls them.                *)

connobjReset(c) == [obj[c] EXCEPT !.activity = "CONNCLOSED", !.sendlen = FALSE]

setConn(c) ==
  /\ obj' = [obj EXCEPT ![c] = connobjReset(c)]
  /\ pool' = Append(pool, c)
  /\ UNCHANGED fresh

\* Seeded fault: the pool's head is handed out and stays in the pool.
BadGetPeek(c) ==
  \/ pool # <<>> /\ c = Head(pool) /\ UNCHANGED <<pool, fresh>>
  \/ pool = <<>> /\ c \in fresh /\ fresh' = fresh \ {c} /\ UNCHANGED pool

\* Take from the pool, or allocate; Init has the fields of a new ConnObj.
getConn(c) ==
  \/ pool # <<>> /\ c = Head(pool) /\ pool' = Tail(pool) /\ UNCHANGED fresh
  \/ pool = <<>> /\ c \in fresh /\ fresh' = fresh \ {c} /\ UNCHANGED pool

-----------------------------------------------------------------------------
(* Server_Accept and epollEvent_addConn                                    *)

\* accept, a ConnObj, and the first half of add.  A ConnObj of the pool was
\* reset when it got there; what a data thread did to it since then stays.
Accept ==
  /\ pc = "accept" /\ FreeFds # {}
  /\ \E k \in Backlog, c \in Conns :
       /\ sys_accept(k, Min(FreeFds))
       /\ getConn(c)
       /\ obj' = [obj EXCEPT ![c].fd = Min(FreeFds), ![c].activity = "CONNECTING"]
       /\ conn' = c
       /\ slot' = EpollEvent({"IN", "RDHUP"}, c)
  /\ pc' = "add"
  /\ UNCHANGED <<rqueue, batch, first, events, half, senderVars, got>>

\* Seeded fault: getConn's result is not tested for NULL.
BadAcceptNull ==
  /\ pc = "accept" /\ FreeFds # {}
  /\ pool = <<>> /\ fresh = {}
  /\ \E k \in Backlog : sys_accept(k, Min(FreeFds))
  /\ conn' = None
  /\ pc' = "add"
  /\ UNCHANGED <<objVars, rqueue, slot, batch, first, events, half, senderVars, got>>

\* No ConnObj could be allocated: the new socket is closed.
AcceptNoMemory ==
  /\ pc = "accept" /\ FreeFds # {}
  /\ pool = <<>> /\ fresh = {}
  /\ \E k \in Backlog : sys_refuse(k)
  /\ Return
  /\ UNCHANGED <<objVars, rqueue, slot, events, half, conn, senderVars, got>>

\* accept failed: EMFILE, and the connection stays in the backlog, or EAGAIN,
\* because the callback was reached with nobody waiting.
AcceptFails ==
  /\ pc = "accept" /\ (FreeFds = {} \/ Backlog = {})
  /\ Return
  /\ UNCHANGED <<socketVars, objVars, rqueue, slot, events, half, conn, senderVars, got>>

\* The second half of add passes whatever event[0] holds by now.
Add ==
  /\ pc = "add"
  /\ sys_ctl(obj[conn].fd, slot)
  /\ pc' = "sockopt"
  /\ UNCHANGED <<objVars, rqueue, slot, batch, first, events, half, conn, senderVars, got>>

\* Seeded faults: the error path does not close the socket, or the result of
\* epoll_ctl is not looked at.
BadAddFails ==
  /\ pc = "add" /\ AddMayFail
  /\ setConn(conn)
  /\ Return
  /\ UNCHANGED <<socketVars, rqueue, slot, events, half, conn, senderVars, got>>

BadAddUnchecked ==
  /\ pc = "add" /\ AddMayFail
  /\ pc' = "sockopt"
  /\ UNCHANGED <<socketVars, objVars, rqueue, slot, batch, first, events, half, conn,
                 senderVars, got>>

\* epoll_ctl refused it: the ConnObj goes to the pool, the socket is closed.
\* Unlike ReadEof this leaves the number of the closed descriptor in fd.
AddFails ==
  /\ pc = "add" /\ AddMayFail
  /\ setConn(conn)
  /\ sys_close(obj[conn].fd)
  /\ Return
  /\ UNCHANGED <<rqueue, slot, events, half, conn, senderVars, got>>

-----------------------------------------------------------------------------
(* epollEvent_callback                                                     *)

AfterRead == IF "WRITE" \in events THEN pc' = "write" /\ UNCHANGED <<batch, first>>
                                   ELSE Return

Dispatch == pc' = IF "READ" \in events THEN "read" ELSE "write"

\* getsockopt(SO_ERROR) tells a dead connection from a good one.
SockoptOk ==
  /\ pc = "sockopt" /\ Open(obj[conn].fd)
  /\ ~ sock[fdtab[obj[conn].fd]].err
  /\ obj' = [obj EXCEPT ![conn].activity = "CONNECTED"]
  /\ Dispatch
  /\ UNCHANGED <<socketVars, pool, fresh, rqueue, slot, batch, first, events, half,
                 conn, senderVars, got>>

\* The descriptor is closed, fd keeps its number, and the events are handled
\* all the same.
SockoptError ==
  /\ pc = "sockopt" /\ Open(obj[conn].fd)
  /\ sock[fdtab[obj[conn].fd]].err
  /\ obj' = [obj EXCEPT ![conn].activity = "CONNCLOSED"]
  /\ sys_close(obj[conn].fd)
  /\ Dispatch
  /\ UNCHANGED <<pool, fresh, rqueue, slot, batch, first, events, half, conn,
                 senderVars, got>>

\* Seeded fault: the early return after a failed getsockopt is missing.
BadSockoptGoesOn ==
  /\ pc = "sockopt" /\ ~ Open(obj[conn].fd)
  /\ Dispatch
  /\ UNCHANGED <<socketVars, objVars, rqueue, slot, batch, first, events, half, conn,
                 senderVars, got>>

SockoptFails ==
  /\ pc = "sockopt" /\ ~ Open(obj[conn].fd)
  /\ Return
  /\ UNCHANGED <<socketVars, objVars, rqueue, slot, events, half, conn, senderVars, got>>

-----------------------------------------------------------------------------
(* event_read and readData.                                                *)

Reading == pc \in {"read", "reread"}
Sock    == sock[fdtab[obj[conn].fd]]

\* read returned bytes: one Item for the receive queue.
Read ==
  /\ Reading /\ Open(obj[conn].fd) /\ Sock.data
  /\ sock' = [sock EXCEPT ![fdtab[obj[conn].fd]].data = FALSE]
  /\ pc' = "push"
  /\ UNCHANGED <<fdtab, reg, ready, objVars, rqueue, slot, batch, first, events, half,
                 conn, senderVars, got>>

\* The bytes filled the buffer exactly, so readData reads once more.
ReadFull ==
  /\ pc = "read" /\ Open(obj[conn].fd) /\ Sock.data
  /\ sock' = [sock EXCEPT ![fdtab[obj[conn].fd]].data = FALSE]
  /\ pc' = "reread"
  /\ UNCHANGED <<fdtab, reg, ready, objVars, rqueue, slot, batch, first, events, half,
                 conn, senderVars, got>>

\* ECONNRESET is neither EINTR nor EAGAIN: the loop of readData goes on.
ReadReset ==
  /\ Reading /\ Open(obj[conn].fd) /\ ~ Sock.data /\ Sock.err
  /\ sock' = [sock EXCEPT ![fdtab[obj[conn].fd]].err = FALSE]
  /\ UNCHANGED <<fdtab, reg, ready, objVars, rqueue, slot, loopVars, senderVars, got>>

\* Seeded fault: EAGAIN is retried like EINTR.
BadReadAgain ==
  /\ Reading /\ Open(obj[conn].fd)
  /\ ~ (Sock.data \/ Sock.err \/ Sock.fin \/ Sock.rst)
  /\ UNCHANGED vars

\* EAGAIN: -2, and what the first read stored is forgotten.
ReadAgain ==
  /\ Reading /\ Open(obj[conn].fd)
  /\ ~ (Sock.data \/ Sock.err \/ Sock.fin \/ Sock.rst)
  /\ AfterRead
  /\ UNCHANGED <<socketVars, objVars, rqueue, slot, events, half, conn, senderVars, got>>

\* Seeded faults: the end of file path forgets connmgr->set, or close, or
\* gives the ConnObj back twice.
BadEofNoSet ==
  /\ Reading /\ Open(obj[conn].fd)
  /\ ~ (Sock.data \/ Sock.err) /\ (Sock.fin \/ Sock.rst)
  /\ sys_close(obj[conn].fd)
  /\ obj' = [obj EXCEPT ![conn] = [connobjReset(conn) EXCEPT !.fd = NoFd]]
  /\ AfterRead
  /\ UNCHANGED <<pool, fresh, rqueue, slot, events, half, conn, senderVars, got>>

BadEofNoClose ==
  /\ Reading /\ Open(obj[conn].fd)
  /\ ~ (Sock.data \/ Sock.err) /\ (Sock.fin \/ Sock.rst)
  /\ setConn(conn)
  /\ AfterRead
  /\ UNCHANGED <<socketVars, rqueue, slot, events, half, conn, senderVars, got>>

BadEofSetTwice ==
  /\ Reading /\ Open(obj[conn].fd)
  /\ ~ (Sock.data \/ Sock.err) /\ (Sock.fin \/ Sock.rst)
  /\ sys_close(obj[conn].fd)
  /\ obj' = [obj EXCEPT ![conn] = [connobjReset(conn) EXCEPT !.fd = NoFd]]
  /\ pool' = pool \o <<conn, conn>>
  /\ AfterRead
  /\ UNCHANGED <<fresh, rqueue, slot, events, half, conn, senderVars, got>>

\* End of file: del, close and connmgr->set.
ReadEof ==
  /\ Reading /\ Open(obj[conn].fd)
  /\ ~ (Sock.data \/ Sock.err) /\ (Sock.fin \/ Sock.rst)
  /\ sys_close(obj[conn].fd)
  /\ obj' = [obj EXCEPT ![conn] = [connobjReset(conn) EXCEPT !.fd = NoFd]]
  /\ pool' = Append(pool, conn)
  /\ AfterRead
  /\ UNCHANGED <<fresh, rqueue, slot, events, half, conn, senderVars, got>>

\* EBADF is none of these either: readData never returns.
ReadForever ==
  /\ Reading /\ ~ Open(obj[conn].fd)
  /\ pc' = "forever"
  /\ UNCHANGED <<socketVars, objVars, rqueue, slot, batch, first, events, half, conn,
                 senderVars, got>>

Push ==
  /\ pc = "push"
  /\ rqueue' = Append(rqueue, [connobj |-> conn, from |-> fdtab[obj[conn].fd]])
  /\ AfterRead
  /\ UNCHANGED <<socketVars, objVars, slot, events, half, conn, senderVars, got>>

\* malloc(Item) failed.
PushNoMemory ==
  /\ pc = "push"
  /\ AfterRead
  /\ UNCHANGED <<socketVars, objVars, rqueue, slot, events, half, conn, senderVars, got>>

-----------------------------------------------------------------------------
(* event_write, sendData and epollEvent_modifyConn.                        *)

\* The first half of modify: event[0] is filled in ...
Modify(e) ==
  /\ slot' = EpollEvent(e, conn)
  /\ pc' = "modify"
  /\ UNCHANGED <<batch, first>>

HasReply == obj[conn].sendptr # None /\ obj[conn].sendlen

NoReply ==
  /\ pc = "write" /\ ~ HasReply
  /\ Return
  /\ UNCHANGED <<socketVars, objVars, rqueue, slot, events, half, conn, senderVars, got>>

\* write took part of the data: sendData returns 0, the whole is freed.
WritePart ==
  /\ pc = "write" /\ HasReply /\ Open(obj[conn].fd) /\ ~ Sock.rst /\ Sock.room
  /\ sock' = [sock EXCEPT ![fdtab[obj[conn].fd]].room = FALSE]
  /\ got' = [got EXCEPT ![fdtab[obj[conn].fd]] = @ \cup {obj[conn].sendptr}]
  /\ pc' = "free"
  /\ UNCHANGED <<fdtab, reg, ready, objVars, rqueue, slot, batch, first, events, half,
                 conn, senderVars>>

\* write took all of it: len stays what it was and all of it is sent again.
WriteAll ==
  /\ pc = "write" /\ HasReply /\ Open(obj[conn].fd) /\ ~ Sock.rst /\ Sock.room
  /\ \E room \in BOOLEAN : sock' = [sock EXCEPT ![fdtab[obj[conn].fd]].room = room]
  /\ got' = [got EXCEPT ![fdtab[obj[conn].fd]] = @ \cup {obj[conn].sendptr}]
  /\ UNCHANGED <<fdtab, reg, ready, objVars, rqueue, slot, loopVars, senderVars>>

\* EAGAIN: -2, the data stays, the loop asks for the next EPOLLOUT.
WriteAgain ==
  /\ pc = "write" /\ HasReply /\ Open(obj[conn].fd) /\ ~ Sock.rst /\ ~ Sock.room
  /\ Modify({"OUT"})
  /\ UNCHANGED <<socketVars, objVars, rqueue, events, half, conn, senderVars, got>>

\* EBADF, or the pending error of the socket: -1, and the data stays too.
WriteError ==
  /\ pc = "write" /\ HasReply
  /\ \/ ~ Open(obj[conn].fd) /\ UNCHANGED sock
     \/ /\ Open(obj[conn].fd) /\ Sock.rst /\ Sock.err
        /\ sock' = [sock EXCEPT ![fdtab[obj[conn].fd]].err = FALSE]
  /\ Modify({"IN"})
  /\ UNCHANGED <<fdtab, reg, ready, objVars, rqueue, events, half, conn, senderVars, got>>

\* A write after that raises SIGPIPE, which nobody handles: the process ends.
WriteKilled ==
  /\ pc = "write" /\ HasReply /\ Open(obj[conn].fd) /\ Sock.rst /\ ~ Sock.err
  /\ pc' = "killed"
  /\ UNCHANGED <<socketVars, objVars, rqueue, slot, batch, first, events, half, conn,
                 senderVars, got>>

\* CStr_Free(connobj->sendptr), whatever it points to by now.
FreeReply ==
  /\ pc = "free"
  /\ obj' = [obj EXCEPT ![conn].sendptr = None, ![conn].sendlen = FALSE]
  /\ Modify({"IN"})
  /\ UNCHANGED <<socketVars, pool, fresh, rqueue, events, half, conn, senderVars, got>>

\* ... and the second half hands event[0] to epoll_ctl, which fails for a
\* descriptor that is not registered.
ModifyCtl(c) ==
  IF Open(obj[c].fd) /\ reg[obj[c].fd] # None
  THEN sys_ctl(obj[c].fd, slot)
  ELSE UNCHANGED socketVars

LoopModify ==
  /\ pc = "modify"
  /\ ModifyCtl(conn)
  /\ Return
  /\ UNCHANGED <<objVars, rqueue, slot, events, half, conn, senderVars, got>>

-----------------------------------------------------------------------------
(* ServerSend, called from procread in a data thread.                      *)

SGoto(s, from, to) == spc[s] = from /\ spc' = [spc EXCEPT ![s] = to]

Take(s) ==
  /\ rqueue # <<>>
  /\ SGoto(s, "take", "check")
  /\ item' = [item EXCEPT ![s] = Head(rqueue)]
  /\ rqueue' = Tail(rqueue)
  /\ UNCHANGED <<socketVars, objVars, slot, loopVars, got>>

\* if (connobj->activity == SOCKET_CONNECTED)
Check(s) ==
  /\ spc[s] = "check"
  /\ IF obj[item[s].connobj].activity = "CONNECTED"
     THEN SGoto(s, "check", "ptr") /\ UNCHANGED item
     ELSE SGoto(s, "check", "take") /\ item' = [item EXCEPT ![s] = None]
  /\ UNCHANGED <<socketVars, objVars, rqueue, slot, loopVars, got>>

SetPtr(s) ==
  /\ SGoto(s, "ptr", "len")
  /\ obj' = [obj EXCEPT ![item[s].connobj].sendptr = item[s].from]
  /\ UNCHANGED <<socketVars, pool, fresh, rqueue, slot, loopVars, item, got>>

SetLen(s) ==
  /\ SGoto(s, "len", "event")
  /\ obj' = [obj EXCEPT ![item[s].connobj].sendlen = TRUE]
  /\ UNCHANGED <<socketVars, pool, fresh, rqueue, slot, loopVars, item, got>>

SetEvent(s) ==
  /\ SGoto(s, "event", "ctl")
  /\ slot' = EpollEvent({"OUT"}, item[s].connobj)
  /\ UNCHANGED <<socketVars, objVars, rqueue, loopVars, item, got>>

SendCtl(s) ==
  /\ SGoto(s, "ctl", "take")
  /\ ModifyCtl(item[s].connobj)
  /\ item' = [item EXCEPT ![s] = None]
  /\ UNCHANGED <<objVars, rqueue, slot, loopVars, got>>

-----------------------------------------------------------------------------
LoopStep ==
  \/ EpollWait \/ LoopOut \/ LoopIn
  \/ Accept \/ AcceptNoMemory \/ AcceptFails \/ Add \/ AddFails
  \/ SockoptOk \/ SockoptError \/ SockoptFails
  \/ Read \/ ReadFull \/ ReadReset \/ ReadAgain \/ ReadEof \/ ReadForever
  \/ Push \/ PushNoMemory
  \/ NoReply \/ WritePart \/ WriteAll \/ WriteAgain \/ WriteError \/ WriteKilled
  \/ FreeReply \/ LoopModify

SenderStep(s) ==
  /\ pc # "killed"
  /\ Take(s) \/ Check(s) \/ SetPtr(s) \/ SetLen(s) \/ SetEvent(s) \/ SendCtl(s)

ClientMoves ==
  ClientStep /\ UNCHANGED <<objVars, rqueue, slot, loopVars, senderVars, got>>

Next == LoopStep \/ ClientMoves \/ \E s \in Senders : SenderStep(s)

Spec == Init /\ [][Next]_vars

\* The loop thread runs on, and so does every data thread.  Nothing obliges a
\* client to do anything.
FairSpec ==
  /\ Spec
  /\ WF_vars(LoopStep)
  /\ \A s \in Senders : WF_vars(SenderStep(s))

-----------------------------------------------------------------------------
(* Properties.                                                             *)

Labels == {"wait", "out", "in", "accept", "add", "sockopt", "read", "reread", "push",
           "write", "free", "modify", "forever", "killed"}

\* Every variable keeps the shape its C counterpart has.
TypeOK ==
  /\ sock \in [Clients -> Socket]
  /\ fdtab \in [Fds -> Clients \cup {None}]
  /\ reg \in [Fds -> Event \cup {None}]
  /\ ready \subseteq Fds
  /\ obj \in [Conns -> ConnObj]
  /\ pool \in Seq(Conns) /\ fresh \subseteq Conns
  /\ rqueue \in Seq(Item)
  /\ slot \in Event /\ batch \in Seq(Event)
  /\ first \in BOOLEAN /\ events \subseteq {"READ", "WRITE", "ERR"}
  /\ pc \in Labels /\ half \in {"out", "in"} /\ conn \in Conns \cup {Listener}
  /\ spc \in [Senders -> {"take", "check", "ptr", "len", "event", "ctl"}]
  /\ item \in [Senders -> Item \cup {None}]
  /\ \A s \in Senders : item[s] = None <=> spc[s] = "take"
  /\ got \in [Clients -> SUBSET Clients]

Pooled == {pool[i] : i \in DOMAIN pool}
Owner(f) == {c \in Conns \ (Pooled \cup fresh) :
               obj[c].fd = f /\ obj[c].activity # "CONNCLOSED"}

\* An open socket belongs to exactly one ConnObj, which is not in the pool,
\* and a ConnObj that is marked connected has an open socket.
OneOwner ==
  /\ \A f \in Fds : Open(f) => Cardinality(Owner(f)) = 1
  /\ \A c \in Conns : obj[c].activity # "CONNCLOSED" => Open(obj[c].fd)

\* The pool holds each ConnObj once, and only ConnObjs that are at rest.
PoolSound ==
  /\ IsInjective(pool)
  /\ Pooled \cap fresh = {}
  /\ \A c \in Pooled \cup fresh : obj[c].activity = "CONNCLOSED"

\* epoll watches every open socket, under the ConnObj that owns it.
Watched ==
  \A f \in Fds :
    /\ reg[f] # None => Open(f) /\ reg[f].ptr \in Owner(f)
    /\ Open(f) => (reg[f] # None \/ (pc = "add" /\ conn \in Owner(f)))

NobodyReset == \A k \in Clients : ~ sock[k].rst
InPlace     == \A c \in Conns : c \in Pooled \cup fresh \/ obj[c].activity # "CONNCLOSED"

\* As long as nobody resets a connection, every ConnObj is free or serves an
\* open socket.
NoneLost == NobodyReset => InPlace

\* As long as nobody resets a connection, the loop neither hangs in readData
\* nor dies of SIGPIPE, although data threads write to closing connections.
LoopSurvives == NobodyReset => pc \notin {"forever", "killed"}

\* Even with resets, data threads at any point of ServerSend and descriptors
\* that are reused, every open socket is still known to a ConnObj in use.
NoOrphan ==
  \A f \in Fds : Open(f) => \E c \in Conns \ (Pooled \cup fresh) : obj[c].fd = f

\* A connection that waits in the backlog is accepted.
EveryClientAccepted ==
  \A k \in Clients : sock[k].state = "backlog" ~> sock[k].state \in {"open", "closed"}

\* What a client sent is read: the edge is never lost, although it may come
\* between the read and the next epoll_wait.
EveryByteRead ==
  \A k \in Clients : (sock[k].state = "open" /\ sock[k].data)
                      ~> (~ sock[k].data \/ sock[k].state = "closed")

\* The end of a connection is noticed and its socket closed, if there was
\* no data left to read with it.
EndSeen ==
  \A f \in Fds, k \in Clients :
    (fdtab[f] = k /\ f \in ready /\ sock[k].fin /\ ~ sock[k].data)
      ~> sock[k].state = "closed"

-----------------------------------------------------------------------------
(* What comments and messages of the code say, and the code does not do.   *)

\* connmgr.h:30: SOCKET_CONNCLOSED means "closed": nothing is read from it.
ClosedNotRead == Reading => obj[conn].activity # "CONNCLOSED"

\* epoll.h:34: "called back when epoll_wait comes": an event that is pending
\* for a connection with unread data leads to the read of the data.
EventCalledBack ==
  \A f \in Fds, k \in Clients :
    (fdtab[f] = k /\ f \in ready /\ sock[k].data)
      ~> (~ sock[k].data \/ sock[k].state = "closed")

\* test_server.c:91: the reply is sent on the connobj the data came with, so
\* nobody gets a reply that was meant for somebody else.
RepliesReachAsker == \A k \in Clients : got[k] \subseteq {k}

=============================================================================
