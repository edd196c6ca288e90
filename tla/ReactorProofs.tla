----------------------------- MODULE ReactorProofs -----------------------------
(***************************************************************************)
(* Proofs about the reactor, for any number of clients, descriptors,       *)
(* ConnObjs and data threads.                                              *)
(***************************************************************************)
EXTENDS Reactor, QueueLemmas

USE SocketAssumption, ReactorAssumption, NoneAssumption
    DEF SocketAssumption, ReactorAssumption

-----------------------------------------------------------------------------
(* Operators.                                                              *)

\* The kernel hands out the lowest free descriptor, and there is one.
LEMMA LeastOf ==
  ASSUME NEW S, S \subseteq Nat, S # {}
  PROVE  Min(S) \in S
  BY SmallestOf DEF Min

LEMMA FreeFd == FreeFds # {} => Min(FreeFds) \in Fds /\ fdtab[Min(FreeFds)] = None
<1>1. FreeFds \subseteq Nat
  BY DEF FreeFds
<1>2. FreeFds # {} => Min(FreeFds) \in FreeFds
  BY <1>1, LeastOf
<1> QED
  BY <1>2 DEF FreeFds

-----------------------------------------------------------------------------
(* Types.                                                                  *)

SocketTypes ==
  /\ sock \in [Clients -> Socket]
  /\ fdtab \in [Fds -> Clients \cup {None}]
  /\ reg \in [Fds -> Event \cup {None}]
  /\ ready \subseteq Fds

ObjTypes == obj \in [Conns -> ConnObj] /\ pool \in Seq(Conns) /\ fresh \subseteq Conns

LoopTypes ==
  /\ slot \in Event /\ batch \in Seq(Event)
  /\ first \in BOOLEAN /\ events \subseteq {"READ", "WRITE", "ERR"}
  /\ pc \in Labels /\ half \in {"out", "in"} /\ conn \in Conns \cup {Listener}

SenderTypes ==
  /\ rqueue \in Seq(Item)
  /\ spc \in [Senders -> {"take", "check", "ptr", "len", "event", "ctl"}]
  /\ item \in [Senders -> Item \cup {None}]
  /\ \A s \in Senders : item[s] = None <=> spc[s] = "take"
  /\ got \in [Clients -> SUBSET Clients]

\* Only a registered descriptor is ready.
Reported == \A f \in ready : reg[f] # None

\* The loop body has an entry to look at.
AtEntry == first \/ batch # <<>>

\* The callback works on a ConnObj, and on an open one where it relies on it.
InHand ==
  /\ pc \notin {"wait", "out", "in", "accept"} => conn \in Conns
  /\ pc \in {"add", "push"} => Open(obj[conn].fd)

RInv == SocketTypes /\ ObjTypes /\ LoopTypes /\ SenderTypes /\ Reported /\ AtEntry /\ InHand

LEMMA ReactorInit == Init => RInv
<1> SUFFICES ASSUME Init
             PROVE  RInv
  OBVIOUS
<1> USE DEF Init, SocketsInit
<1>1. SocketTypes /\ Reported
  BY DEF SocketTypes, Reported, Socket
<1>2. ObjTypes
  BY DEF ObjTypes, ConnObj
<1>3. LoopTypes /\ AtEntry /\ InHand
  BY DEF LoopTypes, AtEntry, InHand, Labels, Event, EpollEvent
<1>4. SenderTypes
  BY DEF SenderTypes
<1> QED
  BY <1>1, <1>2, <1>3, <1>4 DEF RInv

\* What the steps of the server do to a socket.
LEMMA SockStep ==
  ASSUME sock \in [Clients -> Socket], NEW k \in Clients, NEW b \in BOOLEAN,
         \/ sock' = [sock EXCEPT ![k].data = b]
         \/ sock' = [sock EXCEPT ![k].err = b]
         \/ sock' = [sock EXCEPT ![k].room = b]
         \/ sock' = [sock EXCEPT ![k].fin = b]
         \/ sock' = [sock EXCEPT ![k].rst = b, ![k].err = b]
         \/ sock' = [sock EXCEPT ![k].state = "open"]
         \/ sock' = [sock EXCEPT ![k].state = "closed"]
         \/ sock' = [sock EXCEPT ![k].state = "backlog"]
         \/ sock[k].sends > 0 /\ sock' = [sock EXCEPT ![k].data = b, ![k].sends = @ - 1]
  PROVE  sock' \in [Clients -> Socket]
<1>1. sock[k] \in Socket
  OBVIOUS
<1>2. PICK r : sock' = [sock EXCEPT ![k] = r] /\ r \in Socket
  BY <1>1 DEF Socket
<1> QED
  BY <1>2

LEMMA SysClose ==
  ASSUME SocketTypes, Reported, NEW f, Open(f), sys_close(f)
  PROVE  SocketTypes' /\ Reported'
<1>1. f \in Fds /\ fdtab[f] \in Clients
  BY DEF Open, SocketTypes
<1>2. sock' \in [Clients -> Socket]
  BY <1>1, SockStep DEF SocketTypes, sys_close
<1> QED
  BY <1>1, <1>2 DEF SocketTypes, Reported, sys_close

LEMMA SysCtl ==
  ASSUME SocketTypes, Reported, NEW f \in Fds, NEW e \in Event, sys_ctl(f, e)
  PROVE  SocketTypes' /\ Reported'
  BY DEF SocketTypes, Reported, sys_ctl

LEMMA ClientTypes ==
  ASSUME SocketTypes, Reported, ClientStep
  PROVE  SocketTypes' /\ Reported' /\ fdtab' = fdtab
<1>1. PICK k \in Clients : Connect(k) \/ Send(k) \/ Finish(k) \/ Reset(k) \/ Drain(k)
  BY DEF ClientStep
<1>2. fdtab' = fdtab /\ reg' = reg
  BY <1>1 DEF Connect, Send, Finish, Reset, Drain
<1>3. ready' \subseteq ready \cup {f \in Fds : reg[f] # None}
  BY <1>1 DEF Connect, Send, Finish, Reset, Drain, Edge
<1>4. sock' \in [Clients -> Socket]
  BY <1>1, SockStep DEF SocketTypes, Connect, Send, Finish, Reset, Drain
<1> QED
  BY <1>2, <1>3, <1>4 DEF SocketTypes, Reported

LEMMA SocketsNext ==
  ASSUME RInv, Next
  PROVE  SocketTypes' /\ Reported'
<1>0. SocketTypes /\ Reported
  BY DEF RInv
<1>1. CASE UNCHANGED socketVars
  BY <1>0, <1>1 DEF socketVars, SocketTypes, Reported
<1>2. CASE EpollWait
  BY <1>0, <1>2 DEF EpollWait, SocketTypes, Reported
<1>3. CASE Accept
  <2>1. PICK k \in Backlog : sys_accept(k, Min(FreeFds))
    BY <1>3 DEF Accept
  <2>2. k \in Clients /\ Min(FreeFds) \in Fds
    BY <1>3, FreeFd DEF Accept, Backlog
  <2>3. sock' \in [Clients -> Socket]
    BY <1>0, <2>1, <2>2, SockStep DEF SocketTypes, sys_accept
  <2> QED
    BY <1>0, <2>1, <2>2, <2>3 DEF SocketTypes, Reported, sys_accept
<1>4. CASE AcceptNoMemory
  <2>1. PICK k \in Backlog : sys_refuse(k)
    BY <1>4 DEF AcceptNoMemory
  <2>2. sock' \in [Clients -> Socket]
    BY <1>0, <2>1, SockStep DEF SocketTypes, sys_refuse, Backlog
  <2> QED
    BY <1>0, <2>1, <2>2 DEF SocketTypes, Reported, sys_refuse
<1>5. CASE Add
  BY <1>0, <1>5, SysCtl DEF Add, RInv, InHand, Open, LoopTypes
<1>6. CASE AddFails \/ SockoptError \/ ReadEof
  <2>1. Open(obj[conn].fd) /\ sys_close(obj[conn].fd)
    BY <1>6 DEF AddFails, SockoptError, ReadEof, RInv, InHand
  <2> QED
    BY <1>0, <2>1, SysClose
<1>7. CASE Read \/ ReadFull \/ ReadReset \/ WritePart \/ WriteAll \/ WriteError
  <2>1. UNCHANGED <<fdtab, reg, ready>>
    BY <1>7 DEF Read, ReadFull, ReadReset, WritePart, WriteAll, WriteError
  <2>2. \/ sock' = sock
        \/ /\ Open(obj[conn].fd)
           /\ \E b \in BOOLEAN :
                \/ sock' = [sock EXCEPT ![fdtab[obj[conn].fd]].data = b]
                \/ sock' = [sock EXCEPT ![fdtab[obj[conn].fd]].err = b]
                \/ sock' = [sock EXCEPT ![fdtab[obj[conn].fd]].room = b]
    BY <1>7 DEF Read, ReadFull, ReadReset, WritePart, WriteAll, WriteError
  <2>3. Open(obj[conn].fd) => fdtab[obj[conn].fd] \in Clients
    BY <1>0 DEF Open, SocketTypes
  <2>4. sock' \in [Clients -> Socket]
    BY <1>0, <2>2, <2>3, SockStep DEF SocketTypes
  <2> QED
    BY <1>0, <2>1, <2>4 DEF SocketTypes, Reported
<1>8. ASSUME NEW c \in Conns, ModifyCtl(c)
      PROVE  SocketTypes' /\ Reported'
  <2>1. CASE Open(obj[c].fd) /\ reg[obj[c].fd] # None
    BY <1>0, <1>8, <2>1, SysCtl DEF ModifyCtl, Open, RInv, LoopTypes
  <2>2. CASE ~ (Open(obj[c].fd) /\ reg[obj[c].fd] # None)
    BY <1>1, <1>8, <2>2 DEF ModifyCtl
  <2> QED
    BY <2>1, <2>2
<1>9. CASE LoopModify
  BY <1>8, <1>9 DEF LoopModify, RInv, InHand
<1>10. ASSUME NEW s \in Senders, SendCtl(s)
       PROVE  SocketTypes' /\ Reported'
  <2>1. item[s] \in Item
    BY <1>10 DEF SendCtl, SGoto, RInv, SenderTypes
  <2> QED
    BY <1>8, <1>10, <2>1 DEF SendCtl, Item
<1>11. CASE ClientMoves
  BY <1>0, <1>11, ClientTypes DEF ClientMoves
<1>12. CASE \/ LoopOut \/ LoopIn \/ AcceptFails \/ SockoptOk \/ SockoptFails
            \/ ReadAgain \/ ReadForever \/ Push \/ PushNoMemory
            \/ NoReply \/ WriteAgain \/ WriteKilled \/ FreeReply
  <2>1. UNCHANGED socketVars
    BY <1>12 DEF LoopOut, LoopIn, AcceptFails, SockoptOk, SockoptFails, ReadAgain,
                 ReadForever, Push, PushNoMemory, NoReply, WriteAgain, WriteKilled, FreeReply
  <2> QED
    BY <1>1, <2>1
<1>13. ASSUME NEW s \in Senders,
              Take(s) \/ Check(s) \/ SetPtr(s) \/ SetLen(s) \/ SetEvent(s)
       PROVE  SocketTypes' /\ Reported'
  BY <1>1, <1>13 DEF Take, Check, SetPtr, SetLen, SetEvent
<1>14. CASE LoopStep
  BY <1>2, <1>3, <1>4, <1>5, <1>6, <1>7, <1>9, <1>12, <1>14 DEF LoopStep
<1> QED
  BY <1>10, <1>11, <1>13, <1>14 DEF Next, SenderStep

LEMMA ObjectsNext ==
  ASSUME RInv, Next
  PROVE  ObjTypes'
<1>0. ObjTypes
  BY DEF RInv
<1>1. CASE UNCHANGED objVars
  BY <1>0, <1>1 DEF objVars, ObjTypes
<1>2. ASSUME NEW c \in Conns, obj' = [obj EXCEPT ![c] = connobjReset(c)]
      PROVE  obj' \in [Conns -> ConnObj]
  BY <1>0, <1>2 DEF ObjTypes, ConnObj, connobjReset
<1>3. CASE Accept
  <2>1. PICK c \in Conns : 
          /\ getConn(c)
          /\ obj' = [obj EXCEPT ![c].fd = Min(FreeFds), ![c].activity = "CONNECTING"]
    BY <1>3 DEF Accept
  <2>2. Min(FreeFds) \in Fds
    BY <1>3, FreeFd DEF Accept
  <2>3. obj' \in [Conns -> ConnObj]
    BY <1>0, <2>1, <2>2 DEF ObjTypes, ConnObj
  <2>4. pool' \in Seq(Conns) /\ fresh' \subseteq Conns
    <3>1. \/ pool # <<>> /\ pool' = Tail(pool) /\ fresh' = fresh
          \/ pool' = pool /\ fresh' = fresh \ {c}
      BY <2>1 DEF getConn
    <3> QED
      BY <1>0, <3>1 DEF ObjTypes
  <2> QED
    BY <2>3, <2>4 DEF ObjTypes
<1>4. CASE AddFails
  <2>1. conn \in Conns /\ setConn(conn)
    BY <1>4 DEF AddFails, RInv, InHand
  <2>2. pool' \in Seq(Conns) /\ fresh' \subseteq Conns
    BY <1>0, <2>1 DEF ObjTypes, setConn
  <2> QED
    BY <1>2, <2>1, <2>2 DEF ObjTypes, setConn
<1>5. CASE ReadEof
  <2>1. /\ conn \in Conns /\ pool' = Append(pool, conn) /\ UNCHANGED fresh
        /\ obj' = [obj EXCEPT ![conn] = [connobjReset(conn) EXCEPT !.fd = NoFd]]
    BY <1>5 DEF ReadEof, Reading, RInv, InHand
  <2>2. obj' \in [Conns -> ConnObj]
    BY <1>0, <2>1 DEF ObjTypes, ConnObj, connobjReset
  <2> QED
    BY <1>0, <2>1, <2>2 DEF ObjTypes
<1>6. CASE SockoptOk \/ SockoptError \/ FreeReply
  <2>1. UNCHANGED <<pool, fresh>> /\ conn \in Conns
    BY <1>6 DEF SockoptOk, SockoptError, FreeReply, RInv, InHand
  <2>2. \/ obj' = [obj EXCEPT ![conn].activity = "CONNECTED"]
        \/ obj' = [obj EXCEPT ![conn].activity = "CONNCLOSED"]
        \/ obj' = [obj EXCEPT ![conn].sendptr = None, ![conn].sendlen = FALSE]
    BY <1>6 DEF SockoptOk, SockoptError, FreeReply
  <2> QED
    BY <1>0, <2>1, <2>2 DEF ObjTypes, ConnObj
<1>7. ASSUME NEW s \in Senders, SetPtr(s) \/ SetLen(s)
      PROVE  ObjTypes'
  <2>1. item[s] \in Item /\ UNCHANGED <<pool, fresh>>
    BY <1>7 DEF SetPtr, SetLen, SGoto, RInv, SenderTypes
  <2>2. item[s].connobj \in Conns /\ item[s].from \in Clients
    BY <2>1 DEF Item
  <2>3. \/ obj' = [obj EXCEPT ![item[s].connobj].sendptr = item[s].from]
        \/ obj' = [obj EXCEPT ![item[s].connobj].sendlen = TRUE]
    BY <1>7 DEF SetPtr, SetLen
  <2>4. obj[item[s].connobj] \in ConnObj
    BY <1>0, <2>2 DEF ObjTypes
  <2>5. PICK r \in ConnObj : obj' = [obj EXCEPT ![item[s].connobj] = r]
    BY <2>2, <2>3, <2>4 DEF ConnObj
  <2> QED
    BY <1>0, <2>1, <2>2, <2>5 DEF ObjTypes
<1>8. CASE \/ EpollWait \/ LoopOut \/ LoopIn \/ AcceptNoMemory \/ AcceptFails \/ Add
           \/ SockoptFails \/ Read \/ ReadFull \/ ReadReset \/ ReadAgain \/ ReadForever
           \/ Push \/ PushNoMemory \/ NoReply \/ WritePart \/ WriteAll \/ WriteAgain
           \/ WriteError \/ WriteKilled \/ LoopModify \/ ClientMoves
  <2>1. UNCHANGED objVars
    BY <1>8 DEF EpollWait, LoopOut, LoopIn, AcceptNoMemory, AcceptFails, Add, SockoptFails,
                Read, ReadFull, ReadReset, ReadAgain, ReadForever, Push, PushNoMemory,
                NoReply, WritePart, WriteAll, WriteAgain, WriteError, WriteKilled,
                LoopModify, ClientMoves
  <2> QED
    BY <1>1, <2>1
<1>9. ASSUME NEW s \in Senders, Take(s) \/ Check(s) \/ SetEvent(s) \/ SendCtl(s)
      PROVE  ObjTypes'
  BY <1>1, <1>9 DEF Take, Check, SetEvent, SendCtl
<1>10. CASE LoopStep
  BY <1>3, <1>4, <1>5, <1>6, <1>8, <1>10 DEF LoopStep
<1> QED
  BY <1>7, <1>8, <1>9, <1>10 DEF Next, SenderStep

\* Where the loop may stand after a callback.
LEMMA ReturnTypes ==
  ASSUME LoopTypes, AtEntry, Return \/ AfterRead \/ NextEntry
  PROVE  /\ pc' \in {"wait", "out", "in", "write"}
         /\ batch' \in Seq(Event) /\ first' \in BOOLEAN /\ AtEntry'
         /\ pc' = "write" => AfterRead
<1>1. CASE NextEntry
  <2> DEFINE rest == IF first THEN batch ELSE Tail(batch)
  <2>1. /\ batch' = rest /\ first' = (rest = <<>>)
        /\ pc' = IF rest = <<>> THEN "wait" ELSE "out"
    BY <1>1 DEF NextEntry
  <2>2. rest \in Seq(Event)
    BY DEF LoopTypes, AtEntry
  <2> QED
    BY <2>1, <2>2 DEF AtEntry
<1>2. CASE UNCHANGED <<batch, first>>
  BY <1>2, <1>1 DEF Return, AfterRead, LoopTypes, AtEntry
<1> QED
  BY <1>1, <1>2 DEF Return, AfterRead

LEMMA EntryTypes ==
  ASSUME LoopTypes, AtEntry
  PROVE  Entry \in Event /\ Entry.ptr \in Conns \cup {Listener}
<1>1. Entry \in Event
  BY DEF LoopTypes, AtEntry, Entry
<1> QED
  BY <1>1 DEF Event

LEMMA StoredTypes ==
  ASSUME RInv, EpollWait
  PROVE  slot' \in Event /\ batch' \in Seq(Event)
<1> DEFINE waiting  == Reportable \cup (IF Backlog # {} THEN {0} ELSE {})
           Stored(f) == IF f = 0 THEN EpollEvent({"IN"}, Listener)
                        ELSE EpollEvent(Wanted(f, reg[f].events), reg[f].ptr)
<1>1. PICK order \in SetToSeqs(waiting) :
        /\ order # <<>>
        /\ slot' = Stored(Head(order))
        /\ batch' = [i \in 1..Len(order) - 1 |-> Stored(order[i + 1])]
  BY DEF EpollWait
<1>2. \A f \in waiting : Stored(f) \in Event
  <2>1. \A f \in Reportable : reg[f] \in Event
    BY DEF Reportable, RInv, SocketTypes, Reported
  <2>2. \A f \in Reportable :
          Wanted(f, reg[f].events) \in SUBSET {"IN", "OUT", "RDHUP", "HUP", "ERR"}
    BY DEF Wanted, Poll
  <2> QED
    BY <2>1, <2>2 DEF Event, EpollEvent
<1>3. IsFiniteSet(waiting)
  <2>1. waiting \subseteq Fds \cup {0}
    BY DEF Reportable, RInv, SocketTypes
  <2>2. IsFiniteSet(Fds \cup {0})
    BY FS_AddElement
  <2> QED
    BY <2>1, <2>2, FS_Subset
<1>4. Cardinality(waiting) \in Nat
  BY <1>3, FS_CardinalityType
<1> HIDE DEF waiting, Stored
<1>5. /\ order \in Seq(waiting) /\ DOMAIN order = 1..Len(order) /\ Len(order) \in Nat
      /\ \A i \in 1..Len(order) : order[i] \in waiting
  BY <1>4 DEF SetToSeqs
<1>6. Head(order) \in waiting /\ Len(order) > 0
  BY <1>1, <1>5
<1>7. \A i \in 1..Len(order) - 1 : Stored(order[i + 1]) \in Event
  BY <1>2, <1>5
<1>8. batch' \in Seq(Event)
  BY <1>1, <1>5, <1>6, <1>7
<1> QED
  BY <1>1, <1>2, <1>6, <1>8

\* Steps of the other threads, as the loop sees them.
LEMMA OthersLeave ==
  ASSUME RInv, ClientMoves \/ \E s \in Senders : SenderStep(s)
  PROVE  /\ UNCHANGED <<loopVars, fdtab, pool, fresh>> /\ slot' \in Event
         /\ \A c \in Conns : obj'[c].fd = obj[c].fd /\ obj'[c].activity = obj[c].activity
<1>1. CASE ClientMoves
  BY <1>1, ClientTypes DEF ClientMoves, objVars, RInv, LoopTypes
<1>2. ASSUME NEW s \in Senders, Take(s) \/ Check(s) \/ SendCtl(s)
      PROVE  /\ UNCHANGED <<loopVars, fdtab, pool, fresh>> /\ slot' \in Event
             /\ \A c \in Conns : obj'[c].fd = obj[c].fd /\ obj'[c].activity = obj[c].activity
  BY <1>2 DEF Take, Check, SendCtl, ModifyCtl, sys_ctl, socketVars, objVars, RInv, LoopTypes
<1>3. ASSUME NEW s \in Senders, SetEvent(s)
      PROVE  /\ UNCHANGED <<loopVars, fdtab, pool, fresh>> /\ slot' \in Event
             /\ \A c \in Conns : obj'[c].fd = obj[c].fd /\ obj'[c].activity = obj[c].activity
  <2>1. item[s] \in Item
    BY <1>3 DEF SetEvent, SGoto, RInv, SenderTypes
  <2> QED
    BY <1>3, <2>1 DEF SetEvent, EpollEvent, Event, Item, socketVars, objVars
<1>4. ASSUME NEW s \in Senders, SetPtr(s) \/ SetLen(s)
      PROVE  /\ UNCHANGED <<loopVars, fdtab, pool, fresh>> /\ slot' \in Event
             /\ \A c \in Conns : obj'[c].fd = obj[c].fd /\ obj'[c].activity = obj[c].activity
  BY <1>4 DEF SetPtr, SetLen, socketVars, RInv, LoopTypes, ObjTypes, ConnObj
<1> QED
  BY <1>1, <1>2, <1>3, <1>4 DEF SenderStep

LEMMA LoopNext ==
  ASSUME RInv, Next
  PROVE  LoopTypes' /\ AtEntry' /\ InHand'
<1>0. LoopTypes /\ AtEntry /\ InHand /\ ObjTypes /\ SocketTypes
  BY DEF RInv
<1>1. CASE ClientMoves \/ \E s \in Senders : SenderStep(s)
  BY <1>0, <1>1, OthersLeave DEF LoopTypes, AtEntry, InHand, Open, loopVars
<1>2. CASE EpollWait
  <2>1. /\ slot' \in Event /\ batch' \in Seq(Event) /\ first' = TRUE /\ events' = {}
        /\ pc' = "out" /\ UNCHANGED <<half, conn>>
    BY <1>2, StoredTypes DEF EpollWait
  <2> QED
    BY <1>0, <2>1 DEF LoopTypes, AtEntry, InHand, Labels
<1>3. CASE LoopOut \/ LoopIn
  <2>1. Entry.ptr \in Conns \cup {Listener}
    BY <1>0, EntryTypes
  <2>2. UNCHANGED slot /\ events' \subseteq {"READ", "WRITE", "ERR"}
    BY <1>0, <1>3 DEF LoopOut, LoopIn, LoopTypes
  <2>3. \/ /\ conn' = Entry.ptr /\ half' \in {"out", "in"} /\ UNCHANGED <<batch, first>>
           /\ pc' = IF Entry.ptr = Listener THEN "accept" ELSE "sockopt"
        \/ pc' = "in" /\ UNCHANGED <<batch, first, half, conn>>
        \/ NextEntry /\ UNCHANGED <<half, conn>>
    BY <1>3 DEF LoopOut, LoopIn, Callback
  <2>4. CASE NextEntry /\ UNCHANGED <<half, conn>>
    <3>1. pc' \in {"wait", "out"} /\ batch' \in Seq(Event) /\ first' \in BOOLEAN /\ AtEntry'
      BY <1>0, <2>4, ReturnTypes DEF NextEntry
    <3> QED
      BY <1>0, <2>2, <2>4, <3>1 DEF LoopTypes, InHand, Labels
  <2> QED
    BY <1>0, <2>1, <2>2, <2>3, <2>4 DEF LoopTypes, AtEntry, InHand, Labels
<1>4. CASE Accept
  <2>1. PICK k \in Backlog, c \in Conns :
          /\ sys_accept(k, Min(FreeFds))
          /\ obj' = [obj EXCEPT ![c].fd = Min(FreeFds), ![c].activity = "CONNECTING"]
          /\ conn' = c
          /\ slot' = EpollEvent({"IN", "RDHUP"}, c)
    BY <1>4 DEF Accept
  <2>2. k \in Clients /\ Min(FreeFds) \in Fds
    BY <1>4, FreeFd DEF Accept, Backlog
  <2>3. obj'[c].fd = Min(FreeFds) /\ fdtab'[Min(FreeFds)] = k
    BY <1>0, <2>1, <2>2 DEF sys_accept, ObjTypes, SocketTypes, ConnObj
  <2>4. pc' = "add" /\ UNCHANGED <<batch, first, events, half>>
    BY <1>4 DEF Accept
  <2> QED
    BY <1>0, <2>1, <2>2, <2>3, <2>4
       DEF LoopTypes, AtEntry, InHand, Open, Labels, EpollEvent, Event
<1>5. CASE \/ AcceptNoMemory \/ AcceptFails \/ AddFails \/ SockoptFails \/ ReadAgain \/ ReadEof
           \/ Push \/ PushNoMemory \/ NoReply \/ LoopModify
  <2>1. UNCHANGED <<slot, events, half, conn>> /\ (Return \/ AfterRead)
    BY <1>5 DEF AcceptNoMemory, AcceptFails, AddFails, SockoptFails, ReadAgain, ReadEof, Push,
                PushNoMemory, NoReply, LoopModify
  <2>2. Return \/ conn \in Conns
    BY <1>0, <1>5 DEF AcceptNoMemory, AcceptFails, AddFails, SockoptFails, ReadAgain, ReadEof,
                      Push, PushNoMemory, NoReply, LoopModify, Reading, InHand
  <2>3. Return => pc' # "write"
    BY DEF Return, NextEntry
  <2>4. /\ pc' \in {"wait", "out", "in", "write"}
        /\ batch' \in Seq(Event) /\ first' \in BOOLEAN /\ AtEntry'
    BY <1>0, <2>1, ReturnTypes
  <2> QED
    BY <1>0, <2>1, <2>2, <2>3, <2>4 DEF LoopTypes, InHand, Labels
<1>6. CASE Add \/ SockoptOk \/ SockoptError \/ ReadFull \/ ReadForever \/ WritePart \/ WriteKilled
  <2>1. /\ UNCHANGED <<slot, batch, first, events, half, conn>> /\ conn \in Conns
        /\ pc' \in {"sockopt", "read", "write", "reread", "forever", "free", "killed"}
    BY <1>0, <1>6 DEF Add, SockoptOk, SockoptError, ReadFull, ReadForever, WritePart,
                      WriteKilled, Dispatch, Reading, InHand
  <2> QED
    BY <1>0, <2>1 DEF LoopTypes, AtEntry, InHand, Labels
<1>7. CASE Read
  <2>1. /\ UNCHANGED <<slot, batch, first, events, half, conn, obj, fdtab>> /\ conn \in Conns
        /\ pc' = "push" /\ Open(obj[conn].fd)
    BY <1>0, <1>7 DEF Read, Reading, InHand, objVars
  <2> QED
    BY <1>0, <2>1 DEF LoopTypes, AtEntry, InHand, Labels, Open
<1>8. CASE ReadReset \/ WriteAll
  <2>1. /\ UNCHANGED <<slot, batch, first, events, half, conn, pc>>
        /\ pc \in {"read", "reread", "write"}
    BY <1>8 DEF ReadReset, WriteAll, Reading, loopVars
  <2> QED
    BY <1>0, <2>1 DEF LoopTypes, AtEntry, InHand
<1>9. CASE WriteAgain \/ WriteError \/ FreeReply
  <2>1. /\ UNCHANGED <<batch, first, events, half, conn>> /\ conn \in Conns /\ pc' = "modify"
        /\ slot' \in {EpollEvent({"IN"}, conn), EpollEvent({"OUT"}, conn)}
    BY <1>0, <1>9 DEF WriteAgain, WriteError, FreeReply, Modify, InHand
  <2> QED
    BY <1>0, <2>1 DEF LoopTypes, AtEntry, InHand, Labels, EpollEvent, Event
<1>10. CASE LoopStep
  BY <1>2, <1>3, <1>4, <1>5, <1>6, <1>7, <1>8, <1>9, <1>10 DEF LoopStep
<1> QED
  BY <1>1, <1>10 DEF Next

LEMMA SendersNext ==
  ASSUME RInv, Next
  PROVE  SenderTypes'
<1>0. SenderTypes /\ InHand /\ ObjTypes /\ SocketTypes
  BY DEF RInv
<1>1. CASE Push
  <2>1. conn \in Conns /\ fdtab[obj[conn].fd] \in Clients
    BY <1>0, <1>1 DEF Push, InHand, Open, SocketTypes
  <2>2. [connobj |-> conn, from |-> fdtab[obj[conn].fd]] \in Item
    BY <2>1 DEF Item
  <2> QED
    BY <1>0, <1>1, <2>2 DEF Push, SenderTypes, senderVars
<1>2. CASE WritePart \/ WriteAll
  <2>1. /\ conn \in Conns /\ Open(obj[conn].fd) /\ HasReply
        /\ UNCHANGED <<rqueue, spc, item>>
        /\ got' = [got EXCEPT ![fdtab[obj[conn].fd]] = @ \cup {obj[conn].sendptr}]
    BY <1>0, <1>2 DEF WritePart, WriteAll, InHand, senderVars
  <2>2. obj[conn].sendptr \in Clients
    BY <1>0, <2>1 DEF ObjTypes, ConnObj, HasReply
  <2>3. got' \in [Clients -> SUBSET Clients]
    BY <1>0, <2>1, <2>2 DEF SenderTypes
  <2> QED
    BY <1>0, <2>1, <2>3 DEF SenderTypes
<1>3. ASSUME NEW s \in Senders, Take(s)
      PROVE  SenderTypes'
  <2>1. Head(rqueue) \in Item /\ Tail(rqueue) \in Seq(Item)
    BY <1>0, <1>3 DEF Take, SenderTypes
  <2> QED
    BY <1>0, <1>3, <2>1 DEF Take, SGoto, SenderTypes
<1>4. ASSUME NEW s \in Senders, \/ Check(s) \/ SetPtr(s) \/ SetLen(s) \/ SetEvent(s) \/ SendCtl(s)
      PROVE  SenderTypes'
  BY <1>0, <1>4 DEF Check, SetPtr, SetLen, SetEvent, SendCtl, SGoto, SenderTypes
<1>5. CASE \/ EpollWait \/ LoopOut \/ LoopIn \/ Accept \/ AcceptNoMemory \/ AcceptFails \/ Add
           \/ AddFails \/ SockoptOk \/ SockoptError \/ SockoptFails \/ Read \/ ReadFull
           \/ ReadReset \/ ReadAgain \/ ReadEof \/ ReadForever \/ PushNoMemory \/ NoReply
           \/ WriteAgain \/ WriteError \/ WriteKilled \/ FreeReply \/ LoopModify \/ ClientMoves
  <2>1. UNCHANGED <<rqueue, spc, item, got>>
    BY <1>5 DEF EpollWait, LoopOut, LoopIn, Accept, AcceptNoMemory, AcceptFails, Add, AddFails,
                SockoptOk, SockoptError, SockoptFails, Read, ReadFull, ReadReset, ReadAgain,
                ReadEof, ReadForever, PushNoMemory, NoReply, WriteAgain, WriteError,
                WriteKilled, FreeReply, LoopModify, ClientMoves, senderVars
  <2> QED
    BY <1>0, <2>1 DEF SenderTypes
<1>6. CASE LoopStep
  BY <1>1, <1>2, <1>5, <1>6 DEF LoopStep
<1> QED
  BY <1>3, <1>4, <1>5, <1>6 DEF Next, SenderStep

LEMMA ReactorNext == RInv /\ [Next]_vars => RInv'
<1> SUFFICES ASSUME RInv, [Next]_vars
             PROVE  RInv'
  OBVIOUS
<1>1. CASE UNCHANGED vars
  <2>1. SocketTypes' /\ ObjTypes' /\ Reported'
    BY <1>1 DEF vars, socketVars, objVars, RInv, SocketTypes, ObjTypes, Reported
  <2>2. LoopTypes' /\ SenderTypes' /\ AtEntry' /\ InHand'
    BY <1>1 DEF vars, socketVars, objVars, loopVars, senderVars, RInv, LoopTypes, SenderTypes,
                AtEntry, InHand, Open
  <2> QED
    BY <2>1, <2>2 DEF RInv
<1>2. CASE Next
  BY <1>2, SocketsNext, ObjectsNext, LoopNext, SendersNext DEF RInv
<1> QED
  BY <1>1, <1>2

LEMMA ReactorAlways == Spec => []RInv
  BY ReactorInit, ReactorNext, PTL DEF Spec

\* Type correctness of the reactor: the callbacks always work on a ConnObj,
\* epoll_wait's entries and the Items always name one, and the descriptor an
\* accepted connection gets is one the process has.
THEOREM ReactorTypes == Spec => []TypeOK
<1>1. RInv => TypeOK
  BY DEF RInv, SocketTypes, ObjTypes, LoopTypes, SenderTypes, TypeOK
<1> QED
  BY <1>1, ReactorAlways, PTL

-----------------------------------------------------------------------------
(* What the steps do to the ConnObjs, the pool and the descriptors.        *)

\* Five steps of the loop open or close a descriptor, or change an activity.
ObjStep == Accept \/ AddFails \/ SockoptOk \/ SockoptError \/ ReadEof

LEMMA ObjFrame ==
  ASSUME RInv, Next, ~ ObjStep
  PROVE  /\ UNCHANGED <<fdtab, pool, fresh>>
         /\ \A c \in Conns : obj'[c].fd = obj[c].fd /\ obj'[c].activity = obj[c].activity
<1>1. CASE ClientMoves \/ \E s \in Senders : SenderStep(s)
  BY <1>1, OthersLeave
<1>2. CASE FreeReply
  <2>1. UNCHANGED <<fdtab, pool, fresh>>
    BY <1>2 DEF FreeReply, socketVars
  <2>2. obj' = [obj EXCEPT ![conn].sendptr = None, ![conn].sendlen = FALSE]
    BY <1>2 DEF FreeReply
  <2> QED
    BY <2>1, <2>2 DEF RInv, ObjTypes, ConnObj
<1>3. CASE LoopStep /\ ~ FreeReply
  BY <1>3 DEF LoopStep, ObjStep, EpollWait, LoopOut, LoopIn, AcceptNoMemory, AcceptFails, Add,
              SockoptFails, Read, ReadFull, ReadReset, ReadAgain, ReadForever, Push,
              PushNoMemory, NoReply, WritePart, WriteAll, WriteAgain, WriteError, WriteKilled,
              LoopModify, ModifyCtl, socketVars, objVars, sys_refuse, sys_ctl
<1> QED
  BY <1>1, <1>2, <1>3 DEF Next

LEMMA PoolSet ==
  ASSUME RInv
  PROVE  /\ Pooled = Entries(pool) /\ (IsInjective(pool) <=> NoRepeat(pool))
         /\ Pooled' = Entries(pool') /\ (IsInjective(pool)' <=> NoRepeat(pool'))
         /\ Pooled \subseteq Conns
  BY DEF Pooled, Entries, IsInjective, NoRepeat, RInv, ObjTypes

LEMMA AcceptDoes ==
  ASSUME RInv, Accept
  PROVE  \E c \in Conns, f \in Fds :
           /\ fdtab[f] = None /\ fdtab'[f] # None /\ \A g \in Fds \ {f} : fdtab'[g] = fdtab[g]
           /\ obj'[c].fd = f /\ obj'[c].activity = "CONNECTING" /\ conn' = c
           /\ \A d \in Conns \ {c} : obj'[d] = obj[d]
           /\ c \in Pooled \cup fresh
           /\ Pooled \cup fresh \subseteq Pooled' \cup fresh' \cup {c}
           /\ Pooled' \subseteq Pooled /\ fresh' \subseteq fresh
           /\ IsInjective(pool) /\ Pooled \cap fresh = {} =>
                IsInjective(pool)' /\ c \notin Pooled' \cup fresh'
<1>1. PICK k \in Backlog, c \in Conns :
        /\ sys_accept(k, Min(FreeFds))
        /\ getConn(c)
        /\ obj' = [obj EXCEPT ![c].fd = Min(FreeFds), ![c].activity = "CONNECTING"]
        /\ conn' = c
  BY DEF Accept
<1>2. k \in Clients /\ Min(FreeFds) \in Fds /\ fdtab[Min(FreeFds)] = None
  BY FreeFd DEF Accept, Backlog
<1>0. PICK f : f = Min(FreeFds) /\ f \in Fds /\ fdtab[f] = None
  BY <1>2
<1>3. fdtab[f] = None /\ fdtab'[f] # None /\ \A g \in Fds \ {f} : fdtab'[g] = fdtab[g]
  <2>1. fdtab' = [fdtab EXCEPT ![f] = k]
    BY <1>0, <1>1 DEF sys_accept
  <2> QED
    BY <1>0, <1>2, <2>1 DEF RInv, SocketTypes
<1>4. /\ obj'[c].fd = f /\ obj'[c].activity = "CONNECTING"
      /\ \A d \in Conns \ {c} : obj'[d] = obj[d]
  <2>1. obj[c] \in ConnObj /\ obj \in [Conns -> ConnObj] /\ f \in Fds
    BY <1>0, <1>2 DEF RInv, ObjTypes
  <2> DEFINE r == [obj[c] EXCEPT !.fd = f, !.activity = "CONNECTING"]
  <2>2. obj' = [obj EXCEPT ![c] = r]
    BY <1>0, <1>1, <2>1
  <2>3. r.fd = f /\ r.activity = "CONNECTING"
    BY <2>1 DEF ConnObj
  <2> HIDE DEF r
  <2> QED
    BY <2>1, <2>2, <2>3
<1>5. /\ c \in Pooled \cup fresh
      /\ Pooled \cup fresh \subseteq Pooled' \cup fresh' \cup {c}
      /\ Pooled' \subseteq Pooled /\ fresh' \subseteq fresh
      /\ IsInjective(pool) /\ Pooled \cap fresh = {} =>
           IsInjective(pool)' /\ c \notin Pooled' \cup fresh'
  <2>1. CASE pool # <<>> /\ c = Head(pool) /\ pool' = Tail(pool) /\ UNCHANGED fresh
    <3>1. pool \in Seq(Conns) /\ pool # <<>>
      BY <2>1 DEF RInv, ObjTypes
    <3>2. /\ Head(pool) \in Entries(pool)
          /\ Entries(pool) = Entries(Tail(pool)) \cup {Head(pool)}
          /\ NoRepeat(pool) => /\ NoRepeat(Tail(pool))
                               /\ Head(pool) \notin Entries(Tail(pool))
      BY <3>1, PopEntries
    <3> QED
      BY <2>1, <3>2, PoolSet
  <2>2. CASE c \in fresh /\ fresh' = fresh \ {c} /\ UNCHANGED pool
    BY <2>2, PoolSet
  <2> QED
    BY <1>1, <2>1, <2>2 DEF getConn
<1> QED
  BY <1>0, <1>1, <1>3, <1>4, <1>5

\* A ConnObj goes to the pool together with its open descriptor's end.
LEMMA PoolingDoes ==
  ASSUME RInv, AddFails \/ ReadEof
  PROVE  /\ conn \in Conns /\ Open(obj[conn].fd)
         /\ fdtab' = [fdtab EXCEPT ![obj[conn].fd] = None]
         /\ obj'[conn].activity = "CONNCLOSED"
         /\ obj'[conn].fd = IF ReadEof THEN NoFd ELSE obj[conn].fd
         /\ \A d \in Conns \ {conn} : obj'[d] = obj[d]
         /\ Pooled' = Pooled \cup {conn} /\ fresh' = fresh
         /\ IsInjective(pool) /\ conn \notin Pooled => IsInjective(pool)'
<1>1. conn \in Conns /\ Open(obj[conn].fd) /\ obj[conn] \in ConnObj
  BY DEF AddFails, ReadEof, Reading, RInv, InHand, ObjTypes
<1>2. fdtab' = [fdtab EXCEPT ![obj[conn].fd] = None]
  BY DEF AddFails, ReadEof, sys_close
<1>3. pool' = Append(pool, conn) /\ fresh' = fresh
  BY DEF AddFails, ReadEof, setConn
<1>4. /\ Pooled' = Pooled \cup {conn}
      /\ IsInjective(pool) /\ conn \notin Pooled => IsInjective(pool)'
  <2>1. pool \in Seq(Conns)
    BY DEF RInv, ObjTypes
  <2>2. /\ Entries(Append(pool, conn)) = Entries(pool) \cup {conn}
        /\ NoRepeat(pool) /\ conn \notin Entries(pool) => NoRepeat(Append(pool, conn))
    BY <1>1, <2>1, PushEntries
  <2> QED
    BY <1>3, <2>2, PoolSet
<1>5. AddFails => pc = "add"
  BY DEF AddFails
<1>6. ReadEof => pc \in {"read", "reread"}
  BY DEF ReadEof, Reading
<1>7. /\ obj'[conn].activity = "CONNCLOSED"
      /\ obj'[conn].fd = IF ReadEof THEN NoFd ELSE obj[conn].fd
      /\ \A d \in Conns \ {conn} : obj'[d] = obj[d]
  <2>1. obj \in [Conns -> ConnObj]
    BY DEF RInv, ObjTypes
  <2>2. CASE AddFails
    <3>1. obj' = [obj EXCEPT ![conn] = connobjReset(conn)] /\ ~ ReadEof
      BY <1>5, <1>6, <2>2 DEF AddFails, setConn
    <3>2. connobjReset(conn).activity = "CONNCLOSED" /\ connobjReset(conn).fd = obj[conn].fd
      BY <1>1 DEF connobjReset, ConnObj
    <3> QED
      BY <1>1, <2>1, <3>1, <3>2
  <2>3. CASE ReadEof
    <3> DEFINE r == [connobjReset(conn) EXCEPT !.fd = NoFd]
    <3>1. obj' = [obj EXCEPT ![conn] = r]
      BY <2>3 DEF ReadEof
    <3>2. r.activity = "CONNCLOSED" /\ r.fd = NoFd
      BY <1>1 DEF connobjReset, ConnObj
    <3> HIDE DEF r
    <3> QED
      BY <1>1, <2>1, <2>3, <3>1, <3>2
  <2> QED
    BY <2>2, <2>3
<1> QED
  BY <1>1, <1>2, <1>3, <1>4, <1>7

LEMMA SockoptDoes ==
  ASSUME RInv, SockoptOk \/ SockoptError
  PROVE  /\ conn \in Conns /\ Open(obj[conn].fd) /\ UNCHANGED <<pool, fresh>>
         /\ obj'[conn].fd = obj[conn].fd /\ \A d \in Conns \ {conn} : obj'[d] = obj[d]
         /\ SockoptOk => fdtab' = fdtab /\ obj'[conn].activity = "CONNECTED"
         /\ SockoptError => /\ fdtab' = [fdtab EXCEPT ![obj[conn].fd] = None]
                            /\ obj'[conn].activity = "CONNCLOSED"
<1>1. conn \in Conns /\ Open(obj[conn].fd) /\ obj[conn] \in ConnObj /\ UNCHANGED <<pool, fresh>>
  BY DEF SockoptOk, SockoptError, RInv, InHand, ObjTypes
<1>2. /\ SockoptOk => fdtab' = fdtab /\ obj' = [obj EXCEPT ![conn].activity = "CONNECTED"]
      /\ SockoptError => /\ fdtab' = [fdtab EXCEPT ![obj[conn].fd] = None]
                         /\ obj' = [obj EXCEPT ![conn].activity = "CONNCLOSED"]
  BY DEF SockoptOk, SockoptError, sys_close, socketVars
<1> QED
  BY <1>1, <1>2 DEF RInv, ObjTypes, ConnObj

-----------------------------------------------------------------------------
(* As long as nobody resets a connection.                                  *)

\* What one step does to the socket of client k.
SockMoves(k) ==
  \E b \in BOOLEAN :
    \/ sock' = [sock EXCEPT ![k].data = b]
    \/ sock' = [sock EXCEPT ![k].err = FALSE]
    \/ sock' = [sock EXCEPT ![k].room = b]
    \/ sock' = [sock EXCEPT ![k].fin = b]
    \/ sock' = [sock EXCEPT ![k].rst = TRUE, ![k].err = TRUE]
    \/ \E s \in {"open", "closed", "backlog"} : sock' = [sock EXCEPT ![k].state = s]
    \/ sock' = [sock EXCEPT ![k].data = TRUE, ![k].sends = @ - 1]

LEMMA SockMoved ==
  ASSUME RInv, Next
  PROVE  sock' = sock \/ \E k \in Clients : SockMoves(k)
<1>1. CASE ClientMoves
  <2>1. PICK k \in Clients : Connect(k) \/ Send(k) \/ Finish(k) \/ Reset(k) \/ Drain(k)
    BY <1>1 DEF ClientMoves, ClientStep
  <2>2. SockMoves(k)
    BY <2>1 DEF Connect, Send, Finish, Reset, Drain, SockMoves
  <2> QED
    BY <2>2
<1>2. CASE \E s \in Senders : SenderStep(s)
  BY <1>2 DEF SenderStep, Take, Check, SetPtr, SetLen, SetEvent, SendCtl, ModifyCtl, sys_ctl,
              socketVars
<1>3. CASE Accept \/ AcceptNoMemory
  <2>1. PICK k \in Backlog :
          \E s \in {"open", "closed"} : sock' = [sock EXCEPT ![k].state = s]
    BY <1>3 DEF Accept, AcceptNoMemory, sys_accept, sys_refuse
  <2> QED
    BY <2>1 DEF SockMoves, Backlog
<1>4. CASE \/ AddFails \/ SockoptError \/ ReadEof \/ Read \/ ReadFull \/ ReadReset
           \/ WritePart \/ WriteAll \/ WriteError
  <2>1. \/ sock' = sock
        \/ Open(obj[conn].fd) /\ SockMoves(fdtab[obj[conn].fd])
    BY <1>4 DEF AddFails, SockoptError, ReadEof, Read, ReadFull, ReadReset, WritePart, WriteAll,
                WriteError, SockMoves, sys_close, RInv, InHand
  <2>2. Open(obj[conn].fd) => fdtab[obj[conn].fd] \in Clients
    BY DEF Open, RInv, SocketTypes
  <2> QED
    BY <2>1, <2>2
<1>5. CASE \/ EpollWait \/ LoopOut \/ LoopIn \/ AcceptFails \/ Add \/ SockoptOk \/ SockoptFails
           \/ ReadAgain \/ ReadForever \/ Push \/ PushNoMemory \/ NoReply \/ WriteAgain
           \/ WriteKilled \/ FreeReply \/ LoopModify
  BY <1>5 DEF EpollWait, LoopOut, LoopIn, AcceptFails, Add, SockoptOk, SockoptFails, ReadAgain,
              ReadForever, Push, PushNoMemory, NoReply, WriteAgain, WriteKilled, FreeReply,
              LoopModify, ModifyCtl, sys_ctl, socketVars
<1> QED
  BY <1>1, <1>2, <1>3, <1>4, <1>5 DEF Next, LoopStep

\* A reset stays, and only a reset leaves an error to report.
LEMMA ResetStays ==
  ASSUME RInv, Next, NEW k \in Clients, ~ sock'[k].rst
  PROVE  ~ sock[k].rst /\ (sock'[k].err => sock[k].err)
<1>1. CASE sock' = sock
  BY <1>1
<1>2. ASSUME NEW j \in Clients, SockMoves(j)
      PROVE  ~ sock[k].rst /\ (sock'[k].err => sock[k].err)
  <2>1. sock[j] \in Socket /\ sock[k] \in Socket
    BY DEF RInv, SocketTypes
  <2> QED
    BY <1>2, <2>1 DEF SockMoves, Socket, RInv, SocketTypes
<1> QED
  BY <1>1, <1>2, SockMoved

SInv ==
  NobodyReset =>
    /\ \A k \in Clients : ~ sock[k].err
    /\ pc \in {"read", "reread"} => Open(obj[conn].fd)
    /\ pc \notin {"forever", "killed"}
    /\ InPlace

LEMMA SurvivesInit == Init => SInv
  BY DEF Init, SocketsInit, SInv, InPlace, Pooled

LEMMA SurvivesNext ==
  ASSUME RInv, SInv, [Next]_vars
  PROVE  SInv'
<1>1. CASE UNCHANGED vars
  BY <1>1 DEF vars, socketVars, objVars, loopVars, SInv, NobodyReset, InPlace, Pooled, Open
<1>2. CASE Next
  <2> SUFFICES ASSUME NobodyReset'
               PROVE  /\ \A k \in Clients : ~ sock'[k].err
                      /\ pc' \in {"read", "reread"} => Open(obj[conn].fd)'
                      /\ pc' \notin {"forever", "killed"}
                      /\ InPlace'
    BY DEF SInv
  <2>1. NobodyReset /\ \A k \in Clients : ~ sock'[k].err
    BY <1>2, ResetStays DEF NobodyReset, SInv
  <2>2. /\ \A k \in Clients : ~ sock[k].err /\ ~ sock[k].rst
        /\ pc \in {"read", "reread"} => Open(obj[conn].fd)
        /\ pc \notin {"forever", "killed"} /\ InPlace
    BY <2>1 DEF SInv, NobodyReset
  <2>3. Open(obj[conn].fd) => ~ Sock.err /\ ~ Sock.rst
    BY <2>2 DEF Open, Sock, RInv, SocketTypes
  <2>4. ~ SockoptError /\ ~ ReadForever /\ ~ WriteKilled
    BY <2>2, <2>3 DEF SockoptError, ReadForever, WriteKilled, Sock, Reading
  <2>5. InPlace'
    <3>1. CASE Accept
      BY <2>2, <3>1, AcceptDoes DEF InPlace
    <3>2. CASE AddFails \/ ReadEof
      BY <2>2, <3>2, PoolingDoes DEF InPlace
    <3>3. CASE SockoptOk
      BY <2>2, <3>3, SockoptDoes DEF InPlace, Pooled
    <3>4. CASE ~ ObjStep
      BY <1>2, <2>2, <3>4, ObjFrame DEF InPlace, Pooled
    <3> QED
      BY <2>4, <3>1, <3>2, <3>3, <3>4 DEF ObjStep
  <2>6. /\ pc' \in {"read", "reread"} => Open(obj[conn].fd)'
        /\ pc' \notin {"forever", "killed"}
    <3>1. CASE ClientMoves \/ \E s \in Senders : SenderStep(s)
      BY <2>2, <3>1, OthersLeave DEF loopVars, Open, RInv, InHand
    <3>2. CASE SockoptOk
      BY <3>2, SockoptDoes DEF SockoptOk, Dispatch, Open
    <3>3. CASE ReadFull \/ ReadReset \/ WriteAll
      BY <2>2, <3>3 DEF ReadFull, ReadReset, WriteAll, objVars, loopVars, Open
    <3>4. CASE \/ AcceptNoMemory \/ AcceptFails \/ AddFails \/ SockoptFails \/ ReadAgain
               \/ ReadEof \/ Push \/ PushNoMemory \/ NoReply \/ LoopModify
      <4>1. Return \/ AfterRead
        BY <3>4 DEF AcceptNoMemory, AcceptFails, AddFails, SockoptFails, ReadAgain, ReadEof,
                    Push, PushNoMemory, NoReply, LoopModify
      <4> QED
        BY <4>1, ReturnTypes DEF RInv
    <3>5. CASE LoopOut \/ LoopIn
      BY <3>5 DEF LoopOut, LoopIn, Callback, NextEntry
    <3>6. CASE \/ EpollWait \/ Accept \/ Add \/ Read \/ WritePart \/ WriteAgain \/ WriteError
               \/ FreeReply
      BY <3>6 DEF EpollWait, Accept, Add, Read, WritePart, WriteAgain, WriteError, FreeReply,
                  Modify
    <3> QED
      BY <1>2, <2>4, <3>1, <3>2, <3>3, <3>4, <3>5, <3>6 DEF Next, LoopStep
  <2> QED
    BY <2>1, <2>5, <2>6
<1> QED
  BY <1>1, <1>2

LEMMA SurvivesAlways == Spec => []SInv
<1>1. RInv /\ SInv /\ [Next]_vars => SInv'
  BY SurvivesNext
<1> QED
  BY <1>1, SurvivesInit, ReactorAlways, PTL DEF Spec

\* As long as nobody resets a connection, every ConnObj is free for reuse or
\* serves a connection, whatever data threads do and whichever call fails.
THEOREM NoConnObjLost == Spec => []NoneLost
<1>1. SInv => NoneLost
  BY DEF SInv, NoneLost
<1> QED
  BY <1>1, SurvivesAlways, PTL

\* As long as nobody resets a connection, readData is never called with a
\* closed descriptor, so the loop does not hang, and no write raises SIGPIPE.
THEOREM LoopLives == Spec => []LoopSurvives
<1>1. SInv => LoopSurvives
  BY DEF SInv, LoopSurvives
<1> QED
  BY <1>1, SurvivesAlways, PTL

-----------------------------------------------------------------------------
(* The pool, and the sockets nobody would know of any more.                *)

\* What is in the pool, or not yet allocated, has no descriptor: it cannot be
\* the ConnObj of a callback that finds its descriptor open.
AtRest == \A c \in Pooled \cup fresh : obj[c].activity = "CONNCLOSED" /\ obj[c].fd = NoFd

PInv == IsInjective(pool) /\ Pooled \cap fresh = {} /\ AtRest /\ NoOrphan

LEMMA PoolInit == Init => PInv
  BY DEF Init, SocketsInit, PInv, AtRest, NoOrphan, Open, Pooled, IsInjective

LEMMA PoolNext ==
  ASSUME ~ AddMayFail, RInv, PInv, [Next]_vars
  PROVE  PInv'
<1>0. NoFd \notin Fds /\ Pooled \subseteq Conns /\ fresh \subseteq Conns
  BY PoolSet DEF NoFd, RInv, ObjTypes
<1>1. CASE UNCHANGED <<fdtab, pool, fresh>>
           /\ \A c \in Conns : obj'[c].fd = obj[c].fd /\ obj'[c].activity = obj[c].activity
  BY <1>0, <1>1 DEF PInv, AtRest, NoOrphan, Open, Pooled, IsInjective
<1>2. CASE Accept
  <2>1. PICK c \in Conns, f \in Fds :
          /\ fdtab[f] = None /\ fdtab'[f] # None /\ \A g \in Fds \ {f} : fdtab'[g] = fdtab[g]
          /\ obj'[c].fd = f /\ \A d \in Conns \ {c} : obj'[d] = obj[d]
          /\ c \in Pooled \cup fresh
          /\ Pooled \cup fresh \subseteq Pooled' \cup fresh' \cup {c}
          /\ Pooled' \subseteq Pooled /\ fresh' \subseteq fresh
          /\ IsInjective(pool)' /\ c \notin Pooled' \cup fresh'
    BY <1>2, AcceptDoes DEF PInv
  <2>2. IsInjective(pool)' /\ (Pooled \cap fresh = {})' /\ AtRest'
    BY <1>0, <2>1 DEF PInv, AtRest
  <2>3. ASSUME NEW g \in Fds, fdtab'[g] # None
        PROVE  \E d \in Conns \ (Pooled' \cup fresh') : obj'[d].fd = g
    <3>1. CASE g = f
      BY <2>1, <3>1
    <3>2. CASE g # f
      <4>1. PICK d \in Conns \ (Pooled \cup fresh) : obj[d].fd = g
        BY <2>1, <2>3, <3>2 DEF PInv, NoOrphan, Open
      <4> QED
        BY <2>1, <4>1
    <3> QED
      BY <3>1, <3>2
  <2> QED
    BY <2>2, <2>3 DEF PInv, NoOrphan, Open
<1>3. CASE ReadEof
  <2>1. conn \notin Pooled \cup fresh
    BY <1>0, <1>3, PoolingDoes DEF PInv, AtRest, Open
  <2>2. /\ fdtab' = [fdtab EXCEPT ![obj[conn].fd] = None]
        /\ obj'[conn].activity = "CONNCLOSED" /\ obj'[conn].fd = NoFd
        /\ \A d \in Conns \ {conn} : obj'[d] = obj[d]
        /\ Pooled' = Pooled \cup {conn} /\ fresh' = fresh /\ IsInjective(pool)'
    BY <1>3, <2>1, PoolingDoes DEF PInv
  <2>3. AtRest'
    BY <1>0, <2>2 DEF PInv, AtRest
  <2>4. ASSUME NEW g \in Fds, fdtab'[g] # None
        PROVE  \E d \in Conns \ (Pooled' \cup fresh') : obj'[d].fd = g
    <3>1. fdtab[g] # None /\ g # obj[conn].fd
      BY <2>2, <2>4 DEF RInv, SocketTypes
    <3>2. PICK d \in Conns \ (Pooled \cup fresh) : obj[d].fd = g
      BY <3>1 DEF PInv, NoOrphan, Open
    <3> QED
      BY <2>2, <3>1, <3>2
  <2> QED
    BY <2>1, <2>2, <2>3, <2>4 DEF PInv, NoOrphan, Open
<1>4. CASE SockoptOk \/ SockoptError
  <2>1. conn \notin Pooled \cup fresh
    BY <1>0, <1>4, SockoptDoes DEF PInv, AtRest, Open
  <2>2. /\ UNCHANGED <<pool, fresh>> /\ obj'[conn].fd = obj[conn].fd
        /\ \A d \in Conns \ {conn} : obj'[d] = obj[d]
        /\ fdtab' = fdtab \/ fdtab' = [fdtab EXCEPT ![obj[conn].fd] = None]
    BY <1>4, SockoptDoes
  <2>3. AtRest' /\ IsInjective(pool)' /\ (Pooled \cap fresh = {})'
    BY <1>0, <2>1, <2>2 DEF PInv, AtRest, Pooled, IsInjective
  <2>4. \A g \in Fds : fdtab'[g] # None => fdtab[g] # None
    BY <2>2 DEF RInv, SocketTypes
  <2>5. \A d \in Conns : obj'[d].fd = obj[d].fd
    BY <2>2
  <2> QED
    BY <1>0, <2>2, <2>3, <2>4, <2>5 DEF PInv, NoOrphan, Open, Pooled
<1>5. ~ AddFails
  BY DEF AddFails
<1>6. CASE Next /\ ~ ObjStep
  BY <1>1, <1>6, ObjFrame
<1>7. CASE UNCHANGED vars
  BY <1>1, <1>7 DEF vars, socketVars, objVars
<1> QED
  BY <1>2, <1>3, <1>4, <1>5, <1>6, <1>7 DEF ObjStep

LEMMA PoolAlways ==
  ASSUME ~ AddMayFail
  PROVE  Spec => []PInv
<1>1. RInv /\ PInv /\ [Next]_vars => PInv'
  BY PoolNext
<1> QED
  BY <1>1, PoolInit, ReactorAlways, PTL DEF Spec

-----------------------------------------------------------------------------
(* The loop without data threads: who owns a socket.                       *)

Active(c) == obj[c].activity # "CONNCLOSED"

\* A ConnObj whose descriptor is open owns it: the number is not one that was
\* closed under it and given to another connection.
Target(c) == Open(obj[c].fd) => Active(c)

Owns(c, f) == c \in Conns /\ Active(c) /\ obj[c].fd = f

Owned ==
  /\ IsInjective(pool) /\ Pooled \cap fresh = {}
  /\ \A c \in Pooled \cup fresh : ~ Active(c)
  /\ \A c \in Conns : Active(c) => Open(obj[c].fd)
  /\ \A c, d \in Conns : Active(c) /\ Active(d) /\ obj[c].fd = obj[d].fd => c = d
  /\ \A f \in Fds : fdtab[f] # None => \E c \in Conns : Active(c) /\ obj[c].fd = f

Registered ==
  /\ \A f \in Fds : reg[f] # None =>
       fdtab[f] # None /\ Owns(reg[f].ptr, f)
  /\ \A f \in Fds : fdtab[f] # None => reg[f] # None \/ (pc = "add" /\ obj[conn].fd = f)

InCall == pc \in {"sockopt", "read", "reread", "push", "write", "free", "modify"}

\* The entries after the one at hand, and whom the one at hand is about.
Rest    == IF first THEN batch ELSE Tail(batch)
Current == IF pc \in {"out", "in"} THEN Entry.ptr ELSE conn

Fit(e) == \/ e.ptr = Listener /\ e.events = {"IN"}
          \/ e.ptr \in Conns /\ Target(e.ptr)

InCallback ==
  /\ pc \in {"accept", "add"} => half = "in"
  /\ pc = "accept" => conn = Listener
  /\ pc = "add" => Active(conn)
  /\ pc \in {"add", "modify"} => slot.ptr = conn
  /\ InCall => Target(conn) /\ (half = "out" => Entry.ptr = conn)
  /\ pc \in {"out", "in"} => Fit(Entry)

\* What is left of the array names connections in use, each once, and not the
\* one at hand: a callback cannot make a later entry stale.
Waiting(e) == \/ e.ptr = Listener /\ e.events = {"IN"}
              \/ e.ptr \in Conns /\ Active(e.ptr)

Batched ==
  pc # "wait" =>
    /\ \A i \in DOMAIN Rest : Waiting(Rest[i]) /\ Rest[i].ptr # Current
    /\ \A i, j \in DOMAIN Rest : Rest[i].ptr = Rest[j].ptr => i = j

BInv == Owned /\ Registered /\ InCallback /\ Batched

LEMMA AloneInit == Init => BInv
<1> SUFFICES ASSUME Init
             PROVE  BInv
  OBVIOUS
<1> USE DEF Init, SocketsInit
<1>1. Owned /\ Registered
  BY DEF Owned, Registered, Active, Pooled, IsInjective, Open
<1>2. InCallback /\ Batched
  BY DEF InCallback, Batched, InCall
<1> QED
  BY <1>1, <1>2 DEF BInv

\* The loop alone moves.
LEMMA Alone ==
  ASSUME Senders = {}, Next
  PROVE  LoopStep \/ ClientMoves
  BY DEF Next

\* What a step leaves of the ConnObjs other than the callback's.
LEMMA OthersStay ==
  ASSUME RInv, Owned, Next, ~ Accept, pc = "add" => Active(conn),
         pc = "sockopt" => Target(conn)
  PROVE  /\ \A c \in Conns \ {conn} : Active(c)' = Active(c)
         /\ \A c \in Conns : Target(c) => Target(c)'
<1>1. CASE ~ ObjStep
  BY <1>1, ObjFrame DEF Active, Target, Open
<1>2. CASE AddFails \/ ReadEof
  <2>1. /\ fdtab' = [fdtab EXCEPT ![obj[conn].fd] = None]
        /\ obj[conn].fd \in Fds /\ conn \in Conns
        /\ obj'[conn].fd \in {obj[conn].fd, NoFd}
        /\ \A d \in Conns \ {conn} : obj'[d] = obj[d]
    BY <1>2, PoolingDoes DEF Open
  <2> QED
    BY <2>1 DEF Active, Target, Open, NoFd, RInv, SocketTypes
<1>3. CASE SockoptOk
  BY <1>3, SockoptDoes DEF Active, Target, Open
<1>4. CASE SockoptError
  <2>1. /\ fdtab' = [fdtab EXCEPT ![obj[conn].fd] = None]
        /\ obj[conn].fd \in Fds /\ conn \in Conns
        /\ obj'[conn].fd = obj[conn].fd
        /\ \A d \in Conns \ {conn} : obj'[d] = obj[d]
    BY <1>4, SockoptDoes DEF Open
  <2> QED
    BY <2>1 DEF Active, Target, Open, RInv, SocketTypes
<1> QED
  BY <1>1, <1>2, <1>3, <1>4 DEF ObjStep

LEMMA OwnedStays ==
  ASSUME RInv, Owned, UNCHANGED <<fdtab, pool, fresh>>,
         \A c \in Conns : obj'[c].fd = obj[c].fd /\ Active(c)' = Active(c)
  PROVE  Owned'
<1>1. Pooled' = Pooled /\ fresh' = fresh /\ IsInjective(pool)' /\ Pooled \cup fresh \subseteq Conns
  BY PoolSet DEF Owned, Pooled, IsInjective, RInv, ObjTypes
<1>2. \A c \in Conns : Open(obj[c].fd)' = Open(obj[c].fd)
  BY DEF Open
<1>3. (Pooled \cap fresh = {})' /\ \A c \in Pooled' \cup fresh' : ~ Active(c)'
  BY <1>1 DEF Owned
<1>4. /\ \A c \in Conns : Active(c)' => Open(obj[c].fd)'
      /\ \A c, d \in Conns : Active(c)' /\ Active(d)' /\ obj'[c].fd = obj'[d].fd => c = d
      /\ \A f \in Fds : fdtab'[f] # None => \E c \in Conns : Active(c)' /\ obj'[c].fd = f
  BY <1>2 DEF Owned
<1> QED
  BY <1>1, <1>3, <1>4 DEF Owned

\* A ConnObj whose socket the loop closes no longer owns any.
LEMMA ClosingKeepsOwned ==
  ASSUME RInv, Owned, conn \in Conns, Active(conn), Open(obj[conn].fd),
         fdtab' = [fdtab EXCEPT ![obj[conn].fd] = None],
         obj'[conn].activity = "CONNCLOSED",
         \A d \in Conns \ {conn} : obj'[d] = obj[d],
         Pooled' \subseteq Pooled \cup {conn}, fresh' = fresh, IsInjective(pool)'
  PROVE  Owned'
<1> DEFINE f == obj[conn].fd
<1>1. f \in Fds /\ fdtab' = [fdtab EXCEPT ![f] = None] /\ fdtab \in [Fds -> Clients \cup {None}]
  BY DEF Open, RInv, SocketTypes
<1>2. conn \notin Pooled \cup fresh /\ Pooled \subseteq Conns /\ fresh \subseteq Conns
  BY PoolSet DEF Owned, RInv, ObjTypes
<1>3. (Pooled \cap fresh = {})' /\ \A c \in Pooled' \cup fresh' : ~ Active(c)'
  BY <1>2 DEF Owned, Active
<1>4. ASSUME NEW c \in Conns, Active(c)'
      PROVE  c # conn /\ Active(c) /\ obj'[c].fd = obj[c].fd /\ obj[c].fd # f
  BY <1>4 DEF Active, Owned
<1>5. \A c \in Conns : Active(c)' => Open(obj[c].fd)'
  BY <1>1, <1>4 DEF Owned, Open
<1>6. \A c, d \in Conns : Active(c)' /\ Active(d)' /\ obj'[c].fd = obj'[d].fd => c = d
  BY <1>4 DEF Owned
<1>7. ASSUME NEW g \in Fds, fdtab'[g] # None
      PROVE  \E c \in Conns : Active(c)' /\ obj'[c].fd = g
  <2>1. g # f /\ fdtab[g] # None
    BY <1>1, <1>7
  <2>2. PICK c \in Conns : Active(c) /\ obj[c].fd = g
    BY <2>1 DEF Owned
  <2> QED
    BY <2>1, <2>2 DEF Active
<1> QED
  BY <1>3, <1>5, <1>6, <1>7 DEF Owned

LEMMA OwnedNext ==
  ASSUME RInv, BInv, Next
  PROVE  Owned'
<1>0. Owned
  BY DEF BInv
<1>1. CASE ~ ObjStep
  BY <1>0, <1>1, ObjFrame, OwnedStays DEF Active
<1>2. CASE Accept
  <2>1. PICK c \in Conns, f \in Fds :
          /\ fdtab[f] = None /\ fdtab'[f] # None /\ \A g \in Fds \ {f} : fdtab'[g] = fdtab[g]
          /\ obj'[c].fd = f /\ obj'[c].activity = "CONNECTING"
          /\ \A d \in Conns \ {c} : obj'[d] = obj[d]
          /\ c \in Pooled \cup fresh
          /\ Pooled' \subseteq Pooled /\ fresh' \subseteq fresh
          /\ IsInjective(pool)' /\ c \notin Pooled' \cup fresh'
    BY <1>0, <1>2, AcceptDoes DEF Owned
  <2>2. \A d \in Conns : Active(d)' <=> d = c \/ Active(d)
    BY <2>1 DEF Active
  <2>3. ASSUME NEW d \in Conns \ {c}, Active(d)
        PROVE  obj[d].fd # f /\ Open(obj[d].fd)'
    <3>1. obj[d].fd \in Fds /\ fdtab[obj[d].fd] # None
      BY <1>0, <2>3 DEF Owned, Open
    <3> QED
      BY <2>1, <3>1 DEF Open
  <2>4. Pooled \subseteq Conns /\ fresh \subseteq Conns
    BY PoolSet DEF RInv, ObjTypes
  <2>5. (Pooled \cap fresh = {})' /\ \A d \in Pooled' \cup fresh' : ~ Active(d)'
    BY <1>0, <2>1, <2>2, <2>4 DEF Owned
  <2>6. /\ \A d \in Conns : Active(d)' => Open(obj[d].fd)'
        /\ \A d, e \in Conns : Active(d)' /\ Active(e)' /\ obj'[d].fd = obj'[e].fd => d = e
    BY <1>0, <2>1, <2>2, <2>3 DEF Owned, Open
  <2>7. ASSUME NEW g \in Fds, fdtab'[g] # None
        PROVE  \E d \in Conns : Active(d)' /\ obj'[d].fd = g
    <3>1. CASE g = f
      BY <2>1, <2>2, <3>1
    <3>2. CASE g # f
      <4>1. PICK d \in Conns : Active(d) /\ obj[d].fd = g
        BY <1>0, <2>1, <2>7, <3>2 DEF Owned
      <4>2. d # c
        BY <1>0, <2>1, <4>1 DEF Owned
      <4> QED
        BY <2>1, <2>2, <4>1, <4>2
    <3> QED
      BY <3>1, <3>2
  <2> QED
    BY <2>1, <2>5, <2>6, <2>7 DEF Owned
<1>3. CASE AddFails \/ ReadEof
  <2>1. conn \in Conns /\ Open(obj[conn].fd)
    BY <1>3, PoolingDoes
  <2>2. Active(conn)
    BY <1>3, <2>1 DEF AddFails, ReadEof, Reading, BInv, InCallback, InCall, Target
  <2>3. conn \notin Pooled
    BY <1>0, <2>2 DEF Owned
  <2>4. /\ fdtab' = [fdtab EXCEPT ![obj[conn].fd] = None]
        /\ obj'[conn].activity = "CONNCLOSED" /\ \A d \in Conns \ {conn} : obj'[d] = obj[d]
        /\ Pooled' = Pooled \cup {conn} /\ fresh' = fresh /\ IsInjective(pool)'
    BY <1>0, <1>3, <2>3, PoolingDoes DEF Owned
  <2> QED
    BY <1>0, <2>1, <2>2, <2>4, ClosingKeepsOwned
<1>4. CASE SockoptOk \/ SockoptError
  <2>1. conn \in Conns /\ Open(obj[conn].fd) /\ UNCHANGED <<pool, fresh>>
    BY <1>4, SockoptDoes
  <2>2. Active(conn)
    BY <1>4, <2>1 DEF SockoptOk, SockoptError, BInv, InCallback, InCall, Target
  <2>3. CASE SockoptError
    <3>1. Pooled' = Pooled /\ IsInjective(pool)'
      BY <1>0, <2>1 DEF Pooled, Owned, IsInjective
    <3> QED
      BY <1>0, <2>1, <2>2, <2>3, <3>1, SockoptDoes, ClosingKeepsOwned
  <2>4. CASE SockoptOk
    <3>1. fdtab' = fdtab /\ \A c \in Conns : obj'[c].fd = obj[c].fd /\ Active(c)' = Active(c)
      BY <2>2, <2>4, SockoptDoes DEF Active
    <3> QED
      BY <1>0, <2>1, <3>1, OwnedStays
  <2> QED
    BY <1>4, <2>3, <2>4
<1> QED
  BY <1>1, <1>2, <1>3, <1>4 DEF ObjStep

-----------------------------------------------------------------------------
(* What epoll watches.                                                     *)

LEMMA RegStays ==
  ASSUME RInv, Registered, UNCHANGED <<reg, fdtab>>,
         \A c \in Conns : obj'[c].fd = obj[c].fd /\ Active(c)' = Active(c),
         pc = "add" => pc' = "add" /\ conn' = conn
  PROVE  Registered'
<1>1. pc = "add" => conn \in Conns
  BY DEF RInv, InHand
<1> QED
  BY <1>1 DEF Registered, Owns

\* A registration of an open descriptor under its owner.
LEMMA CtlRegisters ==
  ASSUME RInv, Registered, conn \in Conns, Active(conn), Open(obj[conn].fd), slot.ptr = conn,
         sys_ctl(obj[conn].fd, slot), obj' = obj
  PROVE  Registered'
<1>1. PICK f \in Fds : f = obj[conn].fd /\ fdtab[f] # None
  BY DEF Open
<1>2. reg' = [reg EXCEPT ![f] = slot] /\ fdtab' = fdtab
  BY <1>1 DEF sys_ctl
<1>3. slot # None /\ reg \in [Fds -> Event \cup {None}]
  BY DEF RInv, LoopTypes, SocketTypes
<1>4. ASSUME NEW g \in Fds, reg'[g] # None
      PROVE  (fdtab[g] # None /\ Owns(reg[g].ptr, g))'
  BY <1>1, <1>2, <1>3, <1>4 DEF Registered, Owns, Active
<1>5. ASSUME NEW g \in Fds, fdtab'[g] # None
      PROVE  reg'[g] # None
  BY <1>1, <1>2, <1>3, <1>5 DEF Registered
<1> QED
  BY <1>4, <1>5 DEF Registered

LEMMA RegisteredNext ==
  ASSUME Senders = {}, RInv, BInv, Next
  PROVE  Registered'
<1>0. Registered /\ Owned /\ InCallback
  BY DEF BInv
<1>1. CASE Accept
  <2>1. PICK c \in Conns, f \in Fds :
          /\ fdtab[f] = None /\ fdtab'[f] # None /\ \A g \in Fds \ {f} : fdtab'[g] = fdtab[g]
          /\ obj'[c].fd = f /\ conn' = c
          /\ \A d \in Conns \ {c} : obj'[d] = obj[d]
          /\ c \in Pooled \cup fresh
    BY <1>1, AcceptDoes
  <2>2. pc' = "add" /\ pc = "accept" /\ reg' = reg
    BY <1>1 DEF Accept, sys_accept
  <2>3. ~ Active(c)
    BY <1>0, <2>1 DEF Owned
  <2>4. ASSUME NEW g \in Fds, reg'[g] # None
        PROVE  (fdtab[g] # None /\ Owns(reg[g].ptr, g))'
    <3>1. fdtab[g] # None /\ Owns(reg[g].ptr, g)
      BY <1>0, <2>2, <2>4 DEF Registered
    <3>2. reg[g].ptr # c /\ g # f
      BY <2>1, <2>3, <3>1 DEF Owns
    <3> QED
      BY <2>1, <2>2, <3>1, <3>2 DEF Active, Owns
  <2>5. ASSUME NEW g \in Fds, fdtab'[g] # None, g # f
        PROVE  reg'[g] # None
    BY <1>0, <2>1, <2>2, <2>5 DEF Registered
  <2> QED
    BY <2>1, <2>2, <2>4, <2>5 DEF Registered
<1>2. CASE Add
  <2>1. pc = "add" /\ sys_ctl(obj[conn].fd, slot) /\ obj' = obj
    BY <1>2 DEF Add, objVars
  <2> QED
    BY <1>0, <2>1, CtlRegisters DEF InCallback, RInv, InHand
<1>3. CASE LoopModify
  <2>1. pc = "modify" /\ ModifyCtl(conn) /\ obj' = obj /\ conn \in Conns
    BY <1>3 DEF LoopModify, objVars, RInv, InHand
  <2>2. CASE Open(obj[conn].fd) /\ reg[obj[conn].fd] # None
    <3>1. Active(conn) /\ slot.ptr = conn /\ sys_ctl(obj[conn].fd, slot)
      BY <1>0, <2>1, <2>2 DEF InCallback, InCall, Target, ModifyCtl
    <3> QED
      BY <1>0, <2>1, <2>2, <3>1, CtlRegisters
  <2>3. CASE ~ (Open(obj[conn].fd) /\ reg[obj[conn].fd] # None)
    <3>1. UNCHANGED <<reg, fdtab>>
      BY <2>1, <2>3 DEF ModifyCtl, socketVars
    <3> QED
      BY <1>0, <2>1, <3>1, RegStays DEF Active
  <2> QED
    BY <2>2, <2>3
<1>4. CASE AddFails \/ ReadEof \/ SockoptError
  <2>1. /\ conn \in Conns /\ Open(obj[conn].fd)
        /\ obj'[conn].activity = "CONNCLOSED" /\ \A d \in Conns \ {conn} : obj'[d] = obj[d]
    BY <1>4, PoolingDoes, SockoptDoes
  <2>2. sys_close(obj[conn].fd)
    BY <1>4 DEF AddFails, ReadEof, SockoptError
  <2>3. PICK f \in Fds : f = obj[conn].fd /\ fdtab[f] # None
    BY <2>1 DEF Open
  <2>4. /\ reg' = [reg EXCEPT ![f] = None] /\ fdtab' = [fdtab EXCEPT ![f] = None]
        /\ reg \in [Fds -> Event \cup {None}] /\ fdtab \in [Fds -> Clients \cup {None}]
    BY <2>2, <2>3 DEF sys_close, RInv, SocketTypes
  <2>5. ASSUME NEW g \in Fds, reg'[g] # None
        PROVE  (fdtab[g] # None /\ Owns(reg[g].ptr, g))'
    <3>1. g # f /\ reg'[g] = reg[g] /\ reg[g] # None
      BY <2>4, <2>5
    <3>2. fdtab[g] # None /\ Owns(reg[g].ptr, g)
      BY <1>0, <3>1 DEF Registered
    <3>3. reg[g].ptr # conn
      BY <2>3, <3>1, <3>2 DEF Owns
    <3> QED
      BY <2>1, <2>4, <3>1, <3>2, <3>3 DEF Active, Owns
  <2>6. ASSUME NEW g \in Fds, fdtab'[g] # None
        PROVE  reg'[g] # None
    BY <1>0, <2>3, <2>4, <2>6 DEF Registered
  <2> QED
    BY <2>5, <2>6 DEF Registered
<1>5. CASE SockoptOk
  <2>1. Active(conn) /\ UNCHANGED <<reg, fdtab>> /\ pc # "add"
    BY <1>0, <1>5 DEF SockoptOk, InCallback, InCall, Target, socketVars
  <2>2. \A c \in Conns : obj'[c].fd = obj[c].fd /\ Active(c)' = Active(c)
    BY <1>5, <2>1, SockoptDoes DEF Active
  <2> QED
    BY <1>0, <2>1, <2>2, RegStays
<1>6. CASE ~ ObjStep /\ ~ Add /\ ~ LoopModify
  <2>1. UNCHANGED <<reg, fdtab>> /\ (pc = "add" => pc' = "add" /\ conn' = conn)
    <3>1. CASE ClientMoves
      BY <3>1 DEF ClientMoves, ClientStep, Connect, Send, Finish, Reset, Drain, loopVars
    <3>2. CASE LoopStep
      BY <1>6, <3>2 DEF LoopStep, ObjStep, EpollWait, LoopOut, LoopIn, AcceptNoMemory,
              AcceptFails, SockoptFails, Read, ReadFull, ReadReset, ReadAgain, ReadForever, Push,
              PushNoMemory, NoReply, WritePart, WriteAll, WriteAgain, WriteError, WriteKilled,
              FreeReply, socketVars, sys_refuse, Reading
    <3> QED
      BY <3>1, <3>2, Alone
  <2> QED
    BY <1>0, <1>6, <2>1, ObjFrame, RegStays DEF Active
<1> QED
  BY <1>1, <1>2, <1>3, <1>4, <1>5, <1>6 DEF ObjStep

\* The array epoll_wait fills names every owner once.
LEMMA StoredOnce ==
  ASSUME RInv, BInv, EpollWait
  PROVE  InCallback' /\ Batched'
<1> DEFINE waiting  == Reportable \cup (IF Backlog # {} THEN {0} ELSE {})
           Stored(f) == IF f = 0 THEN EpollEvent({"IN"}, Listener)
                        ELSE EpollEvent(Wanted(f, reg[f].events), reg[f].ptr)
<1>1. PICK order \in SetToSeqs(waiting) :
        /\ order # <<>>
        /\ slot' = Stored(Head(order))
        /\ batch' = [i \in 1..Len(order) - 1 |-> Stored(order[i + 1])]
  BY DEF EpollWait
<1>2. /\ pc' = "out" /\ first' = TRUE /\ UNCHANGED <<obj, fdtab, half, conn>>
  BY DEF EpollWait, objVars
<1>3. ASSUME NEW f \in waiting
      PROVE  \/ Stored(f).ptr = Listener /\ Stored(f).events = {"IN"} /\ f = 0
             \/ Owns(Stored(f).ptr, f) /\ f # 0
  <2>1. CASE f = 0
    BY <2>1 DEF EpollEvent
  <2>2. CASE f # 0
    <3>1. f \in Fds /\ reg[f] # None
      BY <2>2 DEF Reportable, RInv, SocketTypes, Reported
    <3>2. Owns(reg[f].ptr, f)
      BY <3>1 DEF BInv, Registered
    <3> QED
      BY <2>2, <3>2 DEF EpollEvent
  <2> QED
    BY <2>1, <2>2
<1>4. \A f, g \in waiting : Stored(f).ptr = Stored(g).ptr => f = g
  BY <1>3 DEF Owns
<1> HIDE DEF waiting, Stored
<1>5. /\ order \in Seq(waiting) /\ Len(order) \in Nat
      /\ \A i \in 1..Len(order) : order[i] \in waiting
      /\ \A i, j \in 1..Len(order) : order[i] = order[j] => i = j
  <2>1. IsFiniteSet(waiting)
    <3>1. waiting \subseteq Fds \cup {0}
      BY DEF Reportable, RInv, SocketTypes, waiting
    <3>2. IsFiniteSet(Fds \cup {0})
      BY FS_AddElement
    <3> QED
      BY <3>1, <3>2, FS_Subset
  <2>2. Cardinality(waiting) \in Nat
    BY <2>1, FS_CardinalityType
  <2>3. order \in Seq(waiting) /\ DOMAIN order = 1..Len(order) /\ Len(order) \in Nat
    BY <2>2 DEF SetToSeqs
  <2>4. \A i, j \in 1..Len(order) : i # j => order[i] # order[j]
    BY <2>2, <2>3 DEF SetToSeqs
  <2> QED
    BY <2>3, <2>4
<1>6. Len(order) > 0 /\ Head(order) = order[1]
  BY <1>1, <1>5
<1>7. /\ Rest' = batch' /\ DOMAIN batch' = 1..Len(order) - 1
      /\ \A i \in 1..Len(order) - 1 : i + 1 \in 1..Len(order) /\ batch'[i] = Stored(order[i + 1])
  BY <1>1, <1>2, <1>5 DEF Rest
<1>8. Entry' = Stored(order[1]) /\ Current' = Stored(order[1]).ptr /\ 1 \in 1..Len(order)
  BY <1>1, <1>2, <1>5, <1>6 DEF Entry, Current
<1>9. InCallback'
  <2>1. Fit(Entry)'
    <3>1. \/ Stored(order[1]).ptr = Listener /\ Stored(order[1]).events = {"IN"}
          \/ Stored(order[1]).ptr \in Conns /\ Active(Stored(order[1]).ptr)
      BY <1>3, <1>5, <1>8 DEF Owns
    <3> QED
      BY <1>2, <1>8, <3>1 DEF Fit, Target, Active
  <2> QED
    BY <1>2, <2>1 DEF InCallback, InCall
<1>10. ASSUME NEW i \in 1..Len(order) - 1
       PROVE  (Waiting(batch[i]) /\ batch[i].ptr # Current)'
  <2>1. i + 1 \in 1..Len(order) /\ i + 1 # 1
    BY <1>5
  <2>2. order[i + 1] # order[1] /\ order[i + 1] \in waiting /\ order[1] \in waiting
    BY <1>5, <1>8, <2>1
  <2> QED
    BY <1>2, <1>3, <1>4, <1>7, <1>8, <2>2 DEF Waiting, Active, Owns
<1>11. ASSUME NEW i \in 1..Len(order) - 1, NEW j \in 1..Len(order) - 1,
              batch'[i].ptr = batch'[j].ptr
       PROVE  i = j
  <2>1. i + 1 \in 1..Len(order) /\ j + 1 \in 1..Len(order) /\ i \in Int /\ j \in Int
    BY <1>5
  <2>2. order[i + 1] = order[j + 1]
    BY <1>4, <1>5, <1>7, <1>11, <2>1
  <2>3. i + 1 = j + 1
    BY <1>5, <2>1, <2>2
  <2> QED
    BY <2>1, <2>3
<1> QED
  BY <1>7, <1>9, <1>10, <1>11 DEF Batched

-----------------------------------------------------------------------------
(* What the loop has in hand, and what it still has to look at.            *)

LEMMA RestTypes ==
  ASSUME RInv
  PROVE  /\ Rest \in Seq(Event)
         /\ \A i \in DOMAIN Rest : Rest[i] \in Event
<1>1. Rest \in Seq(Event)
  BY DEF Rest, RInv, LoopTypes, AtEntry
<1> QED
  BY <1>1

\* The loop goes on to the next entry.
LEMMA GoesOn ==
  ASSUME RInv, BInv, pc # "wait", NextEntry,
         \A c \in Conns \ {Current} : Active(c) => Active(c)'
  PROVE  InCallback' /\ Batched'
<1> DEFINE rest == Rest
<1>1. /\ batch' = rest /\ first' = (rest = <<>>)
      /\ pc' = IF rest = <<>> THEN "wait" ELSE "out"
  BY DEF NextEntry, Rest
<1>2. rest \in Seq(Event)
  BY RestTypes
<1>3. /\ \A i \in DOMAIN rest : Waiting(rest[i]) /\ rest[i].ptr # Current
      /\ \A i, j \in DOMAIN rest : rest[i].ptr = rest[j].ptr => i = j
  BY DEF BInv, Batched
<1> HIDE DEF rest
<1>4. CASE rest = <<>>
  BY <1>1, <1>4 DEF InCallback, InCall, Batched
<1>5. CASE rest # <<>>
  <2>1. PICK n \in Nat : n > 0 /\ n = Len(rest) /\ DOMAIN rest = 1..n
    BY <1>2, <1>5
  <2>2. pc' = "out" /\ Entry' = rest[1] /\ Rest' = Tail(rest) /\ Current' = rest[1].ptr
    <3>1. pc' = "out" /\ batch' = rest /\ first' = FALSE
      BY <1>1, <1>5
    <3>2. Entry' = Head(rest) /\ Rest' = Tail(rest)
      BY <3>1 DEF Entry, Rest
    <3>3. Head(rest) = rest[1]
      BY <1>2, <1>5
    <3> QED
      BY <3>1, <3>2, <3>3 DEF Current
  <2>3. /\ DOMAIN Tail(rest) = 1..n - 1
        /\ \A i \in 1..n - 1 : Tail(rest)[i] = rest[i + 1]
    BY <1>2, <1>5, <2>1
  <2>4. ASSUME NEW i \in 1..n
        PROVE  \/ rest[i].ptr = Listener /\ rest[i].events = {"IN"}
               \/ rest[i].ptr \in Conns /\ Active(rest[i].ptr) /\ rest[i].ptr # Current
    BY <1>3, <2>1 DEF Waiting
  <2>5. Fit(Entry)'
    <3>1. 1 \in 1..n
      BY <2>1
    <3> QED
      BY <2>2, <2>4, <3>1 DEF Fit, Target, Active
  <2>6. InCallback'
    BY <2>2, <2>5 DEF InCallback, InCall
  <2>7. ASSUME NEW i \in 1..n - 1
        PROVE  (Waiting(Rest[i]) /\ Rest[i].ptr # Current)'
    <3>1. i + 1 \in 1..n /\ 1 \in 1..n /\ i + 1 # 1
      BY <2>1
    <3>2. rest[i + 1].ptr # rest[1].ptr
      BY <1>3, <2>1, <3>1
    <3> QED
      BY <2>2, <2>3, <2>4, <3>1, <3>2 DEF Waiting, Active
  <2>8. ASSUME NEW i \in 1..n - 1, NEW j \in 1..n - 1, (Rest[i].ptr = Rest[j].ptr)'
        PROVE  i = j
    <3>1. i + 1 \in 1..n /\ j + 1 \in 1..n /\ i \in Int /\ j \in Int
      BY <2>1
    <3>2. i + 1 = j + 1
      BY <1>3, <2>1, <2>2, <2>3, <2>8, <3>1
    <3> QED
      BY <3>1, <3>2
  <2> QED
    BY <2>2, <2>3, <2>6, <2>7, <2>8 DEF Batched
<1> QED
  BY <1>4, <1>5

\* The loop stays with its entry.
LEMMA RestStays ==
  ASSUME RInv, Batched, pc # "wait", UNCHANGED <<batch, first>>,
         \A c \in Conns \ {Current} : Active(c) => Active(c)',
         \A i \in DOMAIN Rest : Rest[i].ptr # Current'
  PROVE  Batched'
<1>1. Rest' = Rest
  BY DEF Rest
<1>2. ASSUME NEW i \in DOMAIN Rest
      PROVE  Waiting(Rest[i])'
  <2>1. Waiting(Rest[i]) /\ Rest[i].ptr # Current
    BY DEF Batched
  <2>2. PICK e : e = Rest[i] /\ e = Rest'[i]
    BY <1>1
  <2>3. Waiting(e)'
    BY <2>1, <2>2 DEF Waiting
  <2> QED
    BY <2>2, <2>3
<1> QED
  BY <1>1, <1>2 DEF Batched

\* A step within a callback.
LEMMA StaysInCall ==
  ASSUME RInv, BInv, Next, InCall, UNCHANGED <<batch, first, half, conn>>,
         InCall' \/ pc' \in {"forever", "killed"},
         (slot' = slot /\ pc' # "modify") \/ slot'.ptr = conn
  PROVE  InCallback' /\ Batched'
<1>1. ~ Accept /\ pc \notin {"add", "out", "in", "wait"} /\ conn \in Conns
  BY DEF Accept, InCall, RInv, InHand
<1>2. Target(conn) /\ (half = "out" => Entry.ptr = conn)
  BY DEF BInv, InCallback
<1>3. Target(conn)' /\ \A c \in Conns \ {conn} : Active(c)' = Active(c)
  <2>1. /\ \A c \in Conns \ {conn} : Active(c)' = Active(c)
        /\ \A c \in Conns : Target(c) => Target(c)'
    BY <1>1, <1>2, OthersStay DEF BInv
  <2>2. Target(conn) => (Target(conn))'
    BY <1>1, <2>1 DEF Target, Active
  <2> QED
    BY <1>2, <2>1, <2>2
<1>4. half = "out" => Entry'.ptr = conn
  BY <1>2 DEF Entry
<1>5. InCallback'
  BY <1>3, <1>4 DEF InCallback, InCall
<1>6. Current = conn /\ Current' = conn
  BY <1>1 DEF Current, InCall
<1>7. Batched'
  BY <1>1, <1>3, <1>6, RestStays DEF BInv, Batched
<1> QED
  BY <1>5, <1>7

LEMMA ReturnsWell ==
  ASSUME RInv, BInv, Next, InCall, Return \/ AfterRead, UNCHANGED <<slot, half, conn>>
  PROVE  InCallback' /\ Batched'
<1>1. ~ Accept /\ pc \notin {"add", "out", "in", "wait"} /\ conn \in Conns /\ Current = conn
  BY DEF Accept, InCall, RInv, InHand, Current
<1>2. Target(conn) /\ (half = "out" => Entry.ptr = conn)
  BY DEF BInv, InCallback
<1>3. /\ \A c \in Conns \ {conn} : Active(c)' = Active(c)
      /\ \A c \in Conns : Target(c) => Target(c)'
  BY <1>1, <1>2, OthersStay DEF BInv
<1>4. CASE NextEntry
  BY <1>1, <1>3, <1>4, GoesOn
<1>5. CASE pc' = "write" /\ UNCHANGED <<batch, first>>
  BY <1>5, StaysInCall DEF InCall
<1>6. CASE half = "out" /\ pc' = "in" /\ UNCHANGED <<batch, first>>
  <2>1. Entry' = Entry /\ Current' = conn
    BY <1>2, <1>6 DEF Entry, Current
  <2>2. PICK e : e = Entry /\ e = Entry' /\ e.ptr = conn
    BY <1>2, <1>6, <2>1
  <2>3. Target(conn)'
    <3>1. PICK c \in Conns : c = conn /\ c = conn'
      BY <1>1
    <3> QED
      BY <1>2, <1>3, <3>1
  <2>4. Fit(e)'
    <3>1. PICK c \in Conns : c = conn /\ c = conn' /\ e.ptr = c
      BY <1>1, <2>2
    <3> QED
      BY <2>3, <3>1 DEF Fit
  <2>5. InCallback'
    BY <1>6, <2>2, <2>4 DEF InCallback, InCall
  <2>6. Batched'
    BY <1>1, <1>3, <1>6, <2>1, RestStays DEF BInv, Batched
  <2> QED
    BY <2>5, <2>6
<1> QED
  BY <1>4, <1>5, <1>6 DEF Return, AfterRead

LEMMA CallbackNext ==
  ASSUME Senders = {}, RInv, BInv, Next
  PROVE  InCallback' /\ Batched'
<1>0. Owned /\ InCallback /\ Batched
  BY DEF BInv
<1>1. CASE ClientMoves
  <2>1. UNCHANGED <<obj, slot, batch, first, pc, half, conn, fdtab>>
    BY <1>1, ClientTypes DEF ClientMoves, loopVars, objVars, RInv
  <2> QED
    BY <1>0, <2>1 DEF InCallback, InCall, Batched, Rest, Current, Entry, Fit, Waiting, Target,
                      Active, Open
<1>2. CASE EpollWait
  BY <1>2, StoredOnce
<1>3. CASE LoopOut \/ LoopIn
  <2>1. UNCHANGED <<obj, fdtab, slot>> /\ pc \in {"out", "in"}
    BY <1>3 DEF LoopOut, LoopIn, objVars, socketVars
  <2>2. Fit(Entry) /\ Current = Entry.ptr
    BY <1>0, <2>1 DEF InCallback, Current
  <2>3. \A c \in Conns : Active(c)' = Active(c) /\ Target(c)' = Target(c)
    BY <2>1 DEF Active, Target, Open
  <2>4. CASE NextEntry
    BY <2>1, <2>3, <2>4, GoesOn
  <2>5. CASE UNCHANGED <<batch, first, half, conn>> /\ pc' = "in"
    <3>1. Entry' = Entry /\ Current' = Current
      BY <2>1, <2>2, <2>5 DEF Entry, Current
    <3>2. PICK e : e = Entry /\ e = Entry' /\ Fit(e)
      BY <2>2, <3>1
    <3>3. InCallback'
      BY <2>3, <2>5, <3>2 DEF InCallback, InCall, Fit
    <3> QED
      BY <1>0, <2>1, <2>3, <2>5, <3>1, <3>3, RestStays DEF Batched
  <2>6. CASE \E h \in {"out", "in"} :
               /\ Callback(h)
               /\ Entry.events \cap (IF h = "out" THEN {"OUT", "HUP"} ELSE {"IN", "HUP"}) # {}
    <3>1. PICK h \in {"out", "in"} :
            /\ Callback(h)
            /\ Entry.events \cap (IF h = "out" THEN {"OUT", "HUP"} ELSE {"IN", "HUP"}) # {}
      BY <2>6
    <3>2. UNCHANGED <<batch, first>> /\ conn' = Entry.ptr /\ half' = h /\ Entry' = Entry
      BY <2>1, <3>1 DEF Callback, Entry
    <3>3. pc' = IF Entry.ptr = Listener THEN "accept" ELSE "sockopt"
      BY <3>1 DEF Callback
    <3>4. Current' = Current
      BY <2>2, <3>2, <3>3 DEF Current
    <3>5. Batched'
      BY <1>0, <2>1, <2>3, <3>2, <3>4, RestStays DEF Batched
    <3>6. CASE Entry.ptr = Listener
      <4>1. h = "in"
        BY <2>2, <3>1, <3>6 DEF Fit
      <4> QED
        BY <3>2, <3>3, <3>5, <3>6, <4>1 DEF InCallback, InCall
    <3>7. CASE Entry.ptr # Listener
      <4>1. PICK c \in Conns : c = Entry.ptr /\ c = conn' /\ c = Entry'.ptr /\ Target(c)
        BY <2>2, <3>2, <3>7 DEF Fit
      <4>2. Target(conn)'
        BY <2>3, <4>1
      <4> QED
        BY <3>2, <3>3, <3>5, <3>7, <4>1, <4>2 DEF InCallback, InCall
    <3> QED
      BY <3>6, <3>7
  <2> QED
    BY <1>3, <2>4, <2>5, <2>6 DEF LoopOut, LoopIn
<1>4. CASE Accept
  <2>1. PICK c \in Conns :
          /\ obj'[c].activity = "CONNECTING" /\ conn' = c
          /\ \A d \in Conns \ {c} : obj'[d] = obj[d]
          /\ c \in Pooled \cup fresh
    BY <1>4, AcceptDoes
  <2>2. /\ pc = "accept" /\ pc' = "add" /\ UNCHANGED <<batch, first, half>>
        /\ slot'.ptr = conn'
    BY <1>4, <2>1 DEF Accept, EpollEvent
  <2>3. ~ Active(c) /\ Active(c)' /\ c # Listener
    BY <1>0, <2>1 DEF Owned, Active
  <2>4. Current' = c
    BY <2>1, <2>2 DEF Current
  <2>5. Batched'
    <3>1. \A i \in DOMAIN Rest : Rest[i].ptr # Current'
      BY <1>0, <2>2, <2>3, <2>4 DEF Batched, Waiting
    <3>2. \A d \in Conns : Active(d) => Active(d)'
      BY <2>1, <2>3 DEF Active
    <3> QED
      BY <1>0, <2>2, <3>1, <3>2, RestStays
  <2> QED
    BY <1>0, <2>1, <2>2, <2>3, <2>5 DEF InCallback, InCall, Active
<1>5. CASE Add
  <2>1. /\ pc = "add" /\ pc' = "sockopt" /\ UNCHANGED <<obj, fdtab, slot, batch, first, half, conn>>
    BY <1>5 DEF Add, sys_ctl, objVars
  <2>2. Active(conn) /\ half = "in" /\ Current = conn /\ Current' = conn
    BY <1>0, <2>1 DEF InCallback, Current
  <2>3. \A c \in Conns : Active(c)' = Active(c)
    BY <2>1 DEF Active
  <2>4. Batched'
    BY <1>0, <2>1, <2>2, <2>3, RestStays DEF Batched
  <2> QED
    BY <2>1, <2>2, <2>4 DEF InCallback, InCall, Target, Active
<1>6. CASE AcceptNoMemory \/ AcceptFails \/ AddFails
  <2>1. pc \in {"accept", "add"} /\ Return
    BY <1>6 DEF AcceptNoMemory, AcceptFails, AddFails
  <2>2. NextEntry /\ Current = conn /\ ~ Accept
    BY <1>0, <1>6, <2>1 DEF InCallback, Return, Current, Accept, AcceptNoMemory, AcceptFails,
                            AddFails
  <2>3. \A c \in Conns \ {conn} : Active(c)' = Active(c)
    BY <1>0, <2>1, <2>2, OthersStay DEF InCallback
  <2> QED
    BY <2>1, <2>2, <2>3, GoesOn
<1>7. CASE \/ SockoptFails \/ ReadAgain \/ ReadEof \/ Push \/ PushNoMemory \/ NoReply
           \/ LoopModify
  BY <1>7, ReturnsWell DEF SockoptFails, ReadAgain, ReadEof, Push, PushNoMemory, NoReply,
     LoopModify, Reading, InCall
<1>8. CASE \/ SockoptOk \/ SockoptError \/ Read \/ ReadFull \/ ReadReset \/ ReadForever
           \/ WritePart \/ WriteAll \/ WriteKilled \/ WriteAgain \/ WriteError \/ FreeReply
  <2>1. InCall
    BY <1>8 DEF SockoptOk, SockoptError, Read, ReadFull, ReadReset, ReadForever, WritePart,
       WriteAll, WriteKilled, WriteAgain, WriteError, FreeReply, Reading, InCall
  <2>2. UNCHANGED <<batch, first, half, conn>> /\ (InCall' \/ pc' \in {"forever", "killed"})
    <3>1. CASE ReadReset \/ WriteAll
      BY <2>1, <3>1 DEF ReadReset, WriteAll, loopVars, InCall
    <3>2. CASE ~ (ReadReset \/ WriteAll)
      BY <1>8, <3>2 DEF SockoptOk, SockoptError, Read, ReadFull, ReadForever, WritePart,
         WriteKilled, WriteAgain, WriteError, FreeReply, Dispatch, Modify, InCall
    <3> QED
      BY <3>1, <3>2
  <2>3. (slot' = slot /\ pc' # "modify") \/ slot'.ptr = conn
    <3>1. CASE ReadReset \/ WriteAll
      BY <3>1 DEF ReadReset, WriteAll, loopVars, Reading
    <3>2. CASE WriteAgain \/ WriteError \/ FreeReply
      BY <3>2 DEF WriteAgain, WriteError, FreeReply, Modify, EpollEvent
    <3>3. CASE ~ (ReadReset \/ WriteAll \/ WriteAgain \/ WriteError \/ FreeReply)
      BY <1>8, <3>3 DEF SockoptOk, SockoptError, Read, ReadFull, ReadForever, WritePart,
         WriteKilled, Dispatch
    <3> QED
      BY <3>1, <3>2, <3>3
  <2> QED
    BY <2>1, <2>2, <2>3, StaysInCall
<1> QED
  BY <1>1, <1>2, <1>3, <1>4, <1>5, <1>6, <1>7, <1>8, Alone DEF LoopStep

LEMMA AloneNext ==
  ASSUME Senders = {}, RInv, BInv, [Next]_vars
  PROVE  BInv'
<1>1. CASE Next
  BY <1>1, OwnedNext, RegisteredNext, CallbackNext DEF BInv
<1>2. CASE UNCHANGED vars
  <2>1. Owned' /\ Registered'
    BY <1>2 DEF vars, socketVars, objVars, loopVars, BInv, Owned, Registered, Active, Owns, Open,
                Pooled, IsInjective
  <2>2. InCallback' /\ Batched'
    BY <1>2 DEF vars, socketVars, objVars, loopVars, BInv, InCallback, InCall, Batched, Rest,
                Current, Entry, Fit, Waiting, Target, Active, Open
  <2> QED
    BY <2>1, <2>2 DEF BInv
<1> QED
  BY <1>1, <1>2

LEMMA AloneAlways ==
  ASSUME Senders = {}
  PROVE  Spec => []BInv
<1>1. RInv /\ BInv /\ [Next]_vars => BInv'
  BY AloneNext
<1> QED
  BY <1>1, AloneInit, ReactorAlways, PTL DEF Spec

\* The loop alone never confuses two connections, whichever call fails and
\* whoever resets: an open socket has exactly one ConnObj, and a ConnObj
\* marked connected has an open socket.
THEOREM SocketsOwned ==
  ASSUME Senders = {}
  PROVE  Spec => []OneOwner
<1>1. Owned => OneOwner
  <2> SUFFICES ASSUME Owned
               PROVE  OneOwner
    OBVIOUS
  <2>1. ASSUME NEW f \in Fds, Open(f)
        PROVE  Cardinality(Owner(f)) = 1
    <3>1. PICK c \in Conns : Active(c) /\ obj[c].fd = f
      BY <2>1 DEF Owned, Open
    <3>2. Owner(f) = {c}
      BY <3>1 DEF Owned, Owner, Active
    <3> QED
      BY <3>2, FS_Singleton
  <2> QED
    BY <2>1 DEF Owned, OneOwner, Active
<1> QED
  BY <1>1, AloneAlways, PTL DEF BInv

\* ... and epoll watches every open socket under the ConnObj that owns it, so
\* an event is never delivered to the wrong connection.
THEOREM SocketsWatched ==
  ASSUME Senders = {}
  PROVE  Spec => []Watched
<1>1. BInv /\ RInv => Watched
  <2> SUFFICES ASSUME Owned, Registered, InCallback, RInv
               PROVE  Watched
    BY DEF BInv
  <2>1. \A c \in Conns, f \in Fds : Active(c) /\ obj[c].fd = f => c \in Owner(f)
    BY DEF Owned, Owner, Active
  <2>2. ASSUME NEW f \in Fds, reg[f] # None
        PROVE  Open(f) /\ reg[f].ptr \in Owner(f)
    BY <2>1, <2>2 DEF Registered, Owns, Open
  <2>3. ASSUME NEW f \in Fds, Open(f), reg[f] = None
        PROVE  pc = "add" /\ conn \in Owner(f)
    <3>1. pc = "add" /\ obj[conn].fd = f /\ conn \in Conns /\ Active(conn)
      BY <2>3 DEF Registered, Open, InCallback, RInv, InHand
    <3> QED
      BY <2>1, <3>1
  <2> QED
    BY <2>2, <2>3 DEF Watched
<1> QED
  BY <1>1, AloneAlways, ReactorAlways, PTL

-----------------------------------------------------------------------------
(* The pool and the sockets, with or without data threads.                 *)

\* The pool holds each ConnObj once, and only ConnObjs at rest, if the loop is
\* alone or epoll_ctl takes every new socket - whatever is reset meanwhile,
\* and although data threads still write to the ConnObjs of the pool.
THEOREM PoolStaysSound ==
  ASSUME ~ AddMayFail \/ Senders = {}
  PROVE  Spec => []PoolSound
<1>1. PInv => PoolSound
  BY DEF PInv, PoolSound, AtRest
<1>2. BInv => PoolSound
  BY DEF BInv, Owned, PoolSound, Active
<1>3. CASE ~ AddMayFail
  BY <1>1, <1>3, PoolAlways, PTL
<1>4. CASE Senders = {}
  BY <1>2, <1>4, AloneAlways, PTL
<1> QED
  BY <1>3, <1>4

\* Every open socket is known to a ConnObj in use, under the same condition.
THEOREM NoSocketOrphaned ==
  ASSUME ~ AddMayFail \/ Senders = {}
  PROVE  Spec => []NoOrphan
<1>1. PInv => NoOrphan
  BY DEF PInv
<1>2. BInv => NoOrphan
  BY DEF BInv, Owned, NoOrphan, Active, Open
<1>3. CASE ~ AddMayFail
  BY <1>1, <1>3, PoolAlways, PTL
<1>4. CASE Senders = {}
  BY <1>2, <1>4, AloneAlways, PTL
<1> QED
  BY <1>3, <1>4
=============================================================================
