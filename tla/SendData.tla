------------------------------- MODULE SendData -------------------------------
(***************************************************************************)
(* One connection and its replies: ServerSend (server.c) in the data       *)
(* threads allocates a string and leaves its address and length in the     *)
(* ConnObj; event_write (epoll.c) in the epoll thread sends it with        *)
(* sendData (connobj.c), frees it and registers for reading again.         *)
(*                                                                         *)
(* Both sides touch sendptr, sendlen and the registration without a lock;  *)
(* every access that the other side could see is a step of its own.  The   *)
(* argument slot both calls of modify share is in Reactor.  EINTR makes    *)
(* sendData repeat the call and changes nothing.                           *)
(***************************************************************************)
EXTENDS Integers, FiniteSets

CONSTANTS
  SendThreads, \* the data threads
  MaxReplies,  \* bound: replies ever sent
  ReplyLens,   \* how long a reply may be
  Room,        \* size of the socket's send buffer
  MaxDrains    \* bound: times the client empties it

ASSUME SendAssumption ==
  /\ IsFiniteSet(SendThreads)
  /\ {MaxReplies, MaxDrains} \subseteq Nat
  /\ ReplyLens \subseteq Nat \ {0}
  /\ Room \in Nat \ {0}

VARIABLES
  sendptr,     \* connobj->sendptr: a reply, or NoReply
  sendlen,     \* connobj->sendlen
  size,        \* the length of each reply made so far
  dptr,        \* ServerSend's local variable, in each data thread
  tpc,         \* where each data thread is in ServerSend
  wpc,         \* where the epoll thread is in event_write
  len,         \* sendData's local variable
  want,        \* the registration: "IN" or "OUT"
  outEdge,     \* epoll has an EPOLLOUT to report
  room,        \* free bytes in the send buffer
  peer,        \* "up", or "down" when write fails for good
  drains,      \* counter for the bound
  freed,       \* replies given back to malloc
  reached,     \* history: bytes of each reply the kernel took
  nullReply,       \* history: malloc of a reply failed
  stray,       \* history: a write read bytes that are not of a live reply
  mixed        \* history: ServerSend overlapped with the sending of a reply

shared == <<sendptr, sendlen>>
kernel == <<want, outEdge, room, peer, drains>>
ghosts == <<reached, nullReply, stray, mixed>>
sendVars == <<shared, size, dptr, tpc, wpc, len, kernel, freed, ghosts>>

NoReply == 0
Replies == 1..MaxReplies
Made    == {r \in Replies : size[r] > 0}

SendInit ==
  /\ sendptr = NoReply /\ sendlen = 0
  /\ size = [r \in Replies |-> 0]
  /\ dptr = [t \in SendThreads |-> NoReply]
  /\ tpc = [t \in SendThreads |-> "idle"]
  /\ wpc = "wait" /\ len = 0
  /\ want = "IN" /\ outEdge = FALSE
  /\ room = Room /\ peer = "up" /\ drains = 0
  /\ freed = {}
  /\ reached = [r \in Replies |-> 0]
  /\ nullReply = FALSE /\ stray = FALSE /\ mixed = FALSE

\* epoll_ctl(EPOLL_CTL_MOD) looks at the socket at once.
modify(e) ==
  /\ want' = e
  /\ outEdge' = (e = "OUT" /\ (room > 0 \/ peer = "down"))
  /\ UNCHANGED <<room, peer, drains>>

-----------------------------------------------------------------------------
(* ServerSend                                                              *)

TGoto(t, from, to) == tpc[t] = from /\ tpc' = [tpc EXCEPT ![t] = to]

\* CStr_Malloc(data, len); the reply is numbered in the order of the calls.
SendMalloc(t) ==
  /\ TGoto(t, "idle", "ptr")
  /\ \E n \in ReplyLens, r \in Replies \ Made :
       /\ r = Cardinality(Made) + 1
       /\ size' = [size EXCEPT ![r] = n]
       /\ dptr' = [dptr EXCEPT ![t] = r]
  /\ UNCHANGED <<shared, wpc, len, kernel, freed, ghosts>>

\* No memory: NULL becomes the sendptr, and all else is done as if it were
\* a reply.  Bound: malloc fails once.
SendNoMemory(t) ==
  /\ ~ nullReply
  /\ TGoto(t, "idle", "ptr")
  /\ nullReply' = TRUE
  /\ UNCHANGED <<shared, size, dptr, wpc, len, kernel, freed, reached, stray, mixed>>

\* Nothing of an earlier reply is left and nobody else is sending.
Quiet(t) ==
  /\ sendptr = NoReply /\ wpc = "wait"
  /\ \A u \in SendThreads \ {t} : tpc[u] \in {"idle", "ptr"}

SendPtr(t) ==
  /\ TGoto(t, "ptr", "len")
  /\ sendptr' = dptr[t]
  /\ mixed' = (mixed \/ ~ Quiet(t))
  /\ UNCHANGED <<sendlen, size, dptr, wpc, len, kernel, freed, reached, nullReply, stray>>

\* Seeded fault: the terminator of the string is counted.
BadSendLen(t) ==
  /\ TGoto(t, "len", "modify")
  /\ sendlen' \in IF dptr[t] = NoReply THEN ReplyLens ELSE {size[dptr[t]] + 1}
  /\ UNCHANGED <<sendptr, size, dptr, wpc, len, kernel, freed, ghosts>>

SendLen(t) ==
  /\ TGoto(t, "len", "modify")
  /\ sendlen' \in IF dptr[t] = NoReply THEN ReplyLens ELSE {size[dptr[t]]}
  /\ UNCHANGED <<sendptr, size, dptr, wpc, len, kernel, freed, ghosts>>

\* Seeded fault: the registration is left as it was.
BadSendModify(t) ==
  /\ TGoto(t, "modify", "idle")
  /\ dptr' = [dptr EXCEPT ![t] = NoReply]
  /\ UNCHANGED <<shared, size, wpc, len, kernel, freed, ghosts>>

SendModify(t) ==
  /\ TGoto(t, "modify", "idle")
  /\ modify("OUT")
  /\ dptr' = [dptr EXCEPT ![t] = NoReply]
  /\ UNCHANGED <<shared, size, wpc, len, room, peer, drains, freed, ghosts>>

-----------------------------------------------------------------------------
(* event_write                                                             *)

\* An EPOLLOUT is reported, or the bit of another entry is still set.
event_write ==
  /\ wpc = "wait"
  /\ wpc' = "test"
  /\ \/ want = "OUT" /\ outEdge /\ outEdge' = FALSE
     \/ UNCHANGED outEdge
  /\ UNCHANGED <<shared, size, dptr, tpc, len, want, room, peer, drains, freed, ghosts>>

HasReply == sendptr # NoReply /\ sendlen > 0

TestNone ==
  /\ wpc = "test" /\ ~ HasReply
  /\ wpc' = "wait"
  /\ UNCHANGED <<shared, size, dptr, tpc, len, kernel, freed, ghosts>>

\* sendData begins with len = sendlen.
TestReply ==
  /\ wpc = "test" /\ HasReply
  /\ wpc' = "write"
  /\ len' = sendlen
  /\ mixed' = (mixed \/ \E t \in SendThreads : tpc[t] \in {"len", "modify"})
  /\ UNCHANGED <<shared, size, dptr, tpc, kernel, freed, reached, nullReply, stray>>

-----------------------------------------------------------------------------
(* sendData: write(fd, sendptr + sendlen - len, len)                       *)

Offset == sendlen - len

sys_write(n) ==
  /\ room' = room - n
  /\ reached' = [reached EXCEPT ![sendptr] = @ + n]
  /\ stray' = (stray \/ sendptr \in freed \/ Offset < 0 \/ Offset + len > size[sendptr])

\* A data thread had no memory for its reply: NULL was stored meanwhile.
HasText == sendptr # NoReply

\* The kernel took all of it; len is not shortened, so it is written again.
WriteWhole ==
  /\ wpc = "write" /\ peer = "up" /\ HasText /\ len <= room
  /\ sys_write(len)
  /\ UNCHANGED <<shared, size, dptr, tpc, wpc, len, want, outEdge, peer, drains, freed, nullReply, mixed>>

\* The kernel took a part: 0, as if it were all.
WriteSome ==
  /\ wpc = "write" /\ peer = "up" /\ HasText /\ 0 < room /\ room < len
  /\ sys_write(room)
  /\ wpc' = "free"
  /\ UNCHANGED <<shared, size, dptr, tpc, len, want, outEdge, peer, drains, freed, nullReply, mixed>>

\* Seeded fault: after EAGAIN the loop registers for reading.
BadWriteFull ==
  /\ wpc = "write" /\ peer = "up" /\ room = 0
  /\ modify("IN")
  /\ wpc' = "wait"
  /\ UNCHANGED <<shared, size, dptr, tpc, len, room, peer, drains, freed, ghosts>>

\* EAGAIN: -2, the reply stays.
WriteFull ==
  /\ wpc = "write" /\ peer = "up" /\ room = 0
  /\ modify("OUT")
  /\ wpc' = "wait"
  /\ UNCHANGED <<shared, size, dptr, tpc, len, room, peer, drains, freed, ghosts>>

\* Any other error, EFAULT for NULL among them: -1, the reply stays as well.
WriteFails ==
  /\ wpc = "write" /\ (peer = "down" \/ (room > 0 /\ ~ HasText))
  /\ modify("IN")
  /\ wpc' = "wait"
  /\ UNCHANGED <<shared, size, dptr, tpc, len, room, peer, drains, freed, ghosts>>

-----------------------------------------------------------------------------
(* event_write, after sendData returned 0                                  *)

\* Seeded fault: the pointer is not reset after the free.
BadFreeKeep ==
  /\ wpc = "free"
  /\ freed' = freed \cup ({sendptr} \ {NoReply})
  /\ wpc' = "zero"
  /\ UNCHANGED <<shared, size, dptr, tpc, len, kernel, ghosts>>

\* Whatever sendptr holds by now is freed, if it is not NULL.
FreeReply ==
  /\ wpc = "free"
  /\ freed' = freed \cup ({sendptr} \ {NoReply})
  /\ wpc' = IF HasText THEN "null" ELSE "modify"
  /\ UNCHANGED <<shared, size, dptr, tpc, len, kernel, ghosts>>

NullPtr ==
  /\ wpc = "null"
  /\ sendptr' = NoReply
  /\ wpc' = "zero"
  /\ UNCHANGED <<sendlen, size, dptr, tpc, len, kernel, freed, ghosts>>

ZeroLen ==
  /\ wpc = "zero"
  /\ sendlen' = 0
  /\ wpc' = "modify"
  /\ UNCHANGED <<sendptr, size, dptr, tpc, len, kernel, freed, ghosts>>

WriteModify ==
  /\ wpc = "modify"
  /\ modify("IN")
  /\ wpc' = "wait"
  /\ UNCHANGED <<shared, size, dptr, tpc, len, room, peer, drains, freed, ghosts>>

-----------------------------------------------------------------------------
(* The client.                                                             *)

DrainAll ==
  /\ drains < MaxDrains /\ peer = "up" /\ room < Room
  /\ drains' = drains + 1
  /\ room' = Room
  /\ outEdge' = (outEdge \/ want = "OUT")
  /\ UNCHANGED <<shared, size, dptr, tpc, wpc, len, want, peer, freed, ghosts>>

Break ==
  /\ peer = "up"
  /\ peer' = "down"
  /\ outEdge' = (outEdge \/ want = "OUT")
  /\ UNCHANGED <<shared, size, dptr, tpc, wpc, len, want, room, drains, freed, ghosts>>

SendStep(t) == SendMalloc(t) \/ SendNoMemory(t) \/ SendPtr(t) \/ SendLen(t) \/ SendModify(t)

WriteStep ==
  \/ event_write \/ TestNone \/ TestReply
  \/ WriteWhole \/ WriteSome \/ WriteFull \/ WriteFails
  \/ FreeReply \/ NullPtr \/ ZeroLen \/ WriteModify

SendNext == (\E t \in SendThreads : SendStep(t)) \/ WriteStep \/ DrainAll \/ Break

SendSpec == SendInit /\ [][SendNext]_sendVars

-----------------------------------------------------------------------------
(* Properties.                                                             *)

InHands == {dptr[t] : t \in {u \in SendThreads : tpc[u] = "ptr"}} \ {NoReply}
AtRest  == wpc = "wait" /\ \A t \in SendThreads : tpc[t] \in {"idle", "ptr"}

\* Whatever the interleaving of ServerSend and event_write, the reply the
\* epoll thread works with, or will find, was not freed before: nothing is
\* freed twice, and nothing is sent from freed memory.
LiveReply ==
  /\ sendptr # NoReply /\ wpc # "null" => sendptr \notin freed
  /\ InHands \cap freed = {}
  /\ wpc \in {"write", "free"} /\ sendptr = NoReply => nullReply

\* If no ServerSend overlaps with the sending of a reply, every write stays
\* inside the reply, and no reply is lost: each is with its data thread, in
\* the ConnObj, or freed after the kernel took some of it.
RepliesWhole ==
  ~ mixed =>
    /\ ~ stray
    /\ Made \subseteq InHands \cup {sendptr} \cup freed
    /\ \A r \in freed : reached[r] > 0

\* If no ServerSend overlaps with the sending of a reply, the registration
\* is right whenever both sides are at rest: for writing with a reply to
\* send, and then with an edge to come, else for reading - but for a reply
\* there was no memory for.
RegistrationRight ==
  AtRest /\ ~ mixed /\ ~ nullReply /\ peer = "up" =>
    /\ want = "OUT" <=> HasReply
    /\ want = "OUT" /\ room > 0 => outEdge

\* connobj.h:37 calls sendlen the length of the data to send: no more bytes of
\* a reply than that are sent.
SentOnce == \A r \in Replies : reached[r] <= size[r]
=============================================================================
