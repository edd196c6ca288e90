------------------------------- MODULE ReadData -------------------------------
(***************************************************************************)
(* One connection seen by its bytes: readData (connobj.c) and event_read   *)
(* (epoll.c), which copies what was read into the string of an Item, while *)
(* the client goes on sending.                                             *)
(*                                                                         *)
(* Byte k is the k-th byte the client sends.  The kernel's read takes what *)
(* there is, up to the length asked for.  epoll is edge-triggered; that    *)
(* the callback may read without an edge of its own is due to the sticky   *)
(* event bits of epollEvent_wait.  EINTR makes readData repeat the call    *)
(* and changes nothing; resets and closed descriptors are in Reactor.      *)
(***************************************************************************)
EXTENDS Naturals, Sequences, SequencesExt

CONSTANTS
  BufLen,      \* sizeof(recvbuffer)
  MaxBytes     \* bound: bytes the client sends

ASSUME ReadAssumption == BufLen \in Nat \ {0} /\ MaxBytes \in Nat

VARIABLES
  arrived,     \* bytes the client has sent
  fin,         \* the client has closed its side
  taken,       \* bytes the server has read
  inEdge,      \* epoll has an EPOLLIN to report
  recvbuffer,  \* event_read's buffer
  nLen,        \* readData's count
  rpc,         \* where the epoll thread is with this connection
  items,       \* the text of each Item handed to the data threads
  filled,      \* history: some read filled the whole buffer
  noText       \* history: a malloc failed

readVars == <<arrived, fin, taken, inEdge, recvbuffer, nLen, rpc, items, filled, noText>>
peerVars == <<arrived, fin>>

Zero   == 0              \* what the buffer holds before it is written to
Beyond == MaxBytes + 1   \* what lies behind it on the stack
Unread == arrived - taken

ReadInit ==
  /\ arrived = 0 /\ fin = FALSE /\ taken = 0 /\ inEdge = FALSE
  /\ recvbuffer = [i \in 1..BufLen |-> Zero] /\ nLen = 0
  /\ rpc = "wait"
  /\ items = <<>>
  /\ filled = FALSE /\ noText = FALSE

-----------------------------------------------------------------------------
(* The client.                                                             *)

Arrive(n) ==
  /\ ~ fin /\ arrived + n <= MaxBytes
  /\ arrived' = arrived + n
  /\ inEdge' = TRUE
  /\ UNCHANGED <<fin, taken, recvbuffer, nLen, rpc, items, filled, noText>>

Hangup ==
  /\ ~ fin
  /\ fin' = TRUE
  /\ inEdge' = TRUE
  /\ UNCHANGED <<arrived, taken, recvbuffer, nLen, rpc, items, filled, noText>>

-----------------------------------------------------------------------------
(* event_read: the call of recv, with a buffer of zeros.                   *)

Enter ==
  /\ rpc = "wait"
  /\ rpc' = "read"
  /\ recvbuffer' = [i \in 1..BufLen |-> Zero] /\ nLen' = 0
  /\ UNCHANGED <<peerVars, taken, items, filled, noText>>

event_read ==
  /\ Enter
  /\ inEdge /\ inEdge' = FALSE

\* The bit of an earlier entry of the batch is still set.
event_read_sticky ==
  /\ Enter
  /\ UNCHANGED inEdge

-----------------------------------------------------------------------------
(* readData                                                                *)

\* read(fd, ptr, len) stores from the start of the buffer, every time.
sys_read(n) ==
  /\ taken' = taken + n
  /\ nLen' = nLen + n
  /\ recvbuffer' = [i \in 1..BufLen |-> IF i <= n THEN taken + i ELSE recvbuffer[i]]
  /\ filled' = (filled \/ n = BufLen)

Available == IF Unread < BufLen THEN Unread ELSE BufLen

\* Seeded faults: a short read is repeated too, a second read stores behind the
\* first, or less is asked for than there is room.
BadReadOn ==
  /\ rpc = "read" /\ Unread > 0
  /\ sys_read(Available)
  /\ UNCHANGED <<peerVars, inEdge, rpc, items, noText>>

BadReadAppend ==
  /\ rpc = "read" /\ Unread > 0
  /\ taken' = taken + Available /\ nLen' = nLen + Available
  /\ recvbuffer' = [i \in 1..BufLen |-> IF nLen < i /\ i <= nLen' THEN taken + i - nLen
                                        ELSE recvbuffer[i]]
  /\ filled' = (filled \/ Available = BufLen)
  /\ rpc' = IF nLen' = BufLen THEN "read" ELSE "store"
  /\ UNCHANGED <<peerVars, inEdge, items, noText>>

BadReadLess ==
  /\ rpc = "read" /\ Unread > 0
  /\ sys_read(IF Unread < BufLen THEN Unread ELSE BufLen - 1)
  /\ rpc' = IF nLen' = BufLen THEN "read" ELSE "store"
  /\ UNCHANGED <<peerVars, inEdge, items, noText>>

\* The buffer is just full: read once more.  Otherwise that was all.
ReadSome ==
  /\ rpc = "read" /\ Unread > 0
  /\ sys_read(Available)
  /\ rpc' = IF nLen' = BufLen THEN "read" ELSE "store"
  /\ UNCHANGED <<peerVars, inEdge, items, noText>>

\* EAGAIN: -2, whatever was read before; event_read does nothing then.
ReadNothing ==
  /\ rpc = "read" /\ Unread = 0 /\ ~ fin
  /\ rpc' = "wait"
  /\ UNCHANGED <<peerVars, taken, inEdge, recvbuffer, nLen, items, filled, noText>>

\* The end: 0, whatever was read before, and event_read closes the connection.
ReadEnd ==
  /\ rpc = "read" /\ Unread = 0 /\ fin
  /\ nLen' = 0
  /\ rpc' = "closed"
  /\ UNCHANGED <<peerVars, taken, inEdge, recvbuffer, items, filled, noText>>

-----------------------------------------------------------------------------
(* event_read: CStr_Malloc(recvbuffer, recvlen) and the Item.              *)

Text == [i \in 1..nLen |-> IF i <= BufLen THEN recvbuffer[i] ELSE Beyond]

Store ==
  /\ rpc = "store"
  /\ items' = Append(items, Text)
  /\ rpc' = "wait"
  /\ UNCHANGED <<peerVars, taken, inEdge, recvbuffer, nLen, filled, noText>>

\* No memory for the text: the Item goes out without one.  No memory for the
\* Item: nothing goes out.
StoreFails ==
  /\ rpc = "store"
  /\ items' \in {Append(items, <<>>), items}
  /\ noText' = TRUE
  /\ rpc' = "wait"
  /\ UNCHANGED <<peerVars, taken, inEdge, recvbuffer, nLen, filled>>

ReadNext ==
  \/ \E n \in 1..MaxBytes : Arrive(n)
  \/ Hangup
  \/ event_read \/ event_read_sticky
  \/ ReadSome \/ ReadNothing \/ ReadEnd
  \/ Store \/ StoreFails

ReadSpec == ReadInit /\ [][ReadNext]_readVars

-----------------------------------------------------------------------------
(* Properties.                                                             *)

Delivered    == FlattenSeq(items)
UpTo(n)   == [i \in 1..n |-> i]
InHand    == IF rpc = "store" THEN Text ELSE <<>>

\* As long as no read filled the buffer to its last byte, what the Items hold
\* is what the client sent, each byte once and in order, up to what was read;
\* superfluous calls of event_read and data that comes meanwhile change
\* nothing of it.  And nothing is left unread without an edge that will bring
\* the loop back: the short read that ends readData had emptied the socket.
StreamKept ==
  ~ filled =>
    /\ ~ noText => Delivered \o InHand = UpTo(taken)
    /\ Unread > 0 => inEdge \/ rpc = "read"

\* What a full buffer leads to, always: readData never stops at exactly the
\* buffer's length and never gets beyond twice that, and when it exceeds the
\* buffer, the second read has overwritten the start of the first.
FullBuffer ==
  rpc = "store" =>
    /\ nLen # BufLen /\ nLen <= 2 * BufLen
    /\ nLen > BufLen => filled /\ Text[nLen - BufLen] = taken
=============================================================================
