----------------------------- MODULE StreamProofs -----------------------------
(***************************************************************************)
(* Proofs about the two directions of a connection: the replies, for any   *)
(* number of data threads, replies and bytes, and what is read, for any    *)
(* buffer and any number of bytes.                                         *)
(***************************************************************************)
EXTENDS ReadData, SendData, QueueLemmas

USE SendAssumption, ReadAssumption DEF SendAssumption, ReadAssumption

-----------------------------------------------------------------------------
(* Replies: the reply a thread works with.                                 *)

ThreadAt  == {"idle", "ptr", "len", "modify"}
WriterAt  == {"wait", "test", "write", "free", "null", "zero", "modify"}
MaybeReply == Replies \cup {NoReply}

SendTypes ==
  /\ sendptr \in MaybeReply /\ sendlen \in Nat /\ len \in Nat
  /\ size \in [Replies -> Nat]
  /\ dptr \in [SendThreads -> MaybeReply] /\ tpc \in [SendThreads -> ThreadAt]
  /\ wpc \in WriterAt
  /\ want \in {"IN", "OUT"} /\ peer \in {"up", "down"}
  /\ room \in Nat
  /\ reached \in [Replies -> Nat]

\* A reply not yet stored in the ConnObj is with one data thread only.
InOneHand ==
  /\ \A t \in SendThreads : tpc[t] = "ptr" /\ dptr[t] # NoReply =>
       dptr[t] \in Made \ freed /\ dptr[t] # sendptr
  /\ \A t, u \in SendThreads :
       tpc[t] = "ptr" /\ tpc[u] = "ptr" /\ dptr[t] # NoReply /\ dptr[t] = dptr[u] => t = u
  /\ \A t \in SendThreads : /\ tpc[t] = "idle" => dptr[t] = NoReply
                            /\ tpc[t] # "idle" /\ dptr[t] = NoReply => nullReply

\* What was freed, or can be found in the ConnObj, was made.
WasMade == freed \subseteq Made /\ (sendptr # NoReply => sendptr \in Made)

LInv == SendTypes /\ InOneHand /\ WasMade /\ LiveReply

LEMMA LiveInit == SendInit => LInv
<1> SUFFICES ASSUME SendInit
             PROVE  LInv
  OBVIOUS
<1> USE DEF SendInit
<1>1. SendTypes
  BY DEF SendTypes, ThreadAt, WriterAt, MaybeReply
<1>2. InOneHand /\ WasMade /\ LiveReply
  BY DEF InOneHand, WasMade, LiveReply, InHands
<1> QED
  BY <1>1, <1>2 DEF LInv

LEMMA SendTypesNext ==
  ASSUME LInv, [SendNext]_sendVars
  PROVE  SendTypes'
<1> USE DEF SendTypes, shared, kernel, ghosts, sendVars, TGoto
<1>0. SendTypes /\ LiveReply /\ NoReply \notin Replies
  BY DEF LInv, NoReply, Replies
<1>1. ASSUME NEW t \in SendThreads, SendMalloc(t)
      PROVE  SendTypes'
  <2>1. PICK n \in ReplyLens, r \in Replies :
          size' = [size EXCEPT ![r] = n] /\ dptr' = [dptr EXCEPT ![t] = r]
    BY <1>1 DEF SendMalloc
  <2>2. size' \in [Replies -> Nat] /\ dptr' \in [SendThreads -> MaybeReply]
    BY <1>0, <2>1 DEF MaybeReply
  <2> QED
    BY <1>0, <1>1, <2>2 DEF SendMalloc, ThreadAt
<1>2. ASSUME NEW t \in SendThreads, SendNoMemory(t) \/ SendPtr(t)
      PROVE  SendTypes'
  BY <1>0, <1>2 DEF SendNoMemory, SendPtr, ThreadAt
<1>3. ASSUME NEW t \in SendThreads, SendLen(t)
      PROVE  SendTypes'
  <2>1. sendlen' \in Nat
    BY <1>0, <1>3 DEF SendLen, MaybeReply
  <2> QED
    BY <1>0, <1>3, <2>1 DEF SendLen, ThreadAt
<1>4. ASSUME NEW t \in SendThreads, SendModify(t)
      PROVE  SendTypes'
  BY <1>0, <1>4 DEF SendModify, modify, ThreadAt, MaybeReply
<1>5. CASE event_write \/ TestNone \/ TestReply \/ FreeReply \/ NullPtr \/ ZeroLen
  BY <1>0, <1>5 DEF event_write, TestNone, TestReply, FreeReply, NullPtr, ZeroLen, WriterAt,
                    MaybeReply
<1>6. CASE WriteFull \/ WriteFails \/ WriteModify
  BY <1>0, <1>6 DEF WriteFull, WriteFails, WriteModify, modify, WriterAt
<1>7. CASE WriteWhole \/ WriteSome
  <2>1. PICK n \in Nat : n <= room /\ sys_write(n)
    BY <1>0, <1>7 DEF WriteWhole, WriteSome
  <2>2. room' \in Nat
    BY <1>0, <2>1 DEF sys_write
  <2>3. reached' \in [Replies -> Nat]
    <3>1. sendptr \in Replies
      BY <1>0, <1>7 DEF WriteWhole, WriteSome, HasText, MaybeReply
    <3>2. reached' = [reached EXCEPT ![sendptr] = reached[sendptr] + n]
      BY <2>1 DEF sys_write
    <3>3. reached[sendptr] + n \in Nat
      BY <1>0, <3>1
    <3> QED
      BY <1>0, <3>1, <3>2, <3>3
  <2> QED
    BY <1>0, <1>7, <2>2, <2>3 DEF WriteWhole, WriteSome, WriterAt
<1>8. CASE DrainAll \/ Break
  BY <1>0, <1>8 DEF DrainAll, Break
<1>9. CASE UNCHANGED sendVars
  BY <1>0, <1>9
<1> QED
  BY <1>1, <1>2, <1>3, <1>4, <1>5, <1>6, <1>7, <1>8, <1>9 DEF SendNext, SendStep, WriteStep

LEMMA LiveNext ==
  ASSUME LInv, [SendNext]_sendVars
  PROVE  (InOneHand /\ WasMade /\ LiveReply)'
<1> USE DEF shared, kernel, ghosts, sendVars, TGoto
<1>0. /\ SendTypes /\ InOneHand /\ WasMade /\ LiveReply
      /\ NoReply \notin Replies /\ Made \subseteq Replies
  BY DEF LInv, NoReply, Replies, Made
<1>1. ASSUME NEW t \in SendThreads, SendMalloc(t)
      PROVE  (InOneHand /\ WasMade /\ LiveReply)'
  <2>1. PICK n \in ReplyLens, r \in Replies \ Made :
          /\ size' = [size EXCEPT ![r] = n] /\ dptr' = [dptr EXCEPT ![t] = r]
          /\ tpc' = [tpc EXCEPT ![t] = "ptr"] /\ tpc[t] = "idle"
          /\ UNCHANGED <<sendptr, wpc, freed, nullReply>>
    BY <1>1 DEF SendMalloc
  <2>2. Made' = Made \cup {r}
    BY <1>0, <2>1 DEF Made, SendTypes
  <2>3. r \notin freed /\ r # sendptr /\ r # NoReply
    BY <1>0, <2>1 DEF WasMade
  <2>4. InOneHand' /\ WasMade'
    BY <1>0, <2>1, <2>2, <2>3 DEF InOneHand, WasMade, SendTypes
  <2>5. InHands' \subseteq InHands \cup {r}
    BY <1>0, <2>1 DEF InHands, SendTypes
  <2> QED
    BY <1>0, <2>1, <2>3, <2>4, <2>5 DEF LiveReply
<1>2. ASSUME NEW t \in SendThreads, SendNoMemory(t)
      PROVE  (InOneHand /\ WasMade /\ LiveReply)'
  <2>1. /\ tpc' = [tpc EXCEPT ![t] = "ptr"] /\ tpc[t] = "idle" /\ nullReply'
        /\ UNCHANGED <<sendptr, size, dptr, wpc, freed>>
    BY <1>2 DEF SendNoMemory
  <2> QED
    BY <1>0, <2>1 DEF InOneHand, WasMade, LiveReply, InHands, Made, SendTypes
<1>3. ASSUME NEW t \in SendThreads, SendPtr(t)
      PROVE  (InOneHand /\ WasMade /\ LiveReply)'
  <2>1. /\ tpc' = [tpc EXCEPT ![t] = "len"] /\ tpc[t] = "ptr" /\ sendptr' = dptr[t]
        /\ UNCHANGED <<size, dptr, wpc, freed, nullReply>>
    BY <1>3 DEF SendPtr
  <2>2. Made' = Made /\ InHands' \subseteq InHands
    BY <1>0, <2>1 DEF Made, InHands, SendTypes
  <2>3. InOneHand' /\ WasMade'
    BY <1>0, <2>1, <2>2 DEF InOneHand, WasMade, SendTypes
  <2>4. LiveReply'
    BY <1>0, <2>1, <2>2 DEF InOneHand, LiveReply
  <2> QED
    BY <2>3, <2>4
<1>4. ASSUME NEW t \in SendThreads, SendLen(t) \/ SendModify(t)
      PROVE  (InOneHand /\ WasMade /\ LiveReply)'
  <2>1. /\ \A u \in SendThreads : tpc'[u] = "ptr" <=> tpc[u] = "ptr"
        /\ \A u \in SendThreads : tpc[u] = "ptr" => dptr'[u] = dptr[u]
        /\ \A u \in SendThreads : tpc'[u] # "idle" => tpc[u] # "idle" /\ dptr'[u] = dptr[u]
        /\ \A u \in SendThreads : tpc'[u] = "idle" => \/ tpc[u] = "idle" /\ dptr'[u] = dptr[u]
                                                     \/ dptr'[u] = NoReply
        /\ UNCHANGED <<sendptr, size, wpc, freed, nullReply>>
    BY <1>0, <1>4 DEF SendLen, SendModify, SendTypes
  <2>2. Made' = Made /\ InHands' = InHands
    BY <2>1 DEF Made, InHands
  <2> QED
    BY <1>0, <2>1, <2>2 DEF InOneHand, WasMade, LiveReply
<1>5. CASE FreeReply
  <2>1. /\ freed' = freed \cup ({sendptr} \ {NoReply}) /\ wpc = "free"
        /\ wpc' = IF sendptr # NoReply THEN "null" ELSE "modify"
        /\ UNCHANGED <<sendptr, size, dptr, tpc, nullReply>>
    BY <1>5 DEF FreeReply, HasText
  <2>2. Made' = Made /\ InHands' = InHands
    BY <2>1 DEF Made, InHands
  <2>3. sendptr \notin InHands \/ sendptr = NoReply
    BY <1>0 DEF InHands, InOneHand
  <2> QED
    BY <1>0, <2>1, <2>2, <2>3 DEF InOneHand, WasMade, LiveReply
<1>6. CASE NullPtr
  <2>1. wpc' = "zero" /\ sendptr' = NoReply /\ UNCHANGED <<size, dptr, tpc, nullReply, freed>>
    BY <1>6 DEF NullPtr
  <2>2. Made' = Made /\ InHands' = InHands
    BY <2>1 DEF Made, InHands
  <2> QED
    BY <1>0, <2>1, <2>2 DEF InOneHand, WasMade, LiveReply
<1>7. CASE \/ event_write \/ TestNone \/ TestReply \/ WriteWhole \/ WriteSome \/ WriteFull
           \/ WriteFails \/ ZeroLen \/ WriteModify \/ DrainAll \/ Break \/ UNCHANGED sendVars
  <2>1. /\ UNCHANGED <<sendptr, size, dptr, tpc, nullReply, freed>>
        /\ wpc = "null" => wpc' = "null"
        /\ wpc' \in {"write", "free"} => wpc \in {"write", "free"} \/ sendptr # NoReply
    BY <1>7 DEF event_write, TestNone, TestReply, WriteWhole, WriteSome, WriteFull, WriteFails,
                ZeroLen, WriteModify, DrainAll, Break, HasReply
  <2>2. Made' = Made /\ InHands' = InHands
    BY <2>1 DEF Made, InHands
  <2> QED
    BY <1>0, <2>1, <2>2 DEF InOneHand, WasMade, LiveReply
<1> QED
  BY <1>1, <1>2, <1>3, <1>4, <1>5, <1>6, <1>7 DEF SendNext, SendStep, WriteStep

LEMMA LiveAlways == SendSpec => []LInv
<1>1. LInv /\ [SendNext]_sendVars => LInv'
  BY SendTypesNext, LiveNext DEF LInv
<1> QED
  BY <1>1, LiveInit, PTL DEF SendSpec

\* Whatever the interleaving of the data threads' ServerSend with the epoll
\* thread's event_write, no reply is freed twice or sent after it was freed.
THEOREM RepliesLive == SendSpec => []LiveReply
<1>1. LInv => LiveReply
  BY DEF LInv
<1> QED
  BY <1>1, LiveAlways, PTL

-----------------------------------------------------------------------------
(* Replies: as long as no ServerSend overlaps with the sending of a reply. *)

Sending(t) == tpc[t] \in {"len", "modify"}
NoneSending == \A t \in SendThreads : ~ Sending(t)

\* Then at most one of the two sides is at work on the ConnObj, and length
\* and text of what it finds there belong together.
Turns ==
  /\ \A t, u \in SendThreads : Sending(t) /\ Sending(u) => t = u
  /\ wpc \notin {"wait", "test"} => NoneSending
  /\ \A t \in SendThreads : Sending(t) => sendptr = dptr[t]
  /\ \A t \in SendThreads : tpc[t] = "modify" =>
       sendlen > 0 /\ (sendptr # NoReply => sendlen = size[sendptr])
  /\ NoneSending /\ sendptr # NoReply => sendlen = size[sendptr]
  /\ wpc \in {"write", "free"} => sendptr # NoReply
  /\ wpc = "write" => len = sendlen
  /\ wpc = "free" => reached[sendptr] > 0
  /\ wpc = "null" => sendptr \in freed
  /\ wpc \in {"zero", "modify"} => sendptr = NoReply

\* The registration follows.
Asked ==
  ~ nullReply /\ peer = "up" =>
    /\ NoneSending /\ wpc \in {"wait", "test"} => (want = "OUT" <=> sendptr # NoReply)
    /\ NoneSending /\ wpc = "wait" /\ want = "OUT" /\ room > 0 => outEdge

TInv == RepliesWhole /\ (~ mixed => Turns /\ Asked)

LEMMA TurnsInit == SendInit => TInv
  BY DEF SendInit, TInv, Turns, Asked, RepliesWhole, Made, InHands, Sending, NoneSending

LEMMA TurnsNext ==
  ASSUME LInv, LInv', TInv, [SendNext]_sendVars
  PROVE  TInv'
<1> USE DEF shared, kernel, ghosts, sendVars, TGoto
<1>a. mixed' \/ ~ mixed
  BY DEF SendNext, SendStep, WriteStep, SendMalloc, SendNoMemory, SendPtr, SendLen, SendModify,
         event_write, TestNone, TestReply, WriteWhole, WriteSome, WriteFull, WriteFails,
         FreeReply, NullPtr, ZeroLen, WriteModify, DrainAll, Break
<1> SUFFICES ASSUME ~ mixed'
             PROVE  RepliesWhole' /\ Turns' /\ Asked'
  BY DEF TInv, RepliesWhole
<1>0. /\ SendTypes /\ InOneHand /\ WasMade /\ LiveReply /\ Turns /\ Asked /\ ~ mixed
      /\ ~ stray /\ Made \subseteq InHands \cup {sendptr} \cup freed
      /\ \A r \in freed : reached[r] > 0
      /\ NoReply \notin Replies /\ Made \subseteq Replies
  BY <1>a DEF LInv, TInv, RepliesWhole, NoReply, Replies, Made
<1>1. ASSUME NEW t \in SendThreads, SendMalloc(t)
      PROVE  RepliesWhole' /\ Turns' /\ Asked'
  <2>1. PICK n \in ReplyLens, r \in Replies \ Made :
          /\ size' = [size EXCEPT ![r] = n] /\ dptr' = [dptr EXCEPT ![t] = r]
          /\ tpc' = [tpc EXCEPT ![t] = "ptr"] /\ tpc[t] = "idle"
          /\ UNCHANGED <<shared, wpc, len, kernel, freed, ghosts>>
    BY <1>1 DEF SendMalloc
  <2>2. Made' = Made \cup {r} /\ InHands' = InHands \cup {r}
    <3>1. Made' = Made \cup {r}
      BY <1>0, <2>1 DEF Made, SendTypes
    <3>2. r # NoReply /\ InHands \subseteq InHands' /\ r \in InHands'
      BY <1>0, <2>1 DEF InHands, SendTypes
    <3>3. InHands' \subseteq InHands \cup {r}
      BY <1>0, <2>1 DEF InHands, SendTypes
    <3> QED
      BY <3>1, <3>2, <3>3
  <2>3. \A u \in SendThreads : /\ Sending(u)' <=> Sending(u)
                               /\ tpc'[u] = "modify" <=> tpc[u] = "modify"
                               /\ Sending(u) => dptr'[u] = dptr[u]
    BY <1>0, <2>1 DEF Sending, SendTypes
  <2>4. sendptr # NoReply => size'[sendptr] = size[sendptr]
    BY <1>0, <2>1 DEF WasMade, SendTypes
  <2>5. RepliesWhole'
    BY <1>0, <2>1, <2>2 DEF RepliesWhole
  <2>6. Turns' /\ Asked'
    BY <1>0, <2>1, <2>3, <2>4 DEF Turns, Asked, NoneSending
  <2> QED
    BY <2>5, <2>6
<1>2. ASSUME NEW t \in SendThreads, SendNoMemory(t)
      PROVE  RepliesWhole' /\ Turns' /\ Asked'
  <2>1. /\ tpc' = [tpc EXCEPT ![t] = "ptr"] /\ tpc[t] = "idle" /\ nullReply'
        /\ UNCHANGED <<shared, size, dptr, wpc, len, kernel, freed, reached, stray, mixed>>
    BY <1>2 DEF SendNoMemory
  <2>2. \A u \in SendThreads : /\ Sending(u)' <=> Sending(u)
                               /\ tpc'[u] = "modify" <=> tpc[u] = "modify"
    BY <1>0, <2>1 DEF Sending, SendTypes
  <2>3. Made' = Made /\ InHands \subseteq InHands'
    BY <1>0, <2>1 DEF Made, InHands, SendTypes
  <2>4. RepliesWhole'
    BY <1>0, <2>1, <2>3 DEF RepliesWhole
  <2>5. Turns' /\ Asked'
    BY <1>0, <2>1, <2>2 DEF Turns, Asked, NoneSending
  <2> QED
    BY <2>4, <2>5
<1>3. ASSUME NEW t \in SendThreads, SendPtr(t)
      PROVE  RepliesWhole' /\ Turns' /\ Asked'
  <2>1. /\ tpc' = [tpc EXCEPT ![t] = "len"] /\ tpc[t] = "ptr" /\ sendptr' = dptr[t]
        /\ UNCHANGED <<sendlen, size, dptr, wpc, len, kernel, freed, reached, nullReply, stray>>
        /\ Quiet(t)
    BY <1>3 DEF SendPtr
  <2>2. /\ sendptr = NoReply /\ wpc = "wait"
        /\ \A u \in SendThreads : ~ Sending(u) /\ (Sending(u)' <=> u = t)
        /\ \A u \in SendThreads : tpc'[u] # "modify"
    BY <1>0, <2>1 DEF Quiet, Sending, SendTypes
  <2>3. Made' = Made /\ InHands \subseteq InHands' \cup {dptr[t]}
    BY <1>0, <2>1 DEF Made, InHands, SendTypes
  <2>4. RepliesWhole'
    BY <1>0, <2>1, <2>2, <2>3 DEF RepliesWhole, Made
  <2>5. Turns' /\ Asked'
    BY <1>0, <2>1, <2>2 DEF Turns, Asked, NoneSending
  <2> QED
    BY <2>4, <2>5
<1>4. ASSUME NEW t \in SendThreads, SendLen(t)
      PROVE  RepliesWhole' /\ Turns' /\ Asked'
  <2>1. /\ tpc' = [tpc EXCEPT ![t] = "modify"] /\ tpc[t] = "len"
        /\ sendlen' \in IF dptr[t] = NoReply THEN ReplyLens ELSE {size[dptr[t]]}
        /\ UNCHANGED <<sendptr, size, dptr, wpc, len, kernel, freed, ghosts>>
    BY <1>4 DEF SendLen
  <2>2. /\ \A u \in SendThreads : (Sending(u)' <=> Sending(u)) /\ (Sending(u) <=> u = t)
        /\ sendptr = dptr[t] /\ wpc \in {"wait", "test"}
    BY <1>0, <2>1 DEF Sending, Turns, NoneSending, SendTypes, WriterAt
  <2>3. sendlen' > 0 /\ (sendptr # NoReply => sendlen' = size[sendptr])
    <3>1. sendptr # NoReply => size[sendptr] > 0
      BY <1>0 DEF WasMade, Made
    <3> QED
      BY <2>1, <2>2, <3>1
  <2>4. Made' = Made /\ InHands' = InHands
    BY <1>0, <2>1 DEF Made, InHands, SendTypes
  <2>5. RepliesWhole'
    BY <1>0, <2>1, <2>4 DEF RepliesWhole
  <2>6. Turns' /\ Asked'
    BY <1>0, <2>1, <2>2, <2>3 DEF Turns, Asked, NoneSending, SendTypes
  <2> QED
    BY <2>5, <2>6
<1>5. ASSUME NEW t \in SendThreads, SendModify(t)
      PROVE  RepliesWhole' /\ Turns' /\ Asked'
  <2>1. /\ tpc' = [tpc EXCEPT ![t] = "idle"] /\ tpc[t] = "modify"
        /\ dptr' = [dptr EXCEPT ![t] = NoReply]
        /\ want' = "OUT" /\ (room > 0 => outEdge')
        /\ UNCHANGED <<shared, size, wpc, len, room, peer, drains, freed, ghosts>>
    BY <1>5 DEF SendModify, modify
  <2>2. /\ \A u \in SendThreads : ~ Sending(u)' /\ (Sending(u) <=> u = t)
        /\ sendptr = dptr[t] /\ wpc \in {"wait", "test"}
        /\ \A u \in SendThreads : tpc'[u] # "modify"
    BY <1>0, <2>1 DEF Sending, Turns, NoneSending, SendTypes, WriterAt
  <2>3. sendptr # NoReply => sendlen = size[sendptr]
    BY <1>0, <2>1 DEF Turns
  <2>4. sendptr = NoReply => nullReply
    BY <1>0, <2>1, <2>2 DEF InOneHand
  <2>5. Made' = Made /\ InHands' = InHands
    BY <1>0, <2>1 DEF Made, InHands, SendTypes
  <2>6. RepliesWhole'
    BY <1>0, <2>1, <2>5 DEF RepliesWhole
  <2>7. Turns' /\ Asked'
    BY <1>0, <2>1, <2>2, <2>3, <2>4 DEF Turns, Asked, NoneSending
  <2> QED
    BY <2>6, <2>7
<1>6. ASSUME UNCHANGED <<size, dptr, tpc>>
      PROVE  /\ Made' = Made /\ InHands' = InHands
             /\ NoneSending' = NoneSending
             /\ \A u \in SendThreads : Sending(u)' = Sending(u)
  BY <1>6 DEF Made, InHands, NoneSending, Sending
<1>7. CASE WriteStep
  <2>1. UNCHANGED <<size, dptr, tpc, nullReply, peer>>
    BY <1>7 DEF WriteStep, event_write, TestNone, TestReply, WriteWhole, WriteSome, WriteFull,
                WriteFails, FreeReply, NullPtr, ZeroLen, WriteModify, modify
  <2>2. /\ Made' = Made /\ InHands' = InHands /\ NoneSending' = NoneSending
        /\ \A u \in SendThreads : Sending(u)' = Sending(u)
    BY <1>6, <2>1
  <2>3. sendptr # NoReply => size[sendptr] > 0
    BY <1>0 DEF WasMade, Made
  <2>4. CASE event_write
    BY <1>0, <2>1, <2>2, <2>4 DEF event_write, RepliesWhole, Turns, Asked
  <2>5. CASE TestNone
    BY <1>0, <2>1, <2>2, <2>3, <2>5 DEF TestNone, HasReply, RepliesWhole, Turns, Asked
  <2>6. CASE TestReply
    BY <1>0, <2>1, <2>2, <2>6 DEF TestReply, HasReply, RepliesWhole, Turns, Asked, Sending,
                                  NoneSending
  <2>7. CASE WriteWhole \/ WriteSome
    <3>1. PICK n \in Nat : sys_write(n) /\ (WriteSome => n > 0)
      BY <1>0, <2>7 DEF WriteWhole, WriteSome, SendTypes
    <3>2. wpc = "write" /\ NoneSending /\ sendptr \in Replies /\ sendptr \notin freed
      BY <1>0, <2>7 DEF WriteWhole, WriteSome, Turns, LiveReply, SendTypes, MaybeReply
    <3>3. Offset = 0 /\ Offset + len <= size[sendptr]
      BY <1>0, <3>2 DEF Offset, Turns, SendTypes
    <3>4. ~ stray'
      <4>1. Offset \in Int /\ ~ (Offset < 0) /\ ~ (Offset + len > size[sendptr])
        BY <1>0, <3>2, <3>3 DEF Offset, SendTypes
      <4>2. stray' = (stray \/ sendptr \in freed \/ Offset < 0 \/ Offset + len > size[sendptr])
        BY <3>1 DEF sys_write
      <4> QED
        BY <1>0, <3>2, <4>1, <4>2, Zenon
    <3>5. reached' = [reached EXCEPT ![sendptr] = reached[sendptr] + n]
      BY <3>1 DEF sys_write
    <3>6. /\ \A r \in Replies : r # sendptr => reached'[r] = reached[r]
          /\ reached'[sendptr] = reached[sendptr] + n /\ reached[sendptr] \in Nat
      BY <1>0, <3>2, <3>5 DEF SendTypes
    <3>7. UNCHANGED <<shared, len, freed>> /\ wpc' \in {"write", "free"} /\ (WriteWhole => wpc' = "write")
      BY <2>7, <3>2 DEF WriteWhole, WriteSome
    <3>8. RepliesWhole'
      BY <1>0, <2>2, <3>2, <3>4, <3>6, <3>7 DEF RepliesWhole, WasMade
    <3>9. wpc' = "free" => reached'[sendptr] > 0
      BY <2>7, <3>1, <3>6, <3>7
    <3>10. Turns' /\ Asked'
      BY <1>0, <2>1, <2>2, <3>2, <3>7, <3>9 DEF Turns, Asked
    <3> QED
      BY <3>8, <3>10
  <2>8. CASE WriteFull
    BY <1>0, <2>1, <2>2, <2>8 DEF WriteFull, modify, RepliesWhole, Turns, Asked
  <2>9. CASE WriteFails
    BY <1>0, <2>1, <2>2, <2>9 DEF WriteFails, HasText, modify, RepliesWhole, Turns, Asked
  <2>10. CASE FreeReply
    <3>1. /\ wpc = "free" /\ sendptr # NoReply /\ freed' = freed \cup {sendptr} /\ wpc' = "null"
          /\ UNCHANGED <<shared, len, kernel, ghosts>>
      BY <1>0, <2>10 DEF FreeReply, HasText, Turns
    <3>2. NoneSending /\ reached[sendptr] > 0
      BY <1>0, <3>1 DEF Turns
    <3> QED
      BY <1>0, <2>1, <2>2, <3>1, <3>2 DEF RepliesWhole, Turns, Asked
  <2>11. CASE NullPtr
    <3>1. /\ wpc = "null" /\ sendptr \in freed /\ sendptr' = NoReply /\ wpc' = "zero"
          /\ NoneSending /\ UNCHANGED <<sendlen, len, kernel, freed, ghosts>>
      BY <1>0, <2>11 DEF NullPtr, Turns
    <3> QED
      <4>1. RepliesWhole'
        BY <1>0, <2>2, <3>1 DEF RepliesWhole
      <4>2. /\ \A u \in SendThreads : ~ Sending(u)' /\ tpc'[u] # "modify"
            /\ NoneSending'
        BY <2>1, <2>2, <3>1 DEF Sending, NoneSending
      <4> QED
        BY <1>0, <2>1, <3>1, <4>1, <4>2 DEF Turns, Asked
  <2>12. CASE ZeroLen
    <3>1. /\ wpc = "zero" /\ sendptr = NoReply /\ wpc' = "modify" /\ NoneSending
          /\ UNCHANGED <<sendptr, len, kernel, freed, ghosts>>
      BY <1>0, <2>12 DEF ZeroLen, Turns
    <3>2. \A u \in SendThreads : tpc'[u] # "modify"
      BY <2>1, <3>1 DEF Sending, NoneSending
    <3> QED
      BY <1>0, <2>1, <2>2, <3>1, <3>2 DEF RepliesWhole, Turns, Asked
  <2>13. CASE WriteModify
    BY <1>0, <2>1, <2>2, <2>13 DEF WriteModify, modify, RepliesWhole, Turns, Asked
  <2> QED
    BY <1>7, <2>4, <2>5, <2>6, <2>7, <2>8, <2>9, <2>10, <2>11, <2>12, <2>13 DEF WriteStep
<1>8. CASE DrainAll \/ Break \/ UNCHANGED sendVars
  <2>1. /\ UNCHANGED <<shared, size, dptr, tpc, wpc, len, want, freed, ghosts>>
        /\ outEdge => outEdge'
        /\ peer' = "up" => peer = "up"
        /\ want = "OUT" => outEdge' \/ room' = room
    <3>1. CASE DrainAll
      BY <3>1 DEF DrainAll
    <3>2. CASE Break
      BY <3>2 DEF Break
    <3> QED
      BY <1>8, <3>1, <3>2
  <2>2. /\ Made' = Made /\ InHands' = InHands /\ NoneSending' = NoneSending
        /\ \A u \in SendThreads : Sending(u)' = Sending(u)
    BY <1>6, <2>1
  <2> QED
    BY <1>0, <2>1, <2>2 DEF RepliesWhole, Turns, Asked
<1> QED
  BY <1>1, <1>2, <1>3, <1>4, <1>5, <1>7, <1>8 DEF SendNext, SendStep

LEMMA TurnsAlways == SendSpec => []TInv
<1>1. LInv /\ LInv' /\ TInv /\ [SendNext]_sendVars => TInv'
  BY TurnsNext
<1> QED
  BY <1>1, TurnsInit, LiveAlways, PTL DEF SendSpec

\* As long as no ServerSend overlaps with the sending of a reply, no byte that
\* is not of the reply is sent, and no reply is lost or freed unsent.
THEOREM RepliesStayWhole == SendSpec => []RepliesWhole
<1>1. TInv => RepliesWhole
  BY DEF TInv
<1> QED
  BY <1>1, TurnsAlways, PTL

\* As long as no ServerSend overlaps with the sending of a reply, the loop is
\* registered for writing when, and only when, there is a reply to send, and
\* the edge that brings it there is not lost.
THEOREM RegisteredForReplies == SendSpec => []RegistrationRight
<1>1. LInv /\ TInv => RegistrationRight
  BY DEF LInv, WasMade, Made, TInv, Turns, Asked, RegistrationRight, AtRest, HasReply, Sending,
         NoneSending
<1> QED
  BY <1>1, LiveAlways, TurnsAlways, PTL

-----------------------------------------------------------------------------
(* What is read: the buffer.                                               *)

ReadTypes ==
  /\ arrived \in Nat /\ taken \in Nat /\ taken <= arrived
  /\ nLen \in Nat
  /\ recvbuffer \in [1..BufLen -> Nat]
  /\ items \in Seq(Seq(Nat))

\* readData goes on exactly when what it has read fills the buffer.
Rounds ==
  /\ nLen = BufLen => rpc # "store"
  /\ rpc = "read" => nLen = 0 \/ (nLen = BufLen /\ filled)

BufInv == ReadTypes /\ Rounds /\ FullBuffer

LEMMA BufInit == ReadInit => BufInv
  BY DEF ReadInit, BufInv, ReadTypes, Rounds, FullBuffer, Zero

\* One read, in numbers.
LEMMA OneRead ==
  ASSUME ReadTypes, Unread > 0
  PROVE  /\ Available \in 1..BufLen /\ taken + Available <= arrived
         /\ Available # BufLen => taken + Available = arrived
  BY DEF ReadTypes, Unread, Available

\* The text of an Item is made of numbers, as many as readData counted.
LEMMA TextTyped ==
  ASSUME ReadTypes
  PROVE  Text \in Seq(Nat) /\ Len(Text) = nLen /\ InHand \in Seq(Nat)
<1>1. \A i \in 1..nLen : (IF i <= BufLen THEN recvbuffer[i] ELSE Beyond) \in Nat
  BY DEF ReadTypes, Beyond
<1> QED
  BY <1>1 DEF ReadTypes, Text, InHand

LEMMA BufNext == BufInv /\ [ReadNext]_readVars => BufInv'
<1> SUFFICES ASSUME BufInv, [ReadNext]_readVars
             PROVE  BufInv'
  OBVIOUS
<1> USE DEF BufInv, peerVars
<1>1. ASSUME NEW n \in 1..MaxBytes, Arrive(n)
      PROVE  BufInv'
  BY <1>1 DEF Arrive, ReadTypes, Rounds, FullBuffer, Text, Beyond
<1>2. ASSUME Hangup
      PROVE  BufInv'
  BY <1>2 DEF Hangup, ReadTypes, Rounds, FullBuffer, Text, Beyond
<1>empty. ASSUME ReadNothing \/ ReadEnd
      PROVE  BufInv'
  BY <1>empty DEF ReadNothing, ReadEnd, ReadTypes, Rounds, FullBuffer
<1>3. ASSUME Enter
      PROVE  BufInv'
  BY <1>3 DEF Enter, ReadTypes, Rounds, FullBuffer, Zero
<1>4. ASSUME ReadSome
      PROVE  BufInv'
  <2> DEFINE n == Available
  <2>1. /\ n \in 1..BufLen /\ taken + n <= arrived
        /\ rpc = "read"
        /\ taken' = taken + n /\ nLen' = nLen + n /\ arrived' = arrived
        /\ recvbuffer' = [i \in 1..BufLen |-> IF i <= n THEN taken + i ELSE recvbuffer[i]]
        /\ filled' = (filled \/ n = BufLen)
        /\ rpc' = IF nLen' = BufLen THEN "read" ELSE "store"
        /\ items' = items
    BY <1>4, OneRead DEF ReadSome, sys_read
  <2> HIDE DEF n
  <2>2. nLen = 0 \/ (nLen = BufLen /\ filled)
    BY <2>1 DEF Rounds
  <2>3. ReadTypes'
    BY <2>1 DEF ReadTypes
  <2>4. Rounds'
    <3>1. CASE nLen = 0
      <4>1. nLen' = n
        BY <2>1, <3>1
      <4> QED
        BY <2>1, <4>1 DEF Rounds
    <3>2. CASE nLen = BufLen /\ filled
      <4>1. BufLen + n # BufLen
        BY <2>1
      <4> QED
        BY <2>1, <3>2, <4>1 DEF Rounds
    <3> QED
      BY <2>2, <3>1, <3>2
  <2>5. FullBuffer'
    <3>1. CASE nLen = 0
      BY <2>1, <3>1 DEF FullBuffer
    <3>2. CASE nLen = BufLen /\ filled
      <4>1. nLen' # BufLen /\ nLen' <= 2 * BufLen /\ nLen' - BufLen = n /\ n \in 1..nLen'
        BY <2>1, <3>2
      <4>2. Text' = [i \in 1..nLen' |-> IF i <= BufLen THEN recvbuffer'[i] ELSE Beyond]
        BY DEF Text, Beyond
      <4>3. Text'[n] = taken'
        BY <2>1, <4>1, <4>2
      <4> QED
        BY <2>1, <3>2, <4>1, <4>3 DEF FullBuffer
    <3> QED
      BY <2>2, <3>1, <3>2
  <2> QED
    BY <2>3, <2>4, <2>5
<1>5. ASSUME Store \/ StoreFails
      PROVE  BufInv'
  <2>1. Append(items, Text) \in Seq(Seq(Nat)) /\ Append(items, <<>>) \in Seq(Seq(Nat))
    BY TextTyped, AppendProperties DEF ReadTypes
  <2> QED
    BY <1>5, <2>1 DEF Store, StoreFails, ReadTypes, Rounds, FullBuffer
<1>6. CASE UNCHANGED readVars
  BY <1>6 DEF readVars, ReadTypes, Rounds, FullBuffer, Text, Beyond
<1> QED
  BY <1>1, <1>2, <1>empty, <1>3, <1>4, <1>5, <1>6 DEF ReadNext, event_read, event_read_sticky

LEMMA BufAlways == ReadSpec => []BufInv
  BY BufInit, BufNext, PTL DEF ReadSpec

\* Whatever the buffer's length and whatever arrives, readData never returns
\* exactly the buffer's length nor more than twice that, and what exceeds the
\* buffer was stored over its start.
THEOREM BufferOverwritten == ReadSpec => []FullBuffer
<1>1. BufInv => FullBuffer
  BY DEF BufInv
<1> QED
  BY <1>1, BufAlways, PTL

-----------------------------------------------------------------------------
(* What is read: nothing is lost.                                          *)

\* n bytes and the m that follow them are n + m bytes.
LEMMA BytesJoin ==
  ASSUME NEW n \in Nat, NEW m \in Nat
  PROVE  UpTo(n) \o [i \in 1..m |-> n + i] = UpTo(n + m)
<1> DEFINE a == UpTo(n)
           b == [i \in 1..m |-> n + i]
<1>1. a \in Seq(Nat) /\ Len(a) = n /\ \A i \in 1..n : a[i] = i
  BY DEF UpTo
<1>2. b \in Seq(Nat) /\ Len(b) = m /\ \A i \in 1..m : b[i] = n + i
  OBVIOUS
<1> HIDE DEF a, b
<1>3. /\ a \o b \in Seq(Nat) /\ Len(a \o b) = n + m
      /\ \A i \in 1..n + m : (a \o b)[i] = IF i <= n THEN a[i] ELSE b[i - n]
  BY <1>1, <1>2, ConcatProperties
<1>4. \A i \in 1..n + m : (a \o b)[i] = i
  BY <1>1, <1>2, <1>3
<1> QED
  BY <1>3, <1>4 DEF UpTo, a, b

LEMMA StreamInit == ReadInit => StreamKept
<1> SUFFICES ASSUME ReadInit
             PROVE  StreamKept
  OBVIOUS
<1>1. FlattenSeq(items) = <<>> /\ InHand = <<>>
  <2>1. <<>> \in Seq(Seq(Nat)) /\ <<>> \in Seq(Nat)
    OBVIOUS
  <2>2. FlattenSeq(<<>>) = <<>>
    BY <2>1, FlattenAppend
  <2> QED
    BY <2>2 DEF ReadInit, InHand
<1>2. UpTo(taken) = <<>> /\ Unread = 0
  BY DEF ReadInit, UpTo, Unread
<1>3. <<>> \o <<>> = <<>>
  OBVIOUS
<1> QED
  BY <1>1, <1>2, <1>3 DEF StreamKept, Delivered

LEMMA StreamNext == BufInv /\ StreamKept /\ [ReadNext]_readVars => StreamKept'
<1> SUFFICES ASSUME BufInv, StreamKept, [ReadNext]_readVars
             PROVE  StreamKept'
  OBVIOUS
<1> USE DEF peerVars
<1>0. ReadTypes
  BY DEF BufInv
<1>typed. Delivered \in Seq(Nat) /\ Delivered \o <<>> = Delivered
  <2>1. <<>> \in Seq(Nat)
    OBVIOUS
  <2>2. Delivered \in Seq(Nat)
    BY <1>0, <2>1, FlattenAppend DEF Delivered, ReadTypes
  <2> QED
    BY <2>2, ConcatEmptySeq
<1>1. ASSUME NEW n \in 1..MaxBytes, Arrive(n)
      PROVE  StreamKept'
  BY <1>1 DEF Arrive, StreamKept, Delivered, InHand, Text, Beyond, UpTo
<1>2. ASSUME Hangup
      PROVE  StreamKept'
  BY <1>2 DEF Hangup, StreamKept, Delivered, InHand, Text, Beyond, UpTo, Unread
<1>empty. ASSUME ReadNothing \/ ReadEnd
      PROVE  StreamKept'
  <2>1. /\ rpc = "read" /\ Unread = 0 /\ rpc' \in {"wait", "closed"}
        /\ UNCHANGED <<items, taken, arrived, filled, noText>>
    BY <1>empty DEF ReadNothing, ReadEnd
  <2>2. InHand' = InHand /\ Unread' = 0 /\ Delivered' = Delivered /\ UpTo(taken)' = UpTo(taken)
    BY <2>1 DEF InHand, Unread, Delivered, UpTo
  <2> QED
    BY <2>1, <2>2 DEF StreamKept
<1>3. ASSUME Enter
      PROVE  StreamKept'
  BY <1>3 DEF Enter, StreamKept, Delivered, InHand, UpTo
<1>4. ASSUME ReadSome, ~ filled'
      PROVE  StreamKept'
  <2> DEFINE n == Available
  <2>1. /\ n \in 1..BufLen /\ n # BufLen /\ taken + n = arrived
        /\ rpc = "read" /\ ~ filled
        /\ taken' = taken + n /\ nLen' = nLen + n /\ UNCHANGED <<arrived, items, noText>>
        /\ recvbuffer' = [i \in 1..BufLen |-> IF i <= n THEN taken + i ELSE recvbuffer[i]]
        /\ rpc' = IF nLen' = BufLen THEN "read" ELSE "store"
    BY <1>0, <1>4, OneRead DEF ReadSome, sys_read
  <2> HIDE DEF n
  <2>2. nLen = 0 /\ nLen' = n /\ rpc' = "store"
    BY <1>0, <2>1 DEF BufInv, Rounds, ReadTypes
  <2>3. Unread' = 0
    BY <1>0, <2>1 DEF ReadTypes, Unread
  <2>4. InHand' = [i \in 1..n |-> taken + i]
    BY <2>1, <2>2 DEF InHand, Text
  <2>5. Delivered' = Delivered /\ (~ noText => Delivered = UpTo(taken))
    BY <1>typed, <2>1 DEF StreamKept, Delivered, InHand
  <2>6. UpTo(taken) \o [i \in 1..n |-> taken + i] = UpTo(taken')
    <3>1. taken \in Nat /\ n \in Nat /\ taken' = taken + n
      BY <1>0, <2>1 DEF ReadTypes
    <3> QED
      BY <3>1, BytesJoin
  <2>7. ~ noText' => (Delivered \o InHand)' = UpTo(taken)'
    <3>1. UpTo(taken)' = UpTo(taken')
      BY DEF UpTo
    <3>2. (Delivered \o InHand)' = Delivered \o [i \in 1..n |-> taken + i]
      BY <2>4, <2>5
    <3> QED
      BY <2>1, <2>5, <2>6, <3>1, <3>2
  <2> QED
    BY <2>3, <2>7 DEF StreamKept
<1>5. ASSUME Store
      PROVE  StreamKept'
  <2>1. Text \in Seq(Nat)
    BY <1>0, TextTyped
  <2>2. Delivered' = Delivered \o Text
    BY <1>0, <1>5, <2>1, FlattenAppend DEF Store, Delivered, ReadTypes
  <2>3. (Delivered \o Text) \o <<>> = Delivered \o Text
    <3>1. Delivered \o Text \in Seq(Nat)
      BY <1>typed, <2>1, ConcatProperties
    <3> QED
      BY <3>1, ConcatEmptySeq
  <2>4. InHand = Text /\ InHand' = <<>> /\ UpTo(taken)' = UpTo(taken)
    BY <1>5 DEF Store, InHand, UpTo
  <2> QED
    BY <1>5, <2>2, <2>3, <2>4 DEF Store, StreamKept, Unread
<1>6. ASSUME StoreFails
      PROVE  StreamKept'
  BY <1>6 DEF StoreFails, StreamKept, Unread
<1>7. CASE UNCHANGED readVars
  BY <1>7 DEF readVars, StreamKept, Delivered, InHand, Text, Beyond, UpTo, Unread
<1>8. CASE filled'
  BY <1>8 DEF StreamKept
<1> QED
  BY <1>1, <1>2, <1>empty, <1>3, <1>4, <1>5, <1>6, <1>7, <1>8
     DEF ReadNext, event_read, event_read_sticky

\* As long as no read filled the buffer, the Items hold every byte the client
\* sent, once and in order, up to what was read, and nothing stays unread
\* without an edge to bring the loop back.
THEOREM StreamArrives == ReadSpec => []StreamKept
<1>1. BufInv /\ BufInv' /\ StreamKept /\ [ReadNext]_readVars => StreamKept'
  BY StreamNext
<1> QED
  BY <1>1, StreamInit, BufAlways, PTL DEF ReadSpec
=============================================================================
