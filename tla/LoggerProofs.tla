----------------------------- MODULE LoggerProofs -----------------------------
(***************************************************************************)
(* Proofs about the logger, for any number of threads, lines, kills and    *)
(* failures.                                                               *)
(***************************************************************************)
EXTENDS Logger, QueueLemmas

Line(levels) ==
  [call : Levels \cup {"NONE"}, level : levels, len : Nat, no : Nat]

Logged == Line(Levels \cup {"NONE"})

\* What the threads hold and what was written are lines.
LinesTyped ==
  /\ line \in [Threads -> Line({"NONE"})]
  /\ written \in Seq(Logged)
  /\ made \in Nat

\* The shared level is the caller's from setlevel to the write.
LevelSet == \A t \in Threads : pc[t] = "write" => level = line[t].call

IInv == TypeOK /\ LinesTyped /\ LevelSet /\ LevelOfTheCall

\* The line that is written: it shows the shared level.
LEMMA WrittenLine ==
  ASSUME TypeOK, LinesTyped, NEW t \in Threads
  PROVE  LET text == [line[t] EXCEPT !.level = level]
         IN  text \in Logged /\ text.call = line[t].call /\ text.level = level
             /\ text.len = line[t].len
<1>1. line[t] \in Line({"NONE"})
  BY DEF LinesTyped
<1>2. level \in Levels \cup {"NONE"}
  BY DEF TypeOK
<1>3. [line[t] EXCEPT !.level = level]
        = [call |-> line[t].call, level |-> level, len |-> line[t].len, no |-> line[t].no]
  BY <1>1 DEF Line
<1> QED
  BY <1>1, <1>2, <1>3 DEF Logged, Line

LEMMA LevelInit == Init => IInv
  BY LoggerAssumption
     DEF LoggerAssumption, Init, locker_init, IInv, TypeOK, Busy, LinesTyped, Line,
         NoLine, LevelSet, LevelOfTheCall

\* A new start of the process: nobody is in a call.
LEMMA StartKeeps ==
  ASSUME IInv, Logger_Create, UNCHANGED <<written, made>>
  PROVE  IInv'
  BY LoggerAssumption
     DEF LoggerAssumption, IInv, Logger_Create, TypeOK, Busy, LinesTyped, Line,
         NoLine, LevelSet, LevelOfTheCall

LEMMA LevelNext == IInv /\ [Next]_vars => IInv'
<1> SUFFICES ASSUME IInv, [Next]_vars
             PROVE  IInv'
  OBVIOUS
<1> USE LoggerAssumption
    DEF LoggerAssumption, IInv, TypeOK, Busy, LinesTyped, LevelSet, Goto, lockerVars,
        diskVars, boundVars, historyVars
<1>1. ASSUME NEW t \in Threads, Call(t)
      PROVE  IInv'
  <2>1. PICK v \in Levels, n \in Lengths :
          line' = [line EXCEPT ![t] = [call |-> v, level |-> "NONE", len |-> n, no |-> made + 1]]
    BY <1>1 DEF Call
  <2>2. /\ line' \in [Threads -> Line({"NONE"})]
        /\ made' \in Nat
        /\ \A u \in Threads : u # t => line'[u] = line[u]
    BY <1>1, <2>1 DEF Call, Line
  <2> QED
    BY <1>1, <2>2 DEF Call, LevelOfTheCall
<1>2. ASSUME NEW t \in Threads, Lock(t)
      PROVE  IInv'
  BY <1>2 DEF Lock, locker_lock, LevelOfTheCall
<1>3. ASSUME NEW t \in Threads, setlevel(t)
      PROVE  IInv'
  <2>1. line[t].call \in Levels \cup {"NONE"}
    BY DEF Line
  <2>2. \A u \in Threads : pc'[u] = "write" => u = t
    BY <1>3 DEF setlevel
  <2> QED
    BY <1>3, <2>1, <2>2 DEF setlevel, LevelOfTheCall
<1>4. ASSUME NEW t \in Threads, Write(t)
      PROVE  IInv'
  <2> DEFINE text == [line[t] EXCEPT !.level = level]
  <2>1. text \in Logged /\ text.level = text.call
    <3>1. level = line[t].call
      BY <1>4 DEF Write
    <3> QED
      BY <3>1, WrittenLine
  <2>2. written' = Append(written, text)
    BY <1>4 DEF Write
  <2> HIDE DEF text
  <2>3. written' \in Seq(Logged) /\ LevelOfTheCall'
    BY <2>1, <2>2 DEF LevelOfTheCall
  <2> QED
    BY <1>4, <2>3 DEF Write
<1>5. ASSUME NEW t \in Threads, Count(t)
      PROVE  IInv'
  <2>1. wcurr' \in Nat
    BY <1>5 DEF Count, Line
  <2> QED
    BY <1>5, <2>1 DEF Count, LevelOfTheCall
<1>6. ASSUME NEW t \in Threads, Rename(t) \/ RenameFails(t) \/ Reopen(t) \/ ReopenFails(t)
      PROVE  IInv'
  BY <1>6 DEF Rename, RenameFails, Reopen, ReopenFails, LevelOfTheCall
<1>7. ASSUME NEW t \in Threads, Unlock(t)
      PROVE  IInv'
  <2>1. line' \in [Threads -> Line({"NONE"})]
    BY <1>7 DEF Unlock, NoLine, Line
  <2>2. \A u \in Threads : u # t => line'[u] = line[u]
    BY <1>7 DEF Unlock
  <2>3. Busy' = {m_mutex'} \ {NoThread}
    BY <1>7 DEF Unlock, locker_unlock
  <2>4. LevelSet'
    BY <1>7, <2>2 DEF Unlock
  <2> QED
    BY <1>7, <2>1, <2>3, <2>4 DEF Unlock, locker_unlock, LevelOfTheCall
<1>8. ASSUME NEW t \in Threads, WriteNull(t)
      PROVE  IInv'
  BY <1>8, StartKeeps DEF WriteNull
<1>9. CASE Killed
  BY <1>9, StartKeeps DEF Killed
<1>10. CASE UNCHANGED vars
  BY <1>10 DEF vars, LevelOfTheCall
<1> QED
  BY <1>1, <1>2, <1>3, <1>4, <1>5, <1>6, <1>7, <1>8, <1>9, <1>10 DEF Next, LogStep

\* Between taking the lock and writing the line, no other thread sets the
\* level: a line always shows the level of the call that wrote it.
THEOREM LevelsDoNotMix == Spec => []LevelOfTheCall
<1>1. IInv => LevelOfTheCall
  BY DEF IInv
<1> QED
  BY LevelInit, LevelNext, <1>1, PTL DEF Spec

\* Type correctness, with mutual exclusion inside the logger: a thread that
\* is past the lock owns it, through kills and failed renames.
THEOREM LoggerTypes == Spec => []TypeOK
<1>1. IInv => TypeOK
  BY DEF IInv
<1> QED
  BY LevelInit, LevelNext, <1>1, PTL DEF Spec

-----------------------------------------------------------------------------
(* No line is lost.                                                        *)

\* What is on the disk: files of lines, and no more files than rotations.
DiskTypes ==
  /\ file \in Seq(Logged) /\ inherited \in Seq(Logged) /\ saved \in Seq(Seq(Logged))
  /\ rotations \in Nat /\ Len(saved) <= rotations

\* A line is added to what is kept when it is added to the file.
LEMMA KeptAppend ==
  ASSUME NEW S, NEW a \in Seq(S), NEW b \in Seq(S), NEW x \in S
  PROVE  Append(a \o b, x) = a \o Append(b, x)
<1>1. <<x>> \in Seq(S) /\ a \o b \in Seq(S)
  BY ConcatProperties
<1>2. Append(a \o b, x) = (a \o b) \o <<x>> /\ Append(b, x) = b \o <<x>>
  BY <1>1, AppendIsConcat
<1> QED
  BY <1>1, <1>2, ConcatAssociative

KInv == DiskTypes /\ LinesKept

LEMMA KeptInit == Init => KInv
<1> SUFFICES ASSUME Init
             PROVE  KInv
  OBVIOUS
<1>1. <<>> \in Seq(Seq(Logged)) /\ <<>> \in Seq(Logged) /\ Len(<<>>) = 0
  OBVIOUS
<1>2. FlattenSeq(<<>>) = <<>>
  BY <1>1, FlattenAppend
<1>3. <<>> \o <<>> = <<>>
  OBVIOUS
<1>4. Kept = written
  BY <1>2, <1>3 DEF Init, Kept
<1>5. DiskTypes
  BY <1>1 DEF Init, DiskTypes
<1> QED
  BY <1>4, <1>5 DEF KInv, LinesKept

LEMMA KeptNext == IInv /\ KInv /\ [Next]_vars => KInv'
<1> SUFFICES ASSUME IInv, KInv, [Next]_vars
             PROVE  KInv'
  OBVIOUS
<1> USE DEF diskVars, historyVars
<1>0. DiskTypes
  BY DEF KInv
<1>1. ASSUME UNCHANGED <<diskVars, written, rotations>>, inherited' \in {inherited, file}
      PROVE  KInv'
  BY <1>1 DEF KInv, DiskTypes, LinesKept, Kept
<1>2. ASSUME NEW t \in Threads, Write(t)
      PROVE  KInv'
  <2> DEFINE text == [line[t] EXCEPT !.level = level]
  <2>1. text \in Logged
    BY WrittenLine DEF IInv
  <2>2. file' = Append(file, text) /\ written' = Append(written, text)
        /\ UNCHANGED <<saved, inherited, rotations>>
    BY <1>2 DEF Write
  <2> HIDE DEF text
  <2>3. FlattenSeq(saved) \in Seq(Logged)
    <3>1. <<>> \in Seq(Logged)
      OBVIOUS
    <3> QED
      BY <1>0, <3>1, FlattenAppend DEF DiskTypes
  <2>4. Kept' = Append(Kept, text)
    BY <1>0, <2>1, <2>2, <2>3, KeptAppend DEF Kept, DiskTypes
  <2>5. file' \in Seq(Logged)
    BY <1>0, <2>1, <2>2, AppendProperties DEF DiskTypes
  <2> QED
    BY <1>0, <2>2, <2>4, <2>5 DEF KInv, DiskTypes, LinesKept
<1>3. ASSUME NEW t \in Threads, Rename(t)
      PROVE  KInv'
  <2>1. file' = <<>> /\ inherited' = <<>> /\ rotations' = rotations + 1 /\ written' = written
    BY <1>3 DEF Rename
  <2>2. CASE saved' = Append(saved, file)
    <3>1. saved' \in Seq(Seq(Logged)) /\ Len(saved') = Len(saved) + 1
      BY <1>0, <2>2, AppendProperties DEF DiskTypes
    <3>2. FlattenSeq(saved') = Kept
      BY <1>0, <2>2, FlattenAppend DEF DiskTypes, Kept
    <3>3. FlattenSeq(saved') \o <<>> = FlattenSeq(saved')
      <4>1. <<>> \in Seq(Logged)
        OBVIOUS
      <4>2. FlattenSeq(saved') \in Seq(Logged)
        BY <3>1, <4>1, FlattenAppend
      <4> QED
        BY <4>2, ConcatEmptySeq
    <3>4. Kept' = Kept
      BY <2>1, <3>2, <3>3 DEF Kept
    <3> QED
      BY <1>0, <2>1, <3>1, <3>4 DEF KInv, DiskTypes, LinesKept
  <2>3. CASE saved # <<>> /\ saved' = [saved EXCEPT ![Len(saved)] = file]
    <3>1. saved' \in Seq(Seq(Logged)) /\ Len(saved') = Len(saved)
      BY <1>0, <2>3 DEF DiskTypes
    <3> QED
      BY <1>0, <2>1, <3>1 DEF KInv, DiskTypes, LinesKept
  <2> QED
    BY <1>3, <2>2, <2>3 DEF Rename
<1>4. ASSUME NEW t \in Threads, Call(t) \/ Lock(t) \/ setlevel(t) \/ Count(t) \/ RenameFails(t)
                                \/ Reopen(t) \/ ReopenFails(t) \/ Unlock(t)
      PROVE  KInv'
  BY <1>1, <1>4 DEF Call, Lock, setlevel, Count, RenameFails, Reopen, ReopenFails, Unlock
<1>5. ASSUME Killed \/ \E t \in Threads : WriteNull(t)
      PROVE  KInv'
  BY <1>1, <1>5 DEF Killed, WriteNull
<1>6. CASE UNCHANGED vars
  BY <1>1, <1>6 DEF vars
<1> QED
  BY <1>2, <1>3, <1>4, <1>5, <1>6 DEF Next, LogStep

LEMMA LevelAlways == Spec => []IInv
  BY LevelInit, LevelNext, PTL DEF Spec

\* As long as no two rotations fall into one second, the files one after the
\* other hold every line ever written, in order, over kills and failed renames.
THEOREM NoLineLost == Spec => []LinesKept
<1>1. KInv => LinesKept
  BY DEF KInv
<1>2. IInv /\ IInv' /\ KInv /\ [Next]_vars => KInv'
  BY KeptNext
<1> QED
  BY <1>1, <1>2, KeptInit, LevelAlways, PTL DEF Spec

-----------------------------------------------------------------------------
(* The size of the file.  Size is a recursive function, treated as         *)
(* FlattenSeq is in QueueLemmas.                                           *)

\* f[i] is the length of the first i lines.
Totals(s, f) == f = [i \in 0..Len(s) |-> IF i = 0 THEN 0 ELSE f[i - 1] + s[i].len]

LEMMA SizeIs ==
  ASSUME NEW s
  PROVE  Size(s) = (CHOOSE f : Totals(s, f))[Len(s)]
  BY Zenon DEF Size, Totals

LEMMA TotalsUnique ==
  ASSUME NEW s, NEW f, NEW g, Len(s) \in Nat, Totals(s, f), Totals(s, g)
  PROVE  f = g
<1> DEFINE D == {i \in 0..Len(s) : f[i] # g[i]}
<1>1. ASSUME D # {}
      PROVE  FALSE
  <2>1. D \subseteq Nat
    OBVIOUS
  <2>2. PICK x \in D : \A y \in D : x <= y
    BY <1>1, <2>1, SmallestOf
  <2>3. CASE x = 0
    BY <2>2, <2>3 DEF Totals
  <2>4. CASE x # 0
    <3>1. x - 1 \in 0..Len(s) /\ x \in 0..Len(s) /\ x - 1 \notin D
      BY <2>2, <2>4
    <3>2. f[x - 1] = g[x - 1]
      BY <3>1
    <3>3. f[x] = f[x - 1] + s[x].len /\ g[x] = g[x - 1] + s[x].len
      BY <2>4, <3>1 DEF Totals
    <3> QED
      BY <2>2, <3>2, <3>3
  <2> QED
    BY <2>3, <2>4
<1>2. \A i \in 0..Len(s) : f[i] = g[i]
  BY <1>1
<1> QED
  BY <1>2 DEF Totals

LEMMA TotalsExist ==
  ASSUME NEW s, Len(s) \in Nat
  PROVE  \E f : Totals(s, f)
<1> DEFINE P(n, f) == f = [i \in 0..n |-> IF i = 0 THEN 0 ELSE f[i - 1] + s[i].len]
           D == {n \in 0..Len(s) : ~ \E f : P(n, f)}
<1>1. ASSUME D # {}
      PROVE  FALSE
  <2>1. D \subseteq Nat
    <3> HIDE DEF P
    <3>1. D \subseteq 0..Len(s)
      OBVIOUS
    <3> QED
      BY <3>1
  <2>2. PICK n \in D : \A y \in D : n <= y
    <3> HIDE DEF D
    <3> QED
      BY <1>1, <2>1, SmallestOf
  <2>3. CASE n = 0
    <3>1. P(0, [i \in {0} |-> 0])
      OBVIOUS
    <3> QED
      BY <2>2, <2>3, <3>1
  <2>4. CASE n # 0
    <3>1. n \in 0..Len(s)
      BY <2>2
    <3>2. n - 1 \in 0..Len(s) /\ n - 1 \notin D
      <4>1. n - 1 \in 0..Len(s) /\ ~ (n <= n - 1)
        BY <2>4, <3>1
      <4> HIDE DEF D
      <4> QED
        BY <2>2, <4>1
    <3>3. PICK g : P(n - 1, g)
      BY <3>2
    <3> DEFINE f == [i \in 0..n |-> IF i = 0 THEN 0 ELSE g[i - 1] + s[i].len]
    <3>4. ASSUME NEW i \in 0..n-1
          PROVE  f[i] = g[i]
      <4>1. i \in 0..n
        BY <3>1
      <4> QED
        BY <3>3, <4>1
    <3>5. ASSUME NEW i \in 0..n, i # 0
          PROVE  f[i - 1] = g[i - 1]
      <4>1. i - 1 \in 0..n-1
        BY <3>1, <3>5
      <4> QED
        BY <3>4, <4>1
    <3>6. P(n, f)
      BY <3>5
    <3> QED
      BY <2>2, <3>6
  <2> QED
    BY <2>3, <2>4
<1>2. \E f : P(Len(s), f)
  <2>1. Len(s) \in 0..Len(s) /\ Len(s) \notin D
    BY <1>1
  <2> HIDE DEF P
  <2> QED
    BY <2>1
<1> QED
  BY <1>2 DEF Totals

LEMMA SizeTotals ==
  ASSUME NEW s, NEW f, Len(s) \in Nat, Totals(s, f)
  PROVE  Size(s) = f[Len(s)]
<1>1. Totals(s, CHOOSE g : Totals(s, g))
  BY Zenon
<1>2. (CHOOSE g : Totals(s, g)) = f
  BY <1>1, TotalsUnique
<1> QED
  BY <1>2, SizeIs

\* Lengths add up to a length.
LEMMA SizeNatural ==
  ASSUME NEW s \in Seq(Logged)
  PROVE  Size(s) \in Nat
<1>1. Len(s) \in Nat /\ \A i \in 1..Len(s) : s[i].len \in Nat
  <2>1. \A i \in 1..Len(s) : s[i] \in Logged
    OBVIOUS
  <2> QED
    BY <2>1 DEF Logged, Line
<1>2. PICK g : Totals(s, g)
  BY <1>1, TotalsExist
<1> DEFINE D == {i \in 0..Len(s) : g[i] \notin Nat}
<1>3. ASSUME D # {}
      PROVE  FALSE
  <2>1. D \subseteq Nat
    BY <1>1
  <2>2. PICK n \in D : \A y \in D : n <= y
    <3> HIDE DEF D
    <3> QED
      BY <1>3, <2>1, SmallestOf
  <2>3. CASE n = 0
    BY <1>1, <1>2, <2>2, <2>3 DEF Totals
  <2>4. CASE n # 0
    <3>1. n - 1 \in 0..Len(s) /\ n \in 1..Len(s) /\ n - 1 \notin D
      BY <2>2, <2>4
    <3>2. g[n - 1] \in Nat /\ s[n].len \in Nat
      BY <1>1, <3>1
    <3>3. g[n] = g[n - 1] + s[n].len
      BY <1>2, <2>4, <3>1 DEF Totals
    <3> QED
      BY <2>2, <3>2, <3>3
  <2> QED
    BY <2>3, <2>4
<1>4. Len(s) \in 0..Len(s) /\ Size(s) = g[Len(s)]
  BY <1>1, <1>2, SizeTotals
<1> QED
  BY <1>3, <1>4

\* One more line adds its length.
LEMMA SizeAppend ==
  ASSUME NEW s \in Seq(Logged), NEW x \in Logged
  PROVE  Size(Append(s, x)) = Size(s) + x.len
<1> DEFINE p == Append(s, x)
<1>1. /\ Len(s) \in Nat /\ Len(p) = Len(s) + 1 /\ p[Len(s) + 1] = x
      /\ \A i \in 1..Len(s) : p[i] = s[i]
  BY AppendProperties
<1> HIDE DEF p
<1>2. PICK f : Totals(p, f)
  BY <1>1, TotalsExist
<1> DEFINE h == [i \in 0..Len(s) |-> f[i]]
<1>3. Totals(s, h)
  <2>1. ASSUME NEW i \in 0..Len(s)
        PROVE  h[i] = IF i = 0 THEN 0 ELSE h[i - 1] + s[i].len
    <3>1. i \in 0..Len(p) /\ (i # 0 => p[i] = s[i])
      BY <1>1
    <3>2. f[i] = IF i = 0 THEN 0 ELSE f[i - 1] + p[i].len
      BY <1>2, <3>1 DEF Totals
    <3>3. i # 0 => i - 1 \in 0..Len(s)
      BY <1>1
    <3> QED
      BY <3>1, <3>2, <3>3
  <2> QED
    BY <2>1 DEF Totals
<1>4. Size(s) = f[Len(s)]
  <2>1. Size(s) = h[Len(s)] /\ Len(s) \in 0..Len(s)
    BY <1>1, <1>3, SizeTotals
  <2> QED
    BY <2>1
<1>5. Size(p) = f[Len(s)] + x.len
  <2>1. Size(p) = f[Len(s) + 1]
    BY <1>1, <1>2, SizeTotals
  <2>2. Len(s) + 1 \in 0..Len(p) /\ Len(s) + 1 # 0 /\ (Len(s) + 1) - 1 = Len(s)
    BY <1>1
  <2> QED
    BY <1>1, <1>2, <2>1, <2>2 DEF Totals
<1> QED
  BY <1>4, <1>5 DEF p

-----------------------------------------------------------------------------
(* The file and rotatesize.                                                *)

\* The line of a call, and an empty file for the one who opens it.
CallLine ==
  /\ \A t \in Threads : pc[t] # "idle" => line[t].len \in Lengths
  /\ \A t \in Threads : pc[t] = "reopen" => file = <<>> /\ inherited = <<>>

\* wcurr is what was written since the start of the process or the last
\* rotation, but for the line that is not yet counted.
Counted ==
  fp = "FILE" =>
    /\ \A t \in Threads : pc[t] = "count" => Size(file) = Size(inherited) + wcurr + line[t].len
    /\ (\A t \in Threads : pc[t] # "count") => Size(file) = Size(inherited) + wcurr

\* It exceeds rotatesize only on the way to a rotation, and by one line.
Turning ==
  RotateSize > 0 /\ fp = "FILE" =>
    /\ \A t \in Threads : pc[t] = "rename" => wcurr <= RotateSize + line[t].len
    /\ (\A t \in Threads : pc[t] # "rename") => wcurr <= RotateSize

ZInv == CallLine /\ Counted /\ Turning

LEMMA SizeInit == Init => ZInv
<1> SUFFICES ASSUME Init
             PROVE  ZInv
  OBVIOUS
<1>1. Size(file) \in Nat /\ inherited = file
  <2>1. file \in Seq(Logged)
    BY DEF Init
  <2> QED
    BY <2>1, SizeNatural DEF Init
<1> QED
  BY <1>1, LoggerAssumption DEF LoggerAssumption, Init, ZInv, CallLine, Counted, Turning

LEMMA SizeNext == IInv /\ DiskTypes /\ ZInv /\ [Next]_vars => ZInv'
<1> SUFFICES ASSUME IInv, DiskTypes, ZInv, [Next]_vars
             PROVE  ZInv'
  OBVIOUS
<1> USE LoggerAssumption
    DEF LoggerAssumption, Goto, lockerVars, diskVars, boundVars, historyVars
<1>0. /\ Size(file) \in Nat /\ Size(inherited) \in Nat /\ wcurr \in Nat /\ RotateSize \in Nat
      /\ \A n \in Lengths : n \in Nat
  BY SizeNatural DEF DiskTypes, IInv, TypeOK
\* Only one thread is past the lock.
<1>alone. ASSUME NEW t \in Threads, pc[t] \notin {"idle", "lock"}
          PROVE  \A u \in Threads \ {t} : pc[u] \in {"idle", "lock"}
  BY <1>alone DEF IInv, TypeOK, Busy
<1>pc. pc \in [Threads -> {"idle", "lock", "level", "write", "count", "rename", "reopen", "unlock"}]
  BY DEF IInv, TypeOK
<1>line. DOMAIN line = Threads
  BY DEF IInv, LinesTyped
\* Steps that change neither the file nor the count, outside of them.
<1>1. ASSUME NEW t \in Threads, Call(t)
      PROVE  ZInv'
  <2>1. PICK n \in Lengths : line'[t].len = n
    BY <1>1, <1>line DEF Call
  <2>2. /\ pc[t] = "idle" /\ pc' = [pc EXCEPT ![t] = "lock"]
        /\ \A u \in Threads \ {t} : line'[u] = line[u]
        /\ UNCHANGED <<fp, wcurr, file, inherited>>
    BY <1>1, <1>line DEF Call
  <2>3. CallLine'
    BY <1>pc, <2>1, <2>2 DEF ZInv, CallLine
  <2>4. Counted' /\ Turning'
    BY <1>pc, <2>2 DEF ZInv, Counted, Turning
  <2> QED
    BY <2>3, <2>4 DEF ZInv
<1>2. ASSUME NEW t \in Threads, Lock(t) \/ setlevel(t) \/ ReopenFails(t)
      PROVE  ZInv'
  <2>1. /\ pc[t] \in {"lock", "level", "reopen"}
        /\ pc' = [pc EXCEPT ![t] = pc'[t]] /\ pc'[t] \in {"level", "write", "unlock"}
        /\ UNCHANGED <<fp, wcurr, file, inherited, line>>
    BY <1>2, <1>pc DEF Lock, setlevel, ReopenFails
  <2>2. \A u \in Threads : u # t => pc'[u] = pc[u]
    BY <1>pc, <2>1
  <2> QED
    BY <1>pc, <2>1, <2>2 DEF ZInv, CallLine, Counted, Turning
<1>3. ASSUME NEW t \in Threads, Write(t)
      PROVE  ZInv'
  <2> DEFINE text == [line[t] EXCEPT !.level = level]
  <2>1. text \in Logged /\ text.len = line[t].len
    BY WrittenLine DEF IInv
  <2>2. /\ fp = "FILE" /\ pc[t] = "write" /\ pc' = [pc EXCEPT ![t] = "count"]
        /\ file' = Append(file, text)
        /\ UNCHANGED <<fp, wcurr, inherited, line>>
    BY <1>3 DEF Write
  <2> HIDE DEF text
  <2>3. Size(file') = Size(file) + line[t].len
    BY <2>1, <2>2, SizeAppend DEF DiskTypes
  <2>4. \A u \in Threads \ {t} : pc[u] \in {"idle", "lock"} /\ pc'[u] = pc[u]
    BY <1>alone, <1>pc, <2>2
  <2>5. pc'[t] = "count" /\ line[t].len \in Lengths
    BY <1>pc, <2>2 DEF ZInv, CallLine
  <2>6. Size(file) = Size(inherited) + wcurr /\ (RotateSize > 0 => wcurr <= RotateSize)
    BY <2>2, <2>4 DEF ZInv, Counted, Turning
  <2>7. CallLine'
    BY <2>2, <2>4, <2>5 DEF ZInv, CallLine
  <2>8. Counted'
    BY <1>0, <2>2, <2>3, <2>4, <2>5, <2>6 DEF Counted
  <2>9. Turning'
    BY <2>2, <2>4, <2>5, <2>6 DEF Turning
  <2> QED
    BY <2>7, <2>8, <2>9 DEF ZInv
<1>4. ASSUME NEW t \in Threads, Count(t)
      PROVE  ZInv'
  <2>1. /\ pc[t] = "count" /\ wcurr' = wcurr + line[t].len
        /\ pc' = [pc EXCEPT ![t] = IF RotateSize > 0 /\ wcurr' > RotateSize THEN "rename"
                                                                        ELSE "unlock"]
        /\ UNCHANGED <<fp, file, inherited, line>>
    BY <1>4 DEF Count
  <2>2. \A u \in Threads \ {t} : pc[u] \in {"idle", "lock"} /\ pc'[u] = pc[u]
    BY <1>alone, <1>pc, <2>1
  <2>3. pc'[t] = (IF RotateSize > 0 /\ wcurr' > RotateSize THEN "rename" ELSE "unlock")
    BY <1>pc, <2>1
  <2>4. line[t].len \in Lengths /\ line[t].len \in Nat
    BY <1>0, <2>1 DEF ZInv, CallLine
  <2>5. fp = "FILE" => /\ Size(file) = Size(inherited) + wcurr + line[t].len
                       /\ RotateSize > 0 => wcurr <= RotateSize
    BY <2>1, <2>2 DEF ZInv, Counted, Turning
  <2>6. CallLine'
    BY <2>1, <2>2, <2>3, <2>4 DEF ZInv, CallLine
  <2>7. Counted'
    <3>1. \A u \in Threads : pc'[u] # "count"
      BY <2>2, <2>3
    <3>2. fp = "FILE" => Size(file) = Size(inherited) + wcurr'
      <4>1. \A a, b, c \in Nat : a + b + c = a + (b + c)
        OBVIOUS
      <4>2. Size(inherited) + wcurr + line[t].len = Size(inherited) + (wcurr + line[t].len)
        BY <1>0, <2>4, <4>1
      <4> QED
        BY <2>1, <2>5, <4>2
    <3>3. (fp = "FILE" => Size(file) = Size(inherited) + wcurr)'
      BY <2>1, <3>2
    <3> QED
      BY <3>1, <3>3 DEF Counted
  <2>8. Turning'
    <3>1. wcurr' \in Nat
      BY <1>0, <2>1, <2>4
    <3>2. CASE RotateSize > 0 /\ wcurr' > RotateSize
      <4>1. fp = "FILE" => wcurr' <= RotateSize + line[t].len
        <5>1. \A a, b, c \in Nat : a <= b => a + c <= b + c
          OBVIOUS
        <5>2. wcurr <= RotateSize => wcurr + line[t].len <= RotateSize + line[t].len
          BY <1>0, <2>4, <5>1
        <5> QED
          BY <2>1, <2>5, <3>2, <5>2
      <4>2. pc'[t] = "rename"
        BY <2>3, <3>2
      <4>3. \A u \in Threads : pc'[u] = "rename" => u = t
        BY <2>2
      <4> QED
        BY <2>1, <4>1, <4>2, <4>3 DEF Turning
    <3>3. CASE ~ (RotateSize > 0 /\ wcurr' > RotateSize)
      <4>1. \A u \in Threads : pc'[u] # "rename"
        BY <2>2, <2>3, <3>3
      <4>2. RotateSize > 0 => wcurr' <= RotateSize
        BY <1>0, <3>1, <3>3
      <4> QED
        BY <4>1, <4>2 DEF Turning
    <3> QED
      BY <3>2, <3>3
  <2> QED
    BY <2>6, <2>7, <2>8 DEF ZInv
<1>5. ASSUME NEW t \in Threads, Rename(t) \/ RenameFails(t)
      PROVE  ZInv'
  <2>1. /\ pc[t] = "rename" /\ fp' = "NULL" /\ line' = line
        /\ \/ pc' = [pc EXCEPT ![t] = "reopen"] /\ file' = <<>> /\ inherited' = <<>>
           \/ pc' = [pc EXCEPT ![t] = "unlock"] /\ file' = file /\ inherited' = inherited
    BY <1>5 DEF Rename, RenameFails
  <2>2. \A u \in Threads \ {t} : pc[u] \in {"idle", "lock"} /\ pc'[u] = pc[u]
    BY <1>alone, <1>pc, <2>1
  <2>3. CallLine'
    BY <1>pc, <2>1, <2>2 DEF ZInv, CallLine
  <2> QED
    BY <2>1, <2>3 DEF ZInv, Counted, Turning
<1>6. ASSUME NEW t \in Threads, Reopen(t)
      PROVE  ZInv'
  <2>1. /\ pc[t] = "reopen" /\ pc' = [pc EXCEPT ![t] = "unlock"] /\ wcurr' = 0
        /\ UNCHANGED <<file, inherited, line>>
    BY <1>6 DEF Reopen
  <2>2. \A u \in Threads \ {t} : pc[u] \in {"idle", "lock"} /\ pc'[u] = pc[u]
    BY <1>alone, <1>pc, <2>1
  <2>3. pc'[t] = "unlock"
    BY <1>pc, <2>1
  <2>4. file = inherited
    BY <2>1 DEF ZInv, CallLine
  <2>5. CallLine'
    BY <2>1, <2>2, <2>3 DEF ZInv, CallLine
  <2>6. Counted'
    BY <1>0, <2>1, <2>2, <2>3, <2>4 DEF Counted
  <2>7. Turning'
    BY <1>0, <2>1, <2>2, <2>3 DEF Turning
  <2> QED
    BY <2>5, <2>6, <2>7 DEF ZInv
<1>7. ASSUME NEW t \in Threads, Unlock(t)
      PROVE  ZInv'
  <2>1. /\ pc[t] = "unlock" /\ pc' = [pc EXCEPT ![t] = "idle"]
        /\ line' = [line EXCEPT ![t] = NoLine]
        /\ UNCHANGED <<fp, wcurr, file, inherited>>
    BY <1>7 DEF Unlock
  <2>2. \A u \in Threads \ {t} : /\ pc[u] \in {"idle", "lock"} /\ pc'[u] = pc[u]
                               /\ line'[u] = line[u]
    BY <1>alone, <1>pc, <1>line, <2>1
  <2>3. pc'[t] = "idle"
    BY <1>pc, <2>1
  <2> QED
    BY <2>1, <2>2, <2>3 DEF ZInv, CallLine, Counted, Turning
<1>8. ASSUME Killed \/ \E t \in Threads : WriteNull(t)
      PROVE  ZInv'
  <2>1. /\ wcurr' = 0 /\ pc' = [t \in Threads |-> "idle"]
        /\ file' = file /\ inherited' = file
    BY <1>8 DEF Killed, WriteNull, Logger_Create
  <2> QED
    BY <1>0, <2>1 DEF ZInv, CallLine, Counted, Turning
<1>9. CASE UNCHANGED vars
  BY <1>9 DEF vars, ZInv, CallLine, Counted, Turning
<1> QED
  BY <1>1, <1>2, <1>3, <1>4, <1>5, <1>6, <1>7, <1>8, <1>9 DEF Next, LogStep

\* With rotation on, the file exceeds rotatesize by one line at most, not
\* counting what it held when the process started.
THEOREM FileStaysBounded == Spec => []FileBounded
<1>1. IInv /\ KInv /\ ZInv => FileBounded
  <2> SUFFICES ASSUME IInv, KInv, ZInv, RotateSize > 0, fp = "FILE"
               PROVE  \E n \in Lengths : Size(file) <= Size(inherited) + RotateSize + n
    BY DEF FileBounded
  <2>0. /\ Size(file) \in Nat /\ Size(inherited) \in Nat /\ wcurr \in Nat /\ RotateSize \in Nat
        /\ Lengths \subseteq Nat /\ Lengths # {}
    BY SizeNatural, LoggerAssumption DEF KInv, DiskTypes, IInv, TypeOK, LoggerAssumption
  <2>1. ASSUME NEW t \in Threads, pc[t] \notin {"idle", "lock"}
        PROVE  \A u \in Threads \ {t} : pc[u] \in {"idle", "lock"}
    BY <2>1 DEF IInv, TypeOK, Busy
  <2>2. CASE \E t \in Threads : pc[t] = "count"
    <3>1. PICK t \in Threads : pc[t] = "count"
      BY <2>2
    <3>2. line[t].len \in Lengths /\ Size(file) = Size(inherited) + wcurr + line[t].len
      BY <3>1 DEF ZInv, CallLine, Counted
    <3>3. wcurr <= RotateSize
      BY <2>1, <3>1 DEF ZInv, Turning
    <3>4. line[t].len \in Nat
      BY <2>0, <3>2
    <3> QED
      BY <2>0, <3>2, <3>3, <3>4
  <2>3. CASE \A t \in Threads : pc[t] # "count"
    <3>1. Size(file) = Size(inherited) + wcurr
      BY <2>3 DEF ZInv, Counted
    <3>2. \E n \in Lengths : wcurr <= RotateSize + n
      <4>1. CASE \A t \in Threads : pc[t] # "rename"
        <5>1. wcurr <= RotateSize
          BY <4>1 DEF ZInv, Turning
        <5>2. PICK n \in Lengths : n \in Nat
          BY <2>0
        <5> QED
          BY <2>0, <5>1, <5>2
      <4>2. CASE \E t \in Threads : pc[t] = "rename"
        BY <4>2 DEF ZInv, Turning, CallLine
      <4> QED
        BY <4>1, <4>2
    <3> QED
      BY <2>0, <3>1, <3>2
  <2> QED
    BY <2>2, <2>3
<1>2. IInv /\ IInv' /\ KInv /\ [Next]_vars => KInv'
  BY KeptNext
<1>3. IInv /\ KInv /\ ZInv /\ [Next]_vars => ZInv'
  BY SizeNext DEF KInv
<1> QED
  BY <1>1, <1>2, <1>3, KeptInit, SizeInit, LevelAlways, PTL DEF Spec
=============================================================================
