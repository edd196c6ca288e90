------------------------------- MODULE Logger -------------------------------
(***************************************************************************)
(* log.c: any thread of the process logs a line under the logger's lock;   *)
(* when the file has grown past rotatesize it is renamed and a new one is  *)
(* opened.  The process may be killed between any two steps and started    *)
(* again; the files survive, the counters do not.                          *)
(*                                                                         *)
(* A line is its number, the level of the call, the level printed and its  *)
(* length.  wtotal changes with wcurr at every place and nobody reads it.  *)
(* Hexadecimal lines differ in their text only.                            *)
(***************************************************************************)
EXTENDS Locker, Naturals, Sequences, SequencesExt

CONSTANTS
  Threads,     \* the threads that log
  Levels,      \* LEVEL_ERROR, LEVEL_INFO, ...
  Lengths,     \* how long a line may be
  RotateSize,  \* rotatesize; 0 turns rotation off
  MaxLines,    \* bound: calls ever made
  MaxKills,    \* bound: times the process is killed
  MaxFailures  \* bound: times rename or fopen fails

ASSUME LoggerAssumption ==
  /\ NoThread \notin Threads
  /\ Lengths \subseteq Nat \ {0} /\ Lengths # {}
  /\ {RotateSize, MaxLines, MaxKills, MaxFailures} \subseteq Nat

VARIABLES
  fp,          \* the stream: a file, or NULL
  level,       \* logger->level
  wcurr,       \* logger->wcurr
  file,        \* the lines in the log file
  saved,       \* the files rotation has put aside, oldest first
  pc,          \* where each thread is in its call
  line,        \* the line each thread logs
  made, kills, failures,  \* counters for the bounds
  written,     \* history: every line handed to fwrite
  inherited,   \* history: the lines in the file when the process started
  rotations    \* history: successful renames

diskVars    == <<file, saved>>
boundVars   == <<made, kills, failures>>
historyVars == <<written, inherited, rotations>>
vars == <<lockerVars, fp, level, wcurr, diskVars, pc, line, boundVars, historyVars>>

NoLine == [call |-> "NONE", level |-> "NONE", len |-> 0, no |-> 0]

Goto(t, from, to) == pc[t] = from /\ pc' = [pc EXCEPT ![t] = to]

\* Logger_Create opens the file for appending and starts counting at zero.
Logger_Create ==
  /\ fp' = "FILE" /\ level' = "NONE" /\ wcurr' = 0
  /\ m_mutex' = NoThread /\ m_cond' = {} /\ m_sem' = 0
  /\ pc' = [t \in Threads |-> "idle"]
  /\ line' = [t \in Threads |-> NoLine]

Init ==
  /\ locker_init
  /\ fp = "FILE" /\ level = "NONE" /\ wcurr = 0
  /\ file = <<>> /\ saved = <<>>
  /\ pc = [t \in Threads |-> "idle"]
  /\ line = [t \in Threads |-> NoLine]
  /\ made = 0 /\ kills = 0 /\ failures = 0
  /\ written = <<>> /\ inherited = <<>> /\ rotations = 0

-----------------------------------------------------------------------------
(* logerror, logdebug, logwarn, loginfo, loghex                            *)

Call(t) ==
  /\ made < MaxLines
  /\ Goto(t, "idle", "lock")
  /\ \E v \in Levels, n \in Lengths :
       line' = [line EXCEPT ![t] = [call |-> v, level |-> "NONE", len |-> n, no |-> made + 1]]
  /\ made' = made + 1
  /\ UNCHANGED <<lockerVars, fp, level, wcurr, diskVars, kills, failures, historyVars>>

\* Seeded fault: the call goes on without waiting for the lock.
BadLock(t) ==
  /\ Goto(t, "lock", "level")
  /\ UNCHANGED <<lockerVars, fp, level, wcurr, diskVars, line, boundVars, historyVars>>

Lock(t) ==
  /\ Goto(t, "lock", "level")
  /\ locker_lock(t)
  /\ UNCHANGED <<fp, level, wcurr, diskVars, line, boundVars, historyVars>>

setlevel(t) ==
  /\ Goto(t, "level", "write")
  /\ level' = line[t].call
  /\ UNCHANGED <<lockerVars, fp, wcurr, diskVars, line, boundVars, historyVars>>

\* fwrite and fflush of a line that shows logger->level
Write(t) ==
  /\ fp = "FILE"
  /\ Goto(t, "write", "count")
  /\ LET text == [line[t] EXCEPT !.level = level]
     IN  file' = Append(file, text) /\ written' = Append(written, text)
  /\ UNCHANGED <<lockerVars, fp, level, wcurr, saved, line, boundVars, inherited, rotations>>

\* fwrite to NULL: the process dies and is started again.
WriteNull(t) ==
  /\ fp = "NULL" /\ pc[t] = "write"
  /\ Logger_Create
  /\ inherited' = file
  /\ UNCHANGED <<diskVars, boundVars, written, rotations>>

\* Seeded fault: the size is tested before the line is counted.
BadCount(t) ==
  /\ wcurr' = wcurr + line[t].len
  /\ Goto(t, "count", IF RotateSize > 0 /\ wcurr > RotateSize THEN "rename" ELSE "unlock")
  /\ UNCHANGED <<lockerVars, fp, level, diskVars, line, boundVars, historyVars>>

Count(t) ==
  /\ wcurr' = wcurr + line[t].len
  /\ Goto(t, "count", IF RotateSize > 0 /\ wcurr' > RotateSize THEN "rename" ELSE "unlock")
  /\ UNCHANGED <<lockerVars, fp, level, diskVars, line, boundVars, historyVars>>

Unlock(t) ==
  /\ Goto(t, "unlock", "idle")
  /\ locker_unlock
  /\ line' = [line EXCEPT ![t] = NoLine]
  /\ UNCHANGED <<fp, level, wcurr, diskVars, boundVars, historyVars>>

-----------------------------------------------------------------------------
(* rotate                                                                  *)

\* The new name is the time in seconds: in the second of the last rotation
\* rename replaces the file that one made.
Rename(t) ==
  /\ Goto(t, "rename", "reopen")
  /\ fp' = "NULL"
  /\ \/ saved' = Append(saved, file)
     \/ saved # <<>> /\ saved' = [saved EXCEPT ![Len(saved)] = file]
  /\ file' = <<>> /\ inherited' = <<>>
  /\ rotations' = rotations + 1
  /\ UNCHANGED <<lockerVars, level, wcurr, line, boundVars, written>>

\* Seeded faults: on a failure the lock is not given back, or the failure is
\* ignored and the file opened with "w".
BadRenameIgnored(t) ==
  /\ failures < MaxFailures
  /\ Goto(t, "rename", "unlock")
  /\ file' = <<>> /\ inherited' = <<>> /\ wcurr' = 0 /\ failures' = failures + 1
  /\ UNCHANGED <<lockerVars, fp, level, saved, line, made, kills, written, rotations>>

BadRenameFails(t) ==
  /\ failures < MaxFailures
  /\ Goto(t, "rename", "idle")
  /\ fp' = "NULL" /\ failures' = failures + 1
  /\ UNCHANGED <<lockerVars, level, wcurr, diskVars, line, made, kills, historyVars>>

\* It always fails when the logger writes to stdout: there is no such file.
RenameFails(t) ==
  /\ failures < MaxFailures
  /\ Goto(t, "rename", "unlock")
  /\ fp' = "NULL" /\ failures' = failures + 1
  /\ UNCHANGED <<lockerVars, level, wcurr, diskVars, line, made, kills, historyVars>>

Reopen(t) ==
  /\ Goto(t, "reopen", "unlock")
  /\ fp' = "FILE" /\ wcurr' = 0
  /\ UNCHANGED <<lockerVars, level, diskVars, line, boundVars, historyVars>>

ReopenFails(t) ==
  /\ failures < MaxFailures
  /\ Goto(t, "reopen", "unlock")
  /\ failures' = failures + 1
  /\ UNCHANGED <<lockerVars, fp, level, wcurr, diskVars, line, made, kills, historyVars>>

-----------------------------------------------------------------------------
\* The process is killed and started again.
Killed ==
  /\ kills < MaxKills
  /\ kills' = kills + 1
  /\ Logger_Create
  /\ inherited' = file
  /\ UNCHANGED <<diskVars, made, failures, written, rotations>>

LogStep(t) ==
  \/ Lock(t) \/ setlevel(t) \/ Write(t) \/ WriteNull(t) \/ Count(t)
  \/ Rename(t) \/ RenameFails(t) \/ Reopen(t) \/ ReopenFails(t) \/ Unlock(t)

Next == (\E t \in Threads : Call(t) \/ LogStep(t)) \/ Killed

Spec == Init /\ [][Next]_vars

\* A thread inside a call goes on.  Nobody has to log anything.
FairSpec == Spec /\ \A t \in Threads : WF_vars(LogStep(t))

-----------------------------------------------------------------------------
(* Properties.                                                             *)

Size(lines) ==
  LET total[i \in 0..Len(lines)] == IF i = 0 THEN 0 ELSE total[i - 1] + lines[i].len
  IN  total[Len(lines)]
Kept        == FlattenSeq(saved) \o file
Busy        == {t \in Threads : pc[t] \notin {"idle", "lock"}}

\* Every variable keeps the shape its C counterpart has, and the thread inside
\* the logger is the owner of its lock.
TypeOK ==
  /\ fp \in {"FILE", "NULL"} /\ level \in Levels \cup {"NONE"}
  /\ wcurr \in Nat
  /\ pc \in [Threads -> {"idle", "lock", "level", "write", "count", "rename", "reopen",
                         "unlock"}]
  /\ m_cond = {} /\ m_sem = 0
  /\ Busy = {m_mutex} \ {NoThread}

\* Lines leave the disk only when two rotations fall into one second: as
\* long as every rotation got a name of its own, the files read one after
\* the other are all that was ever written, in order, over kills and failed
\* renames.
LinesKept == Len(saved) = rotations => Kept = written

\* A line shows the level of the call that wrote it, although the level goes
\* through the one field all threads share.
LevelOfTheCall == \A i \in DOMAIN written : written[i].level = written[i].call

\* With rotation on, the file exceeds rotatesize by one line at most, not
\* counting what it held when the process started.
FileBounded ==
  RotateSize > 0 /\ fp = "FILE" =>
    \E n \in Lengths : Size(file) <= Size(inherited) + RotateSize + n

\* Every call returns, or the process dies.
CallsReturn == \A t \in Threads : pc[t] = "lock" ~> pc[t] = "idle"
=============================================================================
