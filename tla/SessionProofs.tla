--------------------------- MODULE SessionProofs ---------------------------
(* What holds of a canhacker session for any number of threads, any file   *)
(* length and any set of commands.                                         *)
EXTENDS Session, TLAPS

-----------------------------------------------------------------------------
(* Typing.                                                                 *)

\* Every step leaves flags, mutex and program points within their types.
LEMMA TypeStep == ASSUME TypeOK, [Next]_vars PROVE TypeOK'
<1> USE DEF TypeOK, flags, ConsolePC, AfterPC, ReaderPC, DumperPC, ConsoleGoto, Type
<1>1. ASSUME Keys PROVE TypeOK'
  BY <1>1 DEF Keys, CallStop, STOPCmdHandler, SNIFFCmdHandler, READCmdHandler,
              MODECmdHandler, CtrlX, CtrlS, CtrlQ, Exit
<1>2. ASSUME ConsoleLocks PROVE TypeOK'
  BY <1>2 DEF ConsoleLocks, CallStop, SetFilters, SetDumpMode
<1>3. ASSUME ConsoleRuns PROVE TypeOK'
  <2>1. CASE QuitReading \/ DeleteCanBus
    BY <2>1 DEF QuitReading, DeleteCanBus, CallStop
  <2>2. CASE ConsoleStopTest \/ ConsoleStopClear \/ ConsoleStopWait
    BY <2>2 DEF ConsoleStopTest, ConsoleStopClear, ConsoleStopWait
  <2>3. CASE StartRunning \/ StartUnstop \/ SpawnDumper
    BY <2>3 DEF StartRunning, StartUnstop, SpawnDumper, Free
  <2>4. CASE ReadFails \/ ReadOpens
    BY <2>4 DEF ReadFails, ReadOpens
  <2>5. CASE SpawnReader
    BY <2>5 DEF SpawnReader, Free
  <2>6. QED
    BY <1>3, <2>1, <2>2, <2>3, <2>4, <2>5 DEF ConsoleRuns
<1>4. ASSUME NEW r \in Readers, ReaderRuns(r) PROVE TypeOK'
  <2> USE DEF At, ReaderGoto
  <2>1. CASE ReadLine(r)
    <3>1. left' \in [Readers -> 0..MaxLines]
      BY <2>1, MaxLinesAssumption DEF ReadLine
    <3>2. reader' \in [Readers -> ReaderPC]
      BY <2>1 DEF ReadLine
    <3>3. QED
      BY <2>1, <3>1, <3>2 DEF ReadLine
  <2>2. CASE ReadPause(r) \/ ReadSave(r)
    BY <2>2 DEF ReadPause, ReadSave
  <2>6. CASE ReadLeave(r)
    BY <2>6 DEF ReadLeave
  <2>3. CASE ReaderStopTest(r)
    BY <2>3 DEF ReaderStopTest
  <2>7. CASE ReaderStopClear(r)
    BY <2>7 DEF ReaderStopClear
  <2>8. CASE ReaderStopWait(r)
    BY <2>8 DEF ReaderStopWait
  <2>4. CASE ReaderReply(r)
    <3>1. left' \in [Readers -> 0..MaxLines]
      BY <2>4, MaxLinesAssumption DEF ReaderReply
    <3>2. QED
      BY <2>4, <3>1 DEF ReaderReply
  <2>5. QED
    BY <1>4, <2>1, <2>2, <2>3, <2>4, <2>6, <2>7, <2>8 DEF ReaderRuns
<1>5. ASSUME NEW d \in Dumpers, DumperRuns(d) PROVE TypeOK'
  <2> USE DEF DumperAt, DumperGoto
  <2>1. CASE DumpCheck(d)
    BY <2>1 DEF DumpCheck
  <2>2. CASE DumpLock(d)
    BY <2>2 DEF DumpLock
  <2>3. CASE DumpPrint(d)
    BY <2>3 DEF DumpPrint
  <2>4. CASE DumpDidStop(d)
    BY <2>4 DEF DumpDidStop
  <2>5. QED
    BY <1>5, <2>1, <2>2, <2>3, <2>4 DEF DumperRuns
<1>6. CASE UNCHANGED vars
  BY <1>6 DEF vars
<1>7. QED
  BY <1>1, <1>2, <1>3, <1>4, <1>5, <1>6 DEF Next

\* Type correctness of the session.
THEOREM TypeCorrect == Spec => []TypeOK
<1>1. ASSUME Init PROVE TypeOK
  <2>1. reading \in BOOLEAN
    BY <1>1, InitReadingAssumption DEF Init
  <2>2. left \in [Readers -> 0..MaxLines]
    BY <1>1, MaxLinesAssumption DEF Init
  <2>3. QED
    BY <1>1, <2>1, <2>2 DEF Init, TypeOK, ConsolePC, AfterPC, ReaderPC, DumperPC
<1>2. QED
  BY <1>1, TypeStep, PTL DEF Spec

-----------------------------------------------------------------------------
(* Every wait in stop() has a dumper that will end it.                     *)

LiveDumper == \E d \in Dumpers : dumper[d] # "none"

\* Before the first start() nothing waits, and no reader exists.
Unstarted ==
  /\ \A r \in Readers : reader[r] = "none"
  /\ console \notin {"clear", "wait", "open", "spawnReader"}
  /\ running => console = "unstop"

\* Once there has been a start(), _didStop is set unless a dumper is alive or
\* about to be: the dumper that dies is the one that sets it.
StopAnswered == didStop \/ LiveDumper \/ console = "spawnDumper" \/ Unstarted

\* Every step keeps StopAnswered: only start() takes _didStop back, and it
\* spawns a dumper next.
LEMMA StopAnsweredStep == ASSUME TypeOK, StopAnswered, [Next]_vars PROVE StopAnswered'
<1> USE DEF TypeOK, StopAnswered, LiveDumper, Unstarted, flags, ConsoleGoto, Type
<1>1. ASSUME Keys PROVE StopAnswered'
  BY <1>1 DEF Keys, CallStop, STOPCmdHandler, SNIFFCmdHandler, READCmdHandler,
              MODECmdHandler, CtrlX, CtrlS, CtrlQ, Exit
<1>2. ASSUME ConsoleLocks PROVE StopAnswered'
  BY <1>2 DEF ConsoleLocks, CallStop, SetFilters, SetDumpMode
<1>3. ASSUME ConsoleRuns PROVE StopAnswered'
  <2>1. CASE QuitReading \/ DeleteCanBus
    BY <2>1 DEF QuitReading, DeleteCanBus, CallStop
  <2>2. CASE ConsoleStopTest \/ ConsoleStopClear \/ ConsoleStopWait
    BY <2>2 DEF ConsoleStopTest, ConsoleStopClear, ConsoleStopWait, AfterPC
  <2>3. CASE StartRunning \/ StartUnstop
    BY <2>3 DEF StartRunning, StartUnstop
  <2>4. CASE SpawnDumper
    BY <2>4 DEF SpawnDumper, Free
  <2>5. CASE ReadFails \/ ReadOpens \/ SpawnReader
    BY <2>5 DEF ReadFails, ReadOpens, SpawnReader
  <2>6. QED
    BY <1>3, <2>1, <2>2, <2>3, <2>4, <2>5 DEF ConsoleRuns
<1>4. ASSUME NEW r \in Readers, ReaderRuns(r) PROVE StopAnswered'
  <2>1. didStop \/ LiveDumper \/ console = "spawnDumper"
    BY <1>4 DEF ReaderRuns, ReadLine, ReadPause, ReadSave, ReadLeave, ReaderStopTest,
                ReaderStopClear, ReaderStopWait, ReaderReply, At
  <2>2. UNCHANGED <<didStop, dumper, console>>
    BY <1>4 DEF ReaderRuns, ReadLine, ReadPause, ReadSave, ReadLeave, ReaderStopTest,
                ReaderStopClear, ReaderStopWait, ReaderReply
  <2>3. QED
    BY <2>1, <2>2
<1>5. ASSUME NEW d \in Dumpers, DumperRuns(d) PROVE StopAnswered'
  BY <1>5 DEF DumperRuns, DumpCheck, DumpLock, DumpPrint, DumpDidStop, DumperAt, DumperGoto
<1>6. CASE UNCHANGED vars
  BY <1>6 DEF vars
<1>7. QED
  BY <1>1, <1>2, <1>3, <1>4, <1>5, <1>6 DEF Next

\* No thread is ever left waiting in stop() for a dumper that does not exist.
THEOREM WaitIsAnswered == Spec => []NoOrphanWait
<1>1. Init => StopAnswered
  BY DEF Init, StopAnswered, Unstarted
<1>2. StopAnswered => NoOrphanWait
  BY DEF StopAnswered, Unstarted, LiveDumper, NoOrphanWait
<1>3. QED
  BY <1>1, <1>2, StopAnsweredStep, TypeCorrect, PTL DEF Spec

-----------------------------------------------------------------------------
(* _running and _reading.                                                  *)

\* Only start() raises _running, and it spawns a looping dumper next; a dumper
\* leaves its loop only on a _running it has seen down.
LEMMA RunningStep == ASSUME TypeOK, RunningIsHonest, [Next]_vars PROVE RunningIsHonest'
<1> USE DEF TypeOK, RunningIsHonest, InDumpLoop, flags, ConsoleGoto, Type
<1>1. ASSUME Keys \/ ConsoleLocks PROVE RunningIsHonest'
  BY <1>1 DEF Keys, ConsoleLocks, CallStop, STOPCmdHandler, SNIFFCmdHandler, SetFilters,
              READCmdHandler, MODECmdHandler, SetDumpMode, CtrlX, CtrlS, CtrlQ, Exit
<1>2. ASSUME ConsoleRuns PROVE RunningIsHonest'
  <2>1. CASE SpawnDumper
    BY <2>1 DEF SpawnDumper, Free
  <2>2. CASE StartRunning \/ StartUnstop
    BY <2>2 DEF StartRunning, StartUnstop
  <2>3. ASSUME ~SpawnDumper, ~StartRunning, ~StartUnstop
        PROVE  RunningIsHonest'
    BY <1>2, <2>3 DEF ConsoleRuns, QuitReading, DeleteCanBus, CallStop, ConsoleStopTest,
       ConsoleStopClear, ConsoleStopWait, ReadFails, ReadOpens, SpawnReader
  <2>4. QED
    BY <2>1, <2>2, <2>3
<1>3. ASSUME NEW r \in Readers, ReaderRuns(r) PROVE RunningIsHonest'
  BY <1>3 DEF ReaderRuns, ReadLine, ReadPause, ReadSave, ReadLeave, ReaderStopTest,
              ReaderStopClear, ReaderStopWait, ReaderReply
<1>4. ASSUME NEW d \in Dumpers, DumperRuns(d) PROVE RunningIsHonest'
  BY <1>4 DEF DumperRuns, DumpCheck, DumpLock, DumpPrint, DumpDidStop, DumperAt, DumperGoto
<1>5. CASE UNCHANGED vars
  BY <1>5 DEF vars
<1>6. QED
  BY <1>1, <1>2, <1>3, <1>4, <1>5 DEF Next

\* A raised _running always has a dumper looping on it, or about to be spawned.
THEOREM RunningHasDumper == Spec => []RunningIsHonest
<1>1. Init => RunningIsHonest
  BY DEF Init, RunningIsHonest
<1>2. QED
  BY <1>1, RunningStep, TypeCorrect, PTL DEF Spec

InReadOrLeave(r) == InReadLoop(r) \/ reader[r] = "leave"

\* A reader that leaves its loop goes on to clear _reading.
LEMMA BusyStep == ASSUME TypeOK, BusyIsHonest, [Next]_vars PROVE BusyIsHonest'
<1> USE DEF TypeOK, BusyIsHonest, InReadLoop, flags, ConsoleGoto, Type
<1>1. ASSUME Keys \/ ConsoleLocks PROVE BusyIsHonest'
  BY <1>1 DEF Keys, ConsoleLocks, CallStop, STOPCmdHandler, SNIFFCmdHandler, SetFilters,
              READCmdHandler, MODECmdHandler, SetDumpMode, CtrlX, CtrlS, CtrlQ, Exit
<1>2. ASSUME ConsoleRuns PROVE BusyIsHonest'
  <2>1. CASE SpawnReader
    BY <2>1 DEF SpawnReader, Free
  <2>2. CASE ReadOpens
    BY <2>2 DEF ReadOpens
  <2>3. ASSUME ~SpawnReader, ~ReadOpens
        PROVE  BusyIsHonest'
    BY <1>2, <2>3 DEF ConsoleRuns, QuitReading, DeleteCanBus, CallStop, ConsoleStopTest,
       ConsoleStopClear, ConsoleStopWait, StartRunning, StartUnstop, SpawnDumper, ReadFails
  <2>4. QED
    BY <2>1, <2>2, <2>3
<1>3. ASSUME NEW r \in Readers, ReaderRuns(r) PROVE BusyIsHonest'
  BY <1>3 DEF ReaderRuns, ReadLine, ReadPause, ReadSave, ReadLeave, ReaderStopTest,
              ReaderStopClear, ReaderStopWait, ReaderReply, At, ReaderGoto
<1>4. ASSUME NEW d \in Dumpers, DumperRuns(d) PROVE BusyIsHonest'
  BY <1>4 DEF DumperRuns, DumpCheck, DumpLock, DumpPrint, DumpDidStop
<1>5. CASE UNCHANGED vars
  BY <1>5 DEF vars
<1>6. QED
  BY <1>1, <1>2, <1>3, <1>4, <1>5 DEF Next

\* If _reading starts down, a raised _reading always has a reader that will
\* lower it: a finished reader never leaves `read` refused.
THEOREM BusyHasReader == ASSUME InitReading \subseteq {FALSE}
                         PROVE  Spec => []BusyIsHonest
<1>1. Init => BusyIsHonest
  BY DEF Init, BusyIsHonest
<1>2. QED
  BY <1>1, BusyStep, TypeCorrect, PTL DEF Spec

-----------------------------------------------------------------------------
(* One reader at a time, until ^X is used.                                 *)

\* _reading belongs to the one reader in its loop or just out of it; a reader
\* about to be spawned has it to itself.
ReadingIsOwned ==
  quitUsed \/
    /\ console # "quit"
    /\ console # "exited" => \A r \in Readers : InReadOrLeave(r) => reading
    /\ \A r, s \in Readers : InReadOrLeave(r) /\ InReadOrLeave(s) => r = s
    /\ console = "spawnReader" => reading /\ \A r \in Readers : ~InReadOrLeave(r)

\* readFramesFromFile raises _reading only when no reader holds it, and until
\* ^X is used only its reader lowers it.
LEMMA OwnedStep == ASSUME TypeOK, ReadingIsOwned, [Next]_vars PROVE ReadingIsOwned'
<1> USE DEF TypeOK, ReadingIsOwned, InReadOrLeave, InReadLoop, flags, ConsoleGoto, Type
<1>1. ASSUME Keys \/ ConsoleLocks PROVE ReadingIsOwned'
  BY <1>1 DEF Keys, ConsoleLocks, CallStop, STOPCmdHandler, SNIFFCmdHandler, SetFilters,
              READCmdHandler, MODECmdHandler, SetDumpMode, CtrlX, CtrlS, CtrlQ, Exit
<1>2. ASSUME ConsoleRuns PROVE ReadingIsOwned'
  <2>1. CASE SpawnReader
    BY <2>1 DEF SpawnReader, Free
  <2>2. CASE ReadOpens
    BY <2>2 DEF ReadOpens
  <2>3. CASE ConsoleStopTest \/ ConsoleStopWait
    BY <2>3 DEF ConsoleStopTest, ConsoleStopWait, AfterPC
  <2>4. ASSUME ~SpawnReader, ~ReadOpens, ~ConsoleStopTest, ~ConsoleStopWait
        PROVE  ReadingIsOwned'
    BY <1>2, <2>4 DEF ConsoleRuns, QuitReading, DeleteCanBus,
       ConsoleStopClear, StartRunning, StartUnstop, SpawnDumper, ReadFails
  <2>5. QED
    BY <2>1, <2>2, <2>3, <2>4
<1>3. ASSUME NEW r \in Readers, ReaderRuns(r) PROVE ReadingIsOwned'
  <2> USE DEF At, ReaderGoto
  <2>1. CASE ReadLine(r)
    BY <2>1 DEF ReadLine
  <2>2. CASE ReadPause(r)
    BY <2>2 DEF ReadPause
  <2>3. CASE ReadSave(r)
    BY <2>3 DEF ReadSave
  <2>4. CASE ReadLeave(r)
    BY <2>4 DEF ReadLeave
  <2>5. ASSUME ~ReadLine(r), ~ReadPause(r), ~ReadSave(r), ~ReadLeave(r)
        PROVE  ReadingIsOwned'
    <3>1. UNCHANGED <<console, reading, quitUsed>> /\ \A s \in Readers : InReadOrLeave(s)' <=> InReadOrLeave(s)
      BY <1>3, <2>5 DEF ReaderRuns, ReaderStopTest, ReaderStopClear, ReaderStopWait, ReaderReply
    <3>2. QED
      BY <3>1
  <2>6. QED
    BY <2>1, <2>2, <2>3, <2>4, <2>5
<1>4. ASSUME NEW d \in Dumpers, DumperRuns(d) PROVE ReadingIsOwned'
  BY <1>4 DEF DumperRuns, DumpCheck, DumpLock, DumpPrint, DumpDidStop
<1>5. CASE UNCHANGED vars
  BY <1>5 DEF vars
<1>6. QED
  BY <1>1, <1>2, <1>3, <1>4, <1>5 DEF Next

\* Until ^X is used, _reading has one owner.
LEMMA Owned == Spec => []ReadingIsOwned
<1>1. Init => ReadingIsOwned
  BY DEF Init, ReadingIsOwned, InReadOrLeave, InReadLoop
<1>2. QED
  BY <1>1, OwnedStep, TypeCorrect, PTL DEF Spec

\* Until ^X is used two readers never read at once, whatever _reading was at first.
THEOREM OneReader == Spec => []OneReaderUntilQuit
<1>1. ReadingIsOwned => OneReaderUntilQuit
  BY DEF ReadingIsOwned, InReadOrLeave, OneReaderUntilQuit
<1>2. QED
  BY <1>1, Owned, PTL

\* Until ^X is used a reader leaves its loop only when its file is used up.
THEOREM NoEarlyLeave == Spec => ReadsToEnd
<1>1. ASSUME TypeOK, ReadingIsOwned, [Next]_vars, ~quitUsed,
             NEW r \in Readers, InReadLoop(r), reader'[r] = "leave"
      PROVE  left[r] = 0
  <2> USE <1>1 DEF TypeOK, InReadLoop
  <2>1. PICK s \in Readers : ReaderRuns(s)
    BY DEF Next, Keys, ConsoleLocks, ConsoleRuns, STOPCmdHandler, SNIFFCmdHandler,
       READCmdHandler, MODECmdHandler, CtrlX, CtrlS, CtrlQ, Exit, SetFilters, SetDumpMode,
       QuitReading, DeleteCanBus, ConsoleStopTest, ConsoleStopClear, ConsoleStopWait,
       StartRunning, StartUnstop, SpawnDumper, ReadFails, ReadOpens, SpawnReader, Free,
       DumperRuns, DumpCheck, DumpLock, DumpPrint, DumpDidStop, vars
  <2>2. s = r /\ (ReadLine(r) \/ ReadSave(r))
    BY <2>1 DEF ReaderRuns, ReadLine, ReadPause, ReadSave, ReadLeave, ReaderStopTest,
       ReaderStopClear, ReaderStopWait, ReaderReply, At, ReaderGoto
  <2>3. reading
    BY <2>2 DEF ReadingIsOwned, InReadOrLeave, ReadLine, ReadSave, At
  <2>4. QED
    BY <2>2, <2>3, MaxLinesAssumption DEF ReadLine, ReadSave, At, ReaderGoto
<1>2. TypeOK /\ ReadingIsOwned /\ [Next]_vars
        => [\A r \in Readers :
              ~quitUsed /\ InReadLoop(r) /\ reader'[r] = "leave" => left[r] = 0]_vars
  BY <1>1
<1>3. QED
  BY <1>2, TypeCorrect, Owned, PTL DEF Spec, ReadsToEnd
=============================================================================
