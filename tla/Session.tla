------------------------------ MODULE Session ------------------------------
(***************************************************************************)
(* The threads of a canhacker session and the unsynchronised flags they    *)
(* steer each other with.                                                  *)
(*                                                                         *)
(*   console  main()'s getchar loop: it runs the command handlers and the  *)
(*            control keys, one at a time                                  *)
(*   reader   a detached CANBusMgr::readFileThread; its done callback (made*)
(*            by READCmdHandler) calls dumper.stop() on the reader's thread*)
(*   dumper   a detached FrameDumper::run                                  *)
(*                                                                         *)
(* Every access to a shared flag is a step of its own wherever another     *)
(* thread can act between two of them: _reading, _running and _didStop are *)
(* plain bools.  The frame database is left out (it is module FrameDB).    *)
(***************************************************************************)
EXTENDS FiniteSets, Naturals

CONSTANTS
  Readers,      \* file-reader threads that may be alive at the same time
  Dumpers,      \* dumper threads that may be alive at the same time
  MaxLines,     \* the longest log file, in lines
  Commands,     \* what the user may type
  InitReading   \* values _reading may have after CANBusMgr()

AllCommands == {"read", "sniff", "stop", "mode", "^X", "^S", "^Q", "exit"}

ASSUME CommandsAssumption == Commands \subseteq AllCommands
ASSUME InitReadingAssumption == InitReading \subseteq BOOLEAN
ASSUME MaxLinesAssumption == MaxLines \in Nat
\* "free" marks the dumper's mutex as not held; it is no thread.
ASSUME FreeAssumption == "free" \notin Dumpers

VARIABLES
  reading,      \* CANBusMgr::_reading
  readPaused,   \* CANBusMgr::_paused
  running,      \* FrameDumper::_running
  didStop,      \* FrameDumper::_didStop
  dumpPaused,   \* FrameDumper::_paused
  mutex,        \* FrameDumper::_mutex: "free", or the dumper that holds it
  console,      \* where the console thread is
  after,        \* where it goes when the dumper.stop() it is in returns
  reader,       \* where each reader thread is
  left,         \* lines each reader has not read yet
  dumper,       \* where each dumper thread is
  quitUsed      \* history: ^X has been typed

flags == <<reading, readPaused, running, didStop, dumpPaused>>
vars  == <<flags, mutex, console, after, reader, left, dumper, quitUsed>>

\* The console's points: idle between two keys, then the points of the
\* handlers, of stop(), of start() and of readFramesFromFile.
ConsolePC ==
  {"idle", "quit", "mode", "filter", "test", "clear", "wait",
   "start", "unstop", "spawnDumper", "open", "spawnReader", "exit", "exited"}
\* "start" is the rest of dumper.start() for sniff, "startRead" the same call
\* made by read, which then opens the file.
AfterPC  == {"idle", "start", "startRead", "exit"}
ReaderPC == {"none", "line", "pause", "save", "leave", "test", "clear", "wait", "reply"}
DumperPC == {"none", "check", "lock", "print", "lastLock", "lastPrint", "didStop"}

InReadLoop(r)  == reader[r] \in {"line", "pause", "save"}
InDumpLoop(d)  == dumper[d] \in {"check", "lock", "print"}
Free(pcs)      == {t \in DOMAIN pcs : pcs[t] = "none"}

Init ==
  /\ reading \in InitReading /\ readPaused \in BOOLEAN
  /\ running = FALSE /\ didStop = FALSE /\ dumpPaused = FALSE
  /\ mutex = "free"
  /\ console = "idle" /\ after = "idle"
  /\ reader = [r \in Readers |-> "none"]
  /\ left = [r \in Readers |-> 0]
  /\ dumper = [d \in Dumpers |-> "none"]
  /\ quitUsed = FALSE

-----------------------------------------------------------------------------
(* The console: one key or command line at a time.                         *)

ConsoleGoto(pc) == console' = pc

\* dumper.stop(), called by the console and followed by `next`.
CallStop(next) == ConsoleGoto("test") /\ after' = next

Type(cmd) == console = "idle" /\ cmd \in Commands

\* A new thread needs a free slot; the bound is on threads alive at once.
RoomFor(pcs) == Free(pcs) # {}

STOPCmdHandler ==
  /\ Type("stop")
  /\ CallStop("idle")
  /\ UNCHANGED <<flags, mutex, reader, left, dumper, quitUsed>>

\* The interface opened: CANBusMgr::start returned true.
SNIFFCmdHandler ==
  /\ Type("sniff") /\ RoomFor(dumper)
  /\ CallStop("start")
  /\ UNCHANGED <<flags, mutex, reader, left, dumper, quitUsed>>

READCmdHandler ==
  /\ Type("read") /\ RoomFor(dumper) /\ RoomFor(reader)
  /\ ConsoleGoto("filter")
  /\ UNCHANGED <<flags, mutex, after, reader, left, dumper, quitUsed>>

\* setFilters blocks on the mutex a dumper holds while it prints.
SetFilters ==
  /\ console = "filter" /\ mutex = "free"
  /\ CallStop("startRead")
  /\ UNCHANGED <<flags, mutex, reader, left, dumper, quitUsed>>

MODECmdHandler ==
  /\ Type("mode")
  /\ ConsoleGoto("mode")
  /\ UNCHANGED <<flags, mutex, after, reader, left, dumper, quitUsed>>

SetDumpMode ==
  /\ console = "mode" /\ mutex = "free"
  /\ ConsoleGoto("idle")
  /\ UNCHANGED <<flags, mutex, after, reader, left, dumper, quitUsed>>

\* Mutant of CtrlX: quitReading() that forgets _paused.
CtrlXStaysPaused ==
  /\ Type("^X")
  /\ quitUsed' = TRUE
  /\ ConsoleGoto("quit")
  /\ UNCHANGED <<flags, mutex, after, reader, left, dumper>>

\* ^X: quitReading() writes _paused, then _reading; then dumper.stop().
CtrlX ==
  /\ Type("^X")
  /\ readPaused' = FALSE /\ quitUsed' = TRUE
  /\ ConsoleGoto("quit")
  /\ UNCHANGED <<reading, running, didStop, dumpPaused, mutex, after, reader, left, dumper>>

QuitReading ==
  /\ console = "quit"
  /\ reading' = FALSE
  /\ CallStop("idle")
  /\ UNCHANGED <<readPaused, running, didStop, dumpPaused, mutex, reader, left, dumper, quitUsed>>

\* ^S and ^Q act only on a reader that reads and a dumper that runs.
CtrlS ==
  /\ Type("^S")
  /\ readPaused' = (readPaused \/ reading)
  /\ dumpPaused' = (dumpPaused \/ running)
  /\ UNCHANGED <<reading, running, didStop, mutex, console, after, reader, left, dumper, quitUsed>>

CtrlQ ==
  /\ Type("^Q")
  /\ readPaused' = (readPaused /\ ~reading)
  /\ dumpPaused' = (dumpPaused /\ ~running)
  /\ UNCHANGED <<reading, running, didStop, mutex, console, after, reader, left, dumper, quitUsed>>

Exit ==
  /\ Type("exit")
  /\ CallStop("exit")
  /\ UNCHANGED <<flags, mutex, reader, left, dumper, quitUsed>>

\* delete canBus, then main returns and the process and its threads end.
DeleteCanBus ==
  /\ console = "exit"
  /\ reading' = FALSE /\ readPaused' = FALSE
  /\ ConsoleGoto("exited")
  /\ UNCHANGED <<running, didStop, dumpPaused, mutex, after, reader, left, dumper, quitUsed>>

-----------------------------------------------------------------------------
(* FrameDumper::stop() on the console's thread.                            *)

ConsoleStopTest ==
  /\ console = "test"
  /\ ConsoleGoto(IF running THEN "clear"
                 ELSE IF after = "startRead" THEN "start" ELSE after)
  /\ UNCHANGED <<flags, mutex, after, reader, left, dumper, quitUsed>>

ConsoleStopClear ==
  /\ console = "clear"
  /\ running' = FALSE
  /\ ConsoleGoto("wait")
  /\ UNCHANGED <<reading, readPaused, didStop, dumpPaused, mutex, after, reader, left, dumper, quitUsed>>

ConsoleStopWait ==
  /\ console = "wait" /\ didStop
  /\ ConsoleGoto(IF after = "startRead" THEN "start" ELSE after)
  /\ UNCHANGED <<flags, mutex, after, reader, left, dumper, quitUsed>>

(* FrameDumper::start() once its stop() has returned.                      *)

StartRunning ==
  /\ console = "start"
  /\ dumpPaused' = FALSE /\ running' = TRUE
  /\ ConsoleGoto("unstop")
  /\ UNCHANGED <<reading, readPaused, didStop, mutex, after, reader, left, dumper, quitUsed>>

StartUnstop ==
  /\ console = "unstop"
  /\ didStop' = FALSE
  /\ ConsoleGoto("spawnDumper")
  /\ UNCHANGED <<reading, readPaused, running, dumpPaused, mutex, after, reader, left, dumper, quitUsed>>

SpawnDumper ==
  /\ console = "spawnDumper"
  /\ \E d \in Free(dumper) : dumper' = [dumper EXCEPT ![d] = "check"]
  /\ ConsoleGoto(IF after = "startRead" THEN "open" ELSE "idle")
  /\ UNCHANGED <<flags, mutex, after, reader, left, quitUsed>>

(* CANBusMgr::readFramesFromFile.                                          *)

ReadFails ==    \* EBUSY, or the file does not open
  /\ console = "open"
  /\ ConsoleGoto("idle")
  /\ UNCHANGED <<flags, mutex, after, reader, left, dumper, quitUsed>>

\* Mutant of ReadOpens: readFramesFromFile without its EBUSY test.
ReadOpensBusy ==
  /\ console = "open"
  /\ reading' = TRUE
  /\ ConsoleGoto("spawnReader")
  /\ UNCHANGED <<readPaused, running, didStop, dumpPaused, mutex, after, reader, left, dumper, quitUsed>>

ReadOpens ==
  /\ console = "open" /\ ~reading
  /\ reading' = TRUE
  /\ ConsoleGoto("spawnReader")
  /\ UNCHANGED <<readPaused, running, didStop, dumpPaused, mutex, after, reader, left, dumper, quitUsed>>

SpawnReader ==
  /\ console = "spawnReader"
  /\ readPaused' = FALSE
  /\ \E r \in Free(reader), lines \in 0..MaxLines :
       /\ reader' = [reader EXCEPT ![r] = "line"]
       /\ left' = [left EXCEPT ![r] = lines]
  /\ ConsoleGoto("idle")
  /\ UNCHANGED <<reading, running, didStop, dumpPaused, mutex, after, dumper, quitUsed>>

-----------------------------------------------------------------------------
(* A reader thread.                                                        *)

At(r, pc) == console # "exited" /\ reader[r] = pc
ReaderGoto(r, pc) == reader' = [reader EXCEPT ![r] = pc]

\* Mutant of ReadLine: the end of the file is not looked at.
ReadLineNoEof(r) ==
  /\ At(r, "line")
  /\ IF reading
       THEN ReaderGoto(r, "pause") /\ left' = [left EXCEPT ![r] = @ - 1]
       ELSE ReaderGoto(r, "leave") /\ UNCHANGED left
  /\ UNCHANGED <<flags, mutex, console, after, dumper, quitUsed>>

\* while (_reading && std::getline(*ifs, line))
ReadLine(r) ==
  /\ At(r, "line")
  /\ IF reading /\ left[r] > 0
       THEN ReaderGoto(r, "pause") /\ left' = [left EXCEPT ![r] = @ - 1]
       ELSE ReaderGoto(r, "leave") /\ UNCHANGED left
  /\ UNCHANGED <<flags, mutex, console, after, dumper, quitUsed>>

\* while (_paused) usleep(500);
ReadPause(r) ==
  /\ At(r, "pause") /\ ~readPaused
  /\ ReaderGoto(r, "save")
  /\ UNCHANGED <<flags, mutex, console, after, left, dumper, quitUsed>>

\* if (!_reading) break; parse and save the line, then sleep.
ReadSave(r) ==
  /\ At(r, "save")
  /\ ReaderGoto(r, IF reading THEN "line" ELSE "leave")
  /\ UNCHANGED <<flags, mutex, console, after, left, dumper, quitUsed>>

\* Mutant of ReadLeave: the thread ends without clearing _reading.
ReadLeaveBusy(r) ==
  /\ At(r, "leave")
  /\ ReaderGoto(r, "test")
  /\ UNCHANGED <<flags, mutex, console, after, left, dumper, quitUsed>>

ReadLeave(r) ==
  /\ At(r, "leave")
  /\ reading' = FALSE
  /\ ReaderGoto(r, "test")
  /\ UNCHANGED <<readPaused, running, didStop, dumpPaused, mutex, console, after, left, dumper, quitUsed>>

\* The done callback: dumper.stop(), then the reply and the prompt.
ReaderStopTest(r) ==
  /\ At(r, "test")
  /\ ReaderGoto(r, IF running THEN "clear" ELSE "reply")
  /\ UNCHANGED <<flags, mutex, console, after, left, dumper, quitUsed>>

ReaderStopClear(r) ==
  /\ At(r, "clear")
  /\ running' = FALSE
  /\ ReaderGoto(r, "wait")
  /\ UNCHANGED <<reading, readPaused, didStop, dumpPaused, mutex, console, after, left, dumper, quitUsed>>

ReaderStopWait(r) ==
  /\ At(r, "wait") /\ didStop
  /\ ReaderGoto(r, "reply")
  /\ UNCHANGED <<flags, mutex, console, after, left, dumper, quitUsed>>

ReaderReply(r) ==
  /\ At(r, "reply")
  /\ ReaderGoto(r, "none")
  /\ left' = [left EXCEPT ![r] = 0]
  /\ UNCHANGED <<flags, mutex, console, after, dumper, quitUsed>>

-----------------------------------------------------------------------------
(* A dumper thread.                                                        *)

DumperAt(d, pc) == console # "exited" /\ dumper[d] = pc
DumperGoto(d, pc) == dumper' = [dumper EXCEPT ![d] = pc]

\* Mutants of DumpCheck: the pause is part of the loop's condition; the pause is
\* waited out before _running is looked at.
DumpCheckPauseEnds(d) ==
  /\ DumperAt(d, "check")
  /\ DumperGoto(d, IF running /\ ~dumpPaused THEN "lock" ELSE "lastLock")
  /\ UNCHANGED <<flags, mutex, console, after, reader, left, quitUsed>>
DumpCheckPauseFirst(d) ==
  /\ DumperAt(d, "check") /\ ~dumpPaused
  /\ DumperGoto(d, IF running THEN "lock" ELSE "lastLock")
  /\ UNCHANGED <<flags, mutex, console, after, reader, left, quitUsed>>

\* while (_running) { if (!_paused) printChangedFrames(_ifName); ... }
DumpCheck(d) ==
  /\ DumperAt(d, "check")
  /\ \/ running /\ ~dumpPaused /\ DumperGoto(d, "lock")
     \/ ~running /\ DumperGoto(d, "lastLock")
  /\ UNCHANGED <<flags, mutex, console, after, reader, left, quitUsed>>

\* printChangedFrames holds the dumper's mutex from its first line to its last.
DumpLock(d) ==
  /\ mutex = "free" /\ mutex' = d
  /\ \/ DumperAt(d, "lock") /\ DumperGoto(d, "print")
     \/ DumperAt(d, "lastLock") /\ DumperGoto(d, "lastPrint")
  /\ UNCHANGED <<flags, console, after, reader, left, quitUsed>>

DumpPrint(d) ==
  /\ mutex' = "free"
  /\ \/ DumperAt(d, "print") /\ DumperGoto(d, "check")
     \/ DumperAt(d, "lastPrint") /\ DumperGoto(d, "didStop")
  /\ UNCHANGED <<flags, console, after, reader, left, quitUsed>>

\* Mutant of DumpDidStop: run() returns without setting _didStop.
DumpDidStopForgets(d) ==
  /\ DumperAt(d, "didStop")
  /\ DumperGoto(d, "none")
  /\ UNCHANGED <<flags, mutex, console, after, reader, left, quitUsed>>

DumpDidStop(d) ==
  /\ DumperAt(d, "didStop")
  /\ didStop' = TRUE
  /\ DumperGoto(d, "none")
  /\ UNCHANGED <<reading, readPaused, running, dumpPaused, mutex, console, after, reader, left, quitUsed>>

-----------------------------------------------------------------------------

Keys ==
  \/ STOPCmdHandler \/ SNIFFCmdHandler \/ READCmdHandler \/ MODECmdHandler
  \/ CtrlX \/ CtrlS \/ CtrlQ \/ Exit

ConsoleLocks == SetFilters \/ SetDumpMode

ConsoleRuns ==
  \/ QuitReading \/ DeleteCanBus
  \/ ConsoleStopTest \/ ConsoleStopClear \/ ConsoleStopWait
  \/ StartRunning \/ StartUnstop \/ SpawnDumper
  \/ ReadFails \/ ReadOpens \/ SpawnReader

ReaderRuns(r) ==
  \/ ReadLine(r) \/ ReadPause(r) \/ ReadSave(r) \/ ReadLeave(r)
  \/ ReaderStopTest(r) \/ ReaderStopClear(r) \/ ReaderStopWait(r) \/ ReaderReply(r)

DumperRuns(d) == DumpCheck(d) \/ DumpLock(d) \/ DumpPrint(d) \/ DumpDidStop(d)

Next ==
  \/ Keys \/ ConsoleLocks \/ ConsoleRuns
  \/ \E r \in Readers : ReaderRuns(r)
  \/ \E d \in Dumpers : DumperRuns(d)

Spec == Init /\ [][Next]_vars

\* The kernel runs every runnable thread.  The mutex goes to a waiting console
\* in the end because a dumper sleeps 500 us between two prints.  Nothing
\* obliges the user to press a key.
Fairness ==
  /\ WF_vars(ConsoleRuns) /\ SF_vars(ConsoleLocks)
  /\ \A r \in Readers : WF_vars(ReaderRuns(r))
  /\ \A d \in Dumpers : WF_vars(DumperRuns(d))

FairSpec == Spec /\ Fairness

-----------------------------------------------------------------------------
(* Properties.                                                             *)

\* Every flag, the mutex and every thread's point is one the code has.
TypeOK ==
  /\ reading \in BOOLEAN /\ readPaused \in BOOLEAN
  /\ running \in BOOLEAN /\ didStop \in BOOLEAN /\ dumpPaused \in BOOLEAN
  /\ mutex \in Dumpers \cup {"free"}
  /\ console \in ConsolePC /\ after \in AfterPC
  /\ reader \in [Readers -> ReaderPC]
  /\ left \in [Readers -> 0..MaxLines]
  /\ dumper \in [Dumpers -> DumperPC]
  /\ quitUsed \in BOOLEAN

\* One thread at a time reads a file into the database, as long as ^X is not
\* used: then the unlocked test of _reading that refuses a second `read` with
\* EBUSY (CanBusMgr.cpp:319) is enough.
OneReaderUntilQuit ==
  ~quitUsed => \A r, s \in Readers : InReadLoop(r) /\ InReadLoop(s) => r = s

\* Until ^X is used a reader leaves its loop only at the end of its file: no
\* other thread's exit clears _reading under it.
ReadsToEnd ==
  [][\A r \in Readers :
       ~quitUsed /\ InReadLoop(r) /\ reader'[r] = "leave" => left[r] = 0]_vars

\* EBUSY is honest: while _reading is set some reader will clear it, so the
\* `read` command cannot be locked out for good by a finished reader.
BusyIsHonest ==
  reading => \/ \E r \in Readers : InReadLoop(r) \/ reader[r] = "leave"
             \/ console = "spawnReader"

\* Nobody sits in stop()'s `while(!_didStop)` with no dumper left to set it.
NoOrphanWait ==
  (console = "wait" \/ \E r \in Readers : reader[r] = "wait") /\ ~didStop
    => (\E d \in Dumpers : dumper[d] # "none") \/ console = "spawnDumper"

\* While _running is set a dumper is looping, or start() is about to spawn it:
\* a late stop() of an earlier session never leaves the flag set and the
\* screen dead.
RunningIsHonest ==
  running => (\E d \in Dumpers : InDumpLoop(d)) \/ console \in {"unstop", "spawnDumper"}

\* The console always comes back: neither stop()'s wait for a dumper, paused or
\* not, nor the dumper's mutex holds it for ever.
ConsoleComesBack == console \notin {"idle", "exited"} ~> console \in {"idle", "exited"}

\* ^X takes effect: a reader told to quit, paused or not, leaves its loop,
\* unless a new read raises _reading again before it looks.
QuitTakesEffect ==
  \A r \in Readers :
    console = "quit" /\ InReadLoop(r)
      ~> ~InReadLoop(r) \/ console \in {"spawnReader", "exited"}

-----------------------------------------------------------------------------
(* What the comments of the code say, and the code does not keep.          *)

\* CanBusMgr.cpp:318 "are we already reading a file abort then,": at most one
\* thread reads a file into the database, ^X or not.
AtMostOneReader ==
  \A r, s \in Readers : InReadLoop(r) /\ InReadLoop(s) => r = s

\* FrameDumper.cpp:131 "stop if in progress/" and :160 "wait for it..": when
\* start() spawns a dumper, the one before it is out of its loop.
AtMostOneDumper ==
  \A d, e \in Dumpers : InDumpLoop(d) /\ InDumpLoop(e) => d = e
=============================================================================
