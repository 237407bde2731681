# canhacker in TLA+

canhacker is a terminal program that sniffs CAN buses, or replays captured logs, and shows
the frames and the values decoded from them while they change. This directory holds TLA+
models of it, the TLC runs that check them and the TLAPS proofs about them. Source lines are
those of `src/` of the repository, for example `FrameDB.cpp:245`.

## 1. Inventory

Threads: the **console** (main: one key at a time, every command handler runs on it),
**CANThread** (reads the sockets), one detached **reader** per `read` command
(`readFileThread`), one detached **dumper** per `dumper.start()` (`FrameDumper::run`).
They share the frame database, the dumper object, the bus manager's table and a handful of
plain `bool`s; only the database's queries and `saveFrame`, and the dumper's poll and
settings, take a mutex.

| component | state | operations | hard about it | what makes it correct |
|---|---|---|---|---|
| console commands and keys (`main.cpp`) | none of its own; the dumper is a global | `read`, `sniff`, `stop`, `mode`, `OBD`, `clear`, `exit`, ^X ^S ^Q | each handler is a sequence of unlocked writes to flags that other threads test | always comes back; ^X stops a reader; a second `read` is refused |
| bus manager, files (`CanBusMgr`) | `_reading`, `_paused` | `readFramesFromFile`, `readFileThread`, quit, pause, resume | test of `_reading` and its writes are not one step; readers are detached | one reader at a time; busy only while one reads |
| bus manager, sockets | `_interfaces`, `_master_fds`, `_max_fds`, `_running` | `start`, `stop`, `openSocket`, `sendFrame`, CANThread, destructor | the console edits the table while CANThread selects and reads; fd numbers are reused | table, set and bound agree; pending frames are read |
| frame database (`FrameDB`) | interfaces with tag, protocols, frames; `_values`; three counters | `registerProtocol`, `saveFrame`, `updateValue`, clears, polls by eTag, lookups by refnum | the clears take no lock and run while frames are saved; refnums outlive the lock; tags are 8 bits | a change has its own eTag, never ahead of the counter; values follow frames; a refnum names one interface |
| dumper (`FrameDumper`) | `_running`, `_didStop`, `_paused`, modes, eTags, screen lines | start, stop, pause, resume, mode, filters, poll | two threads call `stop()`; a poll looks up refnums after the lock was released, across clears | a frame left alone ends up on the screen; one dumper; no wait without an answer |
| OBD2, Wranger2010 (protocols) | reassembly buffers | `processFrame`, `processRadioFrame`, `reset` | multi-frame messages with lost, repeated or interleaved parts | a message is reported only whole and in order |
| decoding (`GMLAN`, `OBD2`, `Wranger2010`, `printValue`) | none but tables | `processFrame`, `processOBDResponse`, `processPrivateODB`, `printValue` | what one quantity is stored as is decided in three decoders and undone in one printer; two filters drop what is equal to what is stored | what is read is what the car said last |
| line editor (`CmdLineBuffer`) | buffer, cursor, mode, history, completions | one handler per key | escape sequences, history and completion share a buffer and a cursor | what is on the screen is what is run |
| command manager, registry | handlers, running flag | lookup, completion, dispatch | - | every command leads back to a prompt |

Interaction: readers and CANThread call `FrameDB::saveFrame`, which calls the protocols,
which call `FrameDB::updateValue`; the dumper polls `FrameDB`; the console calls all of them;
a reader's done callback calls `dumper.stop()` on the reader's thread.

`src/foo` is an earlier version that `CMakeLists.txt` does not build. The repository has no
tests and its README no description of behaviour; where a statement about the code is quoted
it is from a comment. The hazards, each at its line, are listed in `PROJECT.json`.

## 2. Modules

| module | models | composed of |
|---|---|---|
| `Session` | console, readers, dumpers and their flags | - |
| `FrameDB` | the database, saves and the clears of the console | - |
| `FrameDumper` | one dumper polling the database | extends `FrameDB`, instantiates `Mirror` |
| `Mirror` | what a screen promises of a database, abstractly | - |
| `CanBus` | the sockets, CANThread, `sendFrame` and the kernel's fds | - |
| `Values` | what a value can be, and how `printValue` draws it | - |
| `GMLAN`, `OBD2Values`, `JeepValues` | what each protocol decodes from a frame or an answer | extend `Values` |
| `Readings` | frame decoders, protocols, values with their times, averages: from frame to reading | extends the three |
| `OBD2` | reassembly of multi-frame responses behind `saveFrame` | - |
| `Wranger2010` | the VINs of the car and of its radio | - |
| `CmdLineBuffer` | the line editor, command dispatch and the terminal's line | instantiates `LineEditor` |
| `LineEditor` | what a line editor promises the one who types, abstractly | - |
| `MC*` | instances for TLC | each extends its module; `MCFrameDumper` covers `FrameDB` too |
| `SessionProofs`, `FrameDBProofs`, `FrameDumperProofs`, `CanBusProofs`, `OBD2Proofs`, `ReadingsProofs`, `Wranger2010Proofs`, `CmdLineBufferProofs` | theorems | `FrameDumperProofs` also extends `FrameDBProofs` |

### Session

`console`, `reader[r]` and `dumper[d]` are program counters. A step is one access of a flag
another thread can act on, so `stop()` is three steps (test `_running`, clear it, wait for
`_didStop`), written once for the console and once for a reader's callback; `start()` is
three (`_paused`/`_running`, `_didStop`, spawn); ^X is `quitReading()`'s two writes and then
`stop()`. `after` is the console's return address from `stop()`. `mutex` is the dumper's.
The console runs one command at a time because `getchar` is read in one loop.
A command needs a free thread slot (`RoomFor`): the bound on threads alive at once.
`quitUsed` remembers that ^X was pressed: until then the unlocked test of `_reading` is enough
to keep readers apart (`OneReaderUntilQuit`, `ReadsToEnd`), after it it is not.

`_paused` of the bus manager is uninitialised at the start, so `Init` leaves it open;
`_reading` too, through the constant `InitReading`. Data races on the flags are modelled as
interleavings of whole reads and writes; a compiler could do worse with them (hoist the load
out of `while(!_didStop)`, say), and the models do not show that it does not.

### FrameDB

A frame's length and bytes are one payload, `Empty` the one of no bytes. `saveFrame` is one
step, since it holds the mutex throughout, and includes the protocols' `processFrame` and
their `updateValue`s: a protocol is the function `KeyOf` from CAN ids to the value it
decodes. (The protocols that decode more from a frame are several protocols here.) The
clears are not one step. `ClearScript` lists their assignments in the order `read` and
`sniff` make them, through `clearFrames`, `clearValues` and `dumper.start()`; `clearing` is
the console's place in it and frames are saved between any two. `read` may leave the script
after `dumper.start()` (EBUSY); for the script the dumper's own stop falls before place 8.

Two facts about the code shape the properties. A frame saved between `frames.clear()` and
`_lastEtag = 0` really does stay ahead of the counter, and a value decoded between a
`frames.clear()` and a `_values.clear()` is really lost. `racy` is the set of frames whose
last change fell inside a clear, and the properties say the damage stops there: it is undone
by the next change of the frame or the next clear.

### FrameDumper

`Poll` asks for the refnums, `DrawFrame` looks one up and draws it, `AllValueKeys` and
`ValuesUpdateSinceEtag` ask for the values, `DrawValue` draws one, `EndPoll` stores the
eTags. Each takes the database's lock once, so saves and clears come between any two. The
dumper's own mutex is held from `Poll` to `EndPoll`, which is why `SetDumpMode` needs the
dumper outside it. `framesUpdateSinceEtag` returns the frames with an eTag *at most* the one
given, so a poll draws what the counter had reached at the poll before: the screen lags one
poll behind, a frame that changes between every two polls is not drawn, and the final poll,
which starts from eTag 0, draws no frame. `ScreenFollowsPoll` and `FramesCatchUp` say what
remains true under that comparison.

`rows` is what stands on each row of the terminal, which is high enough for all of them:
`lines` and `lastFrameLine` are the dumper's `_frameLineMap` and `_lastFrameLine`, `valueLines` and
`lastValueLine` those of the values. A frame that has a line is drawn on it (`PutFrame`); a new one
is given line `_lastFrameLine` but drawn on the row of the next, and `FramesDrawn` erases the row
of the last one drawn so (FrameDumper.cpp:470-471, 505). So the last new frame of a poll is not on the
screen after it, until a later poll draws it on its own line, and `ScreenFollowsPoll` leaves it out
(`LastAdded`); its first copy may stay on the row below its own until the next frame is drawn there. `FramesCatchUp`
says that in the end a frame left alone stands on its own row and stays there. New frames go over the rows
of the values, which the redraw of the same poll gives new ones below. Of the header line only the row it
takes is modelled: a terminal's row 1, for which row 0 stands. In mode `values`, if it was the last
dumper's mode too, that is also the first value's row, since `start()` sets `_lastValueLine` to 0 and no
redraw corrects it: the header line hides that value at each poll. `ValuesCatchUp` is therefore stated of
mode `both`. Left out are filters, pauses (see Session), the colour of old frames and the reset
of `_ifName` that `stop()` makes after its wait, which the next `start()` overwrites unless the stop is a
reader's and late.

`StopDumper` is one step for every caller of `stop()`: the command, `start()`, which must wait for
the dumper's end before its clears, and a reader's callback, which may come between any two steps of
anyone, a clear's assignments included.

`Mirror` is the abstract specification: sources that change and vanish, and rows, each of which is drawn
only with a cell and what its source holds at that moment. One row is drawn or erased at a
time, or the screen cleared. `ScreenMirror` maps a frame's cell to the frame stored under its interface
and id and a value's to the value's data, and `ScreenIsMirror` says that the dumper
implements it: a refnum that outlived the lock, or a database cleared under the poll, never draws what is
not there.

### CanBus

`fdOf`, `master` and `maxFd` are the manager's table, `dup`, `toScan` and `readFd` are
CANThread's locals. `OpenSocket` is the kernel's part of `openSocket` with the `FD_SET`,
`Assign` the two writes to the table; `CloseFd` and `ClearFd` are the two halves of closing.
After a failed `select()` the loop still scans its unchanged copy, as the code does. The
kernel (external) gives out the lowest free fd, refuses a set with a closed fd, and lets a
read of an empty socket block. The table of names is as the code has it: an entry is found
with `strcasecmp` and written under the name as typed; the instance types names as they are
registered. (`sniff CAN0`, which fails, `sniff can0`, `stop can0`, `sniff can0` leaves an entry
with a closed fd: see the hazards.)

`sendFrame` is called on two threads. For the OBD command it is one step (`OBDCmdHandler`), since
only the console writes the table. For CANThread it is two: `Reply` looks the fd up when a
protocol asks for the rest of a long answer, `Write` writes to it, and the console may close
the number and give it to another interface in between. `strays` remembers who has sent a frame
to another bus than it was meant for. Which frames a protocol answers is open; a reader's frames
are answered by nobody (`isReadingFile`).

### Values, GMLAN, OBD2Values, JeepValues and Readings

`FrameDB` knows of a value only which frame it is decoded from. Here is the rest of the way. A
value is what its string stands for: a fraction (whose six decimals the code keeps), the bytes
of a text or of a block of data, or a list of trouble codes. `GMUpdates`, `JeepUpdates`,
`SingleFrame`, `LongAnswer` and `UnitAnswer` are the protocols' handlers as functions from bytes
to updates; `Schema` and the unit tables are `_schemaMap` and its like; `DrawnNumber` is
`printValue`, with the conversions, truncations and roundings the user sees, and with tenths and
hundredths as integers. The tables are complete for the parameters the code knows; units that
`printValue` draws with its default case are one unit.

`Readings` puts these behind `saveFrame`: decoders for every frame of their ids, protocols for
new and changed ones, `updateValue`'s filter and dates, and the entry's time stamp and average
in arithmetic modulo `Wrap`. Saves and clears are one step here, and long answers come whole:
what interleavings do is in `FrameDB`, what lost frames do in `OBD2` and `Wranger2010`. The
environment is a car (`traffic`): some signals, each one quantity sent in one frame or answer, with
the bytes for each content and what the user should read. These are written down in `MCReadings`
from what the bytes stand for (SAE J1979 for OBD, the comments and logs of the repository for the
others), independently of the decoders: the run compares two descriptions. A frame in which a
quantity is marked invalid is a content of its own. `Stray` is what lies behind the eight bytes of
a frame, which a single-frame answer of the radio can reach.

Some quantities are misread whatever comes, and `Misread` names them: GMLAN's oil temperature
(GMLAN.cpp:333) and OBD's catalyst temperatures (OBD2.cpp:405) are taken 40 degrees off twice,
GMLAN's torque is made of one byte twice (GMLAN.cpp:269), the formula of J2190's oil pressure looks
for its number in the wrong bytes (OBD2.cpp:364), and OBD's air flow has no formula, so its
hundredths are not divided out. Properties leave these out. In the same way `UnitsAreRead` grants
the one byte that a single-frame answer of the radio or amplifier gains, or the code it makes up.
The radio's trouble codes go under the amplifier's key (Wranger2010.cpp:570), service 2's answers
under those of service 1, and parameters 4F and 5F share a title; the models do the same.

### OBD2

`partial` is `_ecu_messages`, `stored` the part of the frame database that decides whether
`processFrame` sees a frame at all: `saveFrame` hands on a frame only if it differs from the
last one stored under its interface and id. The environment is a set of ECUs. Each sends a
first frame, then the consecutive frames once anybody asks for them, and any frame may be lost;
two ECUs on two buses may share an id, which is `_ecu_messages`' only key. A frame is a message
and a position in it, not bytes; the buffer is the sequence of frames put into it, next to
`current_len` and `total_len`, which are computed as in the code. `Reset` and `ClearFrames` are
the two steps of `clearFrames()`.

`tainted` and `intact` are history variables: the ids in whose partial message frames of two
messages may have met (after a lost first frame, or a second ECU's frame), and the ECUs all
of whose frames were taken since their first. A first frame equal to the last one stored is
not handed on, so nobody asks for the rest: a request repeated after its answer broke off there
is not answered, and its message not intact.

### Wranger2010

Two VINs are put together from three parts each. Those of `0x219` come over and over, through
`saveFrame`'s filter; `_VIN` and the function's static `stage` (`Stage` is what a frame finds it
to be) go on with the part waited for and stop once complete. The radio's answers all reach the
decoder; `radio` is the static stage and buffer, and any three answers make a VIN. In the log
`CANFiles/radio.log` parts come repeated and out of order, so answers come in any order here,
and one may be joined from two. `early` marks a VIN that began to come while a clear was under
way: the value may then be emptied after it was complete, for good.

### CmdLineBuffer

One action per key and mode. `text` and `pos` are `_dbuf`, `historyIndex` is `_historyIndex`
with -1 for `ULONG_MAX`, and `screen` is what the replies leave on the terminal: the line behind
the last prompt and the cursor's column, or `Unknown` once a reply may stand in front of the
prompt. `maybeCopyHistoryToBuffer()`, with which most handlers begin, is in `Line` and `Cursor`.
`processBuffer` is `IgnoreEmpty` and `ProcessCommandLine`, which includes the dispatch, the
command's completion callback and `storeCmdInHistory`; whether a handler asks to be stored is
open. `astray` marks what the editor is known to show wrongly, a line of blanks kept after Enter
and a history line under ^X, so that the properties can say that nothing else goes wrong.

`LineEditor` is the abstract specification: a line with a cursor, or none in view, and a history. A
key inserts, deletes, erases, moves by one place or to an end, completes, recalls a line or clears;
Enter runs what is seen, less blanks at its ends, and nothing else gets into the history. `View` maps
the terminal's line to it, and `Unknown` where the editor is astray. `ShowsBuffer` compares terminal
and buffer, and holds of a terminal that is `Unknown` for whatever reason; `IsLineEditor` says what
each key does to the line, and that it is lost in four ways only: an Enter on blanks, a reply without
a prompt of its own, ^X on a history line, the end. Completion adds what all matching names share, but
for the last character of the first one, which `findCommonPrefix` (CmdLineBuffer.cpp:483) does not
compare: of `ha` and `hb`, `h` and Tab make `ha`. No two commands of the program are that close.

## 3. Runs

| run | instance | shows |
|---|---|---|
| `SessionSafety` | 2 readers, 2 dumpers, files of at most 1 line, every command | `NoOrphanWait`, `RunningIsHonest`, `BusyIsHonest`, `OneReaderUntilQuit`, `ReadsToEnd` |
| `SessionLiveness` | 2 readers, 2 dumpers; `read`, `mode`, ^X, ^S, ^Q | `ConsoleComesBack`, `QuitTakesEffect` under fairness |
| `SessionTwoReaders` | `read` and ^X | **violated**: `AtMostOneReader` |
| `SessionTwoDumpers` | 1 reader; `read`, `sniff`, `stop` | **violated**: `AtMostOneDumper` |
| `FrameDumperPolls` | 1 interface, 2 CAN ids, 2 payloads, no values, 2 saves between resets, `read` (whose clears include those of `sniff`), modes `frames` and `values` | `ScreenFollowsPoll`, `EtagsBehindCounter`, and that `Mirror` is implemented (`ScreenIsMirror`) |
| `FrameDumperCatchUp` | 2 interfaces that come into being under the dumper, 2 payloads, 2 saves between resets, `sniff`, mode `both` | `EtagsDistinct`, `RefnumsResolve`, `ValuesFollowFrames`, and `FramesCatchUp`, `ValuesCatchUp` under fairness |
| `CanBus` | the 2 interfaces of main(), 3 fds, 1 pending frame each | `OpenIsWatched`, `LoopIsSafeWithoutStop`, `FramesGoWhereMeant`, and `FramesAreRead` under fairness |
| `Readings` | 39 cars of 1 to 3 quantities, about 75 quantities in all; a few with stamps 0, 1, 3, 7 modulo 16 and 3 seconds | `ReadingsAreTrue`, `UnitsAreRead`, `OldIsUnchanged`, `AverageWithinGaps` |
| `OBD2` | 2 ECUs with one id, messages of 12 and 25 bytes, a rolling count of 2 values | `CleanIsWhole`, `IntactIsAnswered` |
| `Wranger2010` | the three parts of a VIN | `VINIsWhole`, `CompleteIsShown`, `FiveFramesAreEnough`, `SteadyVINIsWhole` |
| `CmdLineBuffer` | four commands that share beginnings, lines of 3, a history of 3 | `ShowsBuffer`, `RunsWhatIsShown`, and that `LineEditor` is implemented (`IsLineEditor`) |
| `CmdLineBufferEmpty` | the same | **violated**: `EmptyLineRunsNothing` |

Each module's type invariant is checked in the first run of its module.

Bounds. Two readers and two dumpers are the fewest with which one can disturb another; the
flags they meet at hold no count, so a third only repeats the second's part (the proofs are
for any number). One line is enough to be inside the loop and to leave it by either exit.
`MaxEtag` bounds the saves between two resets of the counter, not their total: two let a
frame change after it was drawn. Two CAN ids are the fewest with which a frame can be drawn on another's row
and one poll give lines to several; ids and payloads are interchangeable there, which
the symmetry set says (`FrameDumperPolls` checks no liveness). The values' rows, which that
run has not, are in `FrameDumperCatchUp`; under `Mirror` and `ScreenFollowsPoll` they are in the proofs. 2 is
also `TagLimit`, so `RefnumsResolve` is checked with every tag in use. Three fds for two
interfaces leave one for a socket that failed to bind, and running out of fds happens.
A message of 12 bytes has one consecutive frame and one of 25 three, the last of them short, so
that a rolling count of two values wraps inside one message; losing as many frames as the count
has values is what could pass one frame off as another. A quantity is tried with two or three contents: zero, an ordinary one, and the end of its range or
one that rounds; a car's quantities share a frame, a key, a unit or a bus, so that one could
disturb the other. With `OldAfter` 1, a car lives 3 seconds: enough to be young, just not old, and
old. Stamps below half of `Wrap` are what the code assumes; going back from 7 to 0 wraps.
Three characters are a line with a
beginning, a middle and an end, and a command with a blank; of the four commands two differ in the
middle, where completion stops short, and two in their last character. Three lines of history have
both ends and a line that is neither.
Deadlock is not checked where `exit` or ^C is possible: the process ends.

Fairness. The kernel runs every runnable thread (weak fairness per thread). The console's
wait for the dumper's mutex is strongly fair: the dumper sleeps 500 us between polls. For the
dumper alone and for CANThread, weak fairness of the thread and of a command once begun. No
key, frame, line or successful open is ever owed.

### What the violated runs show

- `SessionTwoReaders`: `quitReading()` does not wait. `read`, ^X, `read`: the first reader,
  asleep between two lines, wakes up to the `_reading` the second `read` raised and goes on.
- `SessionTwoDumpers`: a reader's callback clears `_running` and waits; `sniff`'s `stop()`
  then sees it false, returns, and `start()` raises it again before the dumper has looked.
- `CmdLineBufferEmpty`: ^X clears the line but not `_historyIndex`: with a history line shown,
  ^X and Enter run that line from an empty prompt.

## 4. Proofs

Checked by tlapm for every value of the constants that satisfies the named assumptions.

`SessionProofs`. Type correctness; `NoOrphanWait`, from `StopAnswered`: while a `stop()`
waits and `_didStop` is down, a dumper lives or is about to be spawned; it needs the pairing
of `_running` with a dumper that will look at it, which is `RunningIsHonest`. `BusyIsHonest`
is proved for `InitReading \subseteq {FALSE}`. `OneReaderUntilQuit` and `ReadsToEnd` are proved
for every set of commands, from `ReadingIsOwned`: until the first ^X, the reader in its loop, the
reader about to clear `_reading` and the console about to spawn exclude each other and hold
`_reading` up.

`FrameDBProofs`. Type correctness; `RefnumsUnique` from `TagsInv` (the known interfaces,
fewer than `TagLimit`, hold exactly the tags below `_lastInterfaceTag`); and from `StoreInv`
the three properties of eTags and values. `StoreInv` adds to them that nothing is saved
before main() has registered its protocols, and that from the script's first
`frames.clear()` to its end every frame present is racy, which is why the unlocked clears
cannot hurt the others.

`FrameDumperProofs`. Every step of `FrameDumper` is a step or a stutter of `FrameDB`
(`DumperKeepsDatabase`), so the theorems above hold beside a dumper. With the invariant that
a frame is stored only under an interface that has its tag, and that every refnum held was
made from one, a refnum keeps naming exactly one interface (`RefnumsStayResolved`).

The same invariant gives the refinement (`ScreenMirrored`): initial states map to initial
states, a save or a clear is `Mirror`'s `Change`, a drawn frame or value is `Draw` (its refnum
names an interface whose entry was looked up, and that entry is there), the row erased after new
frames and the header's are `Erase`, a switch of the mode or a start is `Clear`, everything else a
stutter. A frame's cell is no value's (`CellsAssumption`).

`ScreenFollowsPoll` holds with no more interfaces than an ifTag counts (`ScreenFollows`): with more, a
refnum may draw another interface's frame. It takes two invariants. `LineInv` says where the lines are:
each refnum has one of its own (`LinesApart`), one given in this poll is of no refnum still to be drawn
(`LinesOfPoll`), the values are below the frames whenever values are drawn beside frames (`ValuesBelow`), and
a poll is drawn in the mode it was made in, for the mutex keeps `SetDumpMode` out (`OneMode`).
`FollowInv` says that a frame that was due stands on its row as it now is, or its refnum is still to be
drawn, or it was the last to be given a line and its row has been erased (`Followed`); its row is that of its
line, and one further down if the line was given in the last poll (`RowOf`). By `LineInv` the rows
of two refnums differ, so that drawing one, erasing the last, the values below and the header above
take off none of the others. What is saved meanwhile has an eTag beyond the poll, because a reset takes
the poll back with the counter (`Counted`). That a lookup finds the one interface is `RefnumsUnique` of
`FrameDBProofs`.

`CanBusProofs`. Types, and for names typed as they are registered (`FoldsApart`, see the hazard
at CanBusMgr.cpp:160) `OpenIsWatched`, `LoopIsSafeWithoutStop` and
`FramesGoWhereMeant`, for any interfaces, fds and numbers of frames. `TableInv` says between which
two steps table, set and kernel disagree: from `openSocket` to `Assign` one fd is watched that no
entry has, from `CloseFd` to `ClearFd` one entry has an fd that is free. `LoopInv` says that, as
long as nothing was closed and the loop not told to end, CANThread's copy has open sockets only, and
those of the interfaces still to be looked at have a frame. `SendInv` says that the fd between
`Reply` and `Write` is then its interface's. The code takes the first entry of a map and the kernel the
lowest fd: that there is one (`LeastExists`) comes from the library's theorem on minimal
elements of well-founded orders.

`ReadingsProofs`. All five properties. `AverageWithinGaps` for any frames and stamps and any even or odd
width of the counter: the difference of two stamps is their gap, or, when they go back, wraps to less
than the whole range, half of which is what `excess` allows. Types for any traffic at all, since no
decoder makes a value of another shape (`GMSays`, `JeepSays`, `Responses`, `UnitAnswers`).

`ReadingsAreTrue`, `UnitsAreRead` and `OldIsUnchanged` are proved of any car that is `Readable`: one
valid frame by itself says its own key and is drawn as it was meant, a frame that is not valid says
nothing, the bytes tell signal and content, and two contents are two values. That hypothesis is about
decoders and printer alone, without a state. TLC evaluates it for all 39 cars of the run
(`CarsAreReadableAssumption`); the theorems say that nothing else can go wrong, for any number of
signals and any order of frames, ticks and clears. They rest on `FrameInv`: the frame
stored under an interface and id is the last one its signal told, or said nothing valid, so a frame
that the filter drops repeats what was told last (`RepeatsSayNothing`). `AgeInv` adds for a key that
one signal tells alone that its value is that signal's last content and no older: an equal value keeps
its date, but another content is another value.

For two quantities the hypothesis is proved as well (`MeasuredReadable`): engine speeds and
temperatures, in any frames whose bytes hold them, for every content and not only those the run tries.
`MeasuredAreRead` says what follows: whichever of the three protocols tells them, on whichever bus and
by however many ECUs, they are read as they are. `MeasuredAssumption` ties this description of the
bytes to the cars of the run. The other quantities have their hypothesis from TLC, for the contents tried.

`OBD2Proofs`. Type correctness with the bound `current_len < total_len`, `CleanIsWhole` and
`IntactIsAnswered`, for any ECUs, any assignment of ids, any messages of 8 to 255 bytes and any
rolling limit above 1. The invariant says four things. An ECU that is sending has frames left to
send (`MoreToSend`). A partial message's length
follows from the number of frames in its buffer, which is that of neither an empty nor a finished
message (`PartialsFilled`). If its id is not tainted, its buffer holds frames of one message in
increasing order, the first one first, and none beyond what the owner has sent (`CleanPartials`);
so a frame that is one rolling cycle late cannot complete a message: as many frames as the
length takes, in increasing order, are all of them. An
intact ECU owns its id's partial message and it holds what the ECU has sent (`IntactHeld`).

`Wranger2010Proofs`. All five properties. The part waited for is never the one stored
(`WaitedIsNew`), so it is handed on when it comes; between two clears the frames seen in a row and
those still to come (`ToCome`) are never more than five (`Progress`), and during a clear the first
part comes within four (`ClearProgress`), which is what marks a VIN as `early`. A VIN no part of which came
during a clear is empty until the clear ends (`ClearEmpties`). The radio's buffer holds as many of its
last answers as came in order (`RadioFollows`).

`CmdLineBufferProofs`. Types and `ShowsBuffer` for any commands, history file and length of lines,
and `RunsWhatIsShown` for a history file of trimmed lines (`FilesAsSaved`), which is what the program
saves: the code runs a line of the history as it is in the file. The lemmas on `Inserted`,
`Overwritten`, `DeletedBefore`, `ErasedAfter` and `MoveTo` say that each reply does to a line
on the terminal what its key does to the buffer, for every line and cursor; the invariant adds to
`ShowsBuffer` that the cursor is at the end of a history line that is shown (`InStep`), which is why
a key that copies the line into the buffer leaves the two in step, and that the terminal's cursor
is on its line even when astray (`ScreenFits`).

The same invariant gives the refinement (`EditorShown`): while a line is in view it is the buffer
(`SeenIs`), so that each handler's reply, computed, is `LineEditor`'s step; with none in view a key either
leaves it so or draws a whole line (`Grope`). What completion puts in is the first name up to some
place before which all the names agree (`PrefixIsCommon`); what `processBuffer` runs is the line in
view or what trimming leaves of it (`StrippedIs`), and the `history` command's name begins the line that
calls it (`FirstWordBegins`).

Model-checked only: the liveness properties (`ConsoleComesBack`, `QuitTakesEffect`, `FramesCatchUp`,
`ValuesCatchUp`, `FramesAreRead`), which are out of the provers' reach. Every invariant and action
property of a passing run is a theorem.

## 5. Not modelled

`clear`, and what the OBD command replies; the schemas' OBD requests, which nothing sends; the names
of frames in the list (`descriptionForFrame`); what the header line says, and the age of
frames; filters; the log grammar and delays; the terminal's width and anything that other threads
print; saving the history file and the failure to do so; the sizes of the editor's allocation; answers
of 256 bytes and more, whose length the code gets wrong, and answers too short to name what they
answer; `src/foo`.
Never called, and left out: `unRegisterProtocol`, `unRegisterFrameDecoder`,
`unRegisterHandler`, `waitForChar`, `setTermSize`, and `clearFrames` with a name. `read` without
a file name returns before it writes anything; its reply aside it is a stutter.

## 6. Plan

What could still be added, most useful first:

1. The names a dumper shows: `stop()`'s late reset of `_ifName` beside a start, in Session.
2. The log reader's grammar and delays; the history file, read at the next start.
