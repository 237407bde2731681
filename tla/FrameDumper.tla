---------------------------- MODULE FrameDumper ----------------------------
(***************************************************************************)
(* The dumper thread drawing the frame database on the terminal while other*)
(* threads save frames and the console clears, stops and starts.           *)
(*                                                                         *)
(* A poll (printChangedFrames) asks the database, under the database's     *)
(* lock, for the refnums since an eTag, then looks each one up again, under*)
(* the lock again, and draws it; then it does the same with the values.    *)
(* Frames are saved and cleared in between.                                *)
(* There is one dumper here; module Session is about there being two.      *)
(*                                                                         *)
(* The screen is what stands on each row of the terminal, which is high    *)
(* enough for all of them.  The header line is modelled by the row it takes*)
(* from what stood there.  Filters, pauses and the ageing of frames are    *)
(* left out.                                                               *)
(***************************************************************************)
EXTENDS FrameDB

CONSTANTS
  Ports,   \* interfaces the user gives to sniff
  Every,   \* the empty _ifName: every interface
  Modes    \* the modes the user switches between

AllModes == {"both", "frames", "values"}
ASSUME PortsAssumption == Ports \subseteq Interfaces
ASSUME EveryAssumption == Every \notin Interfaces
ASSUME ModesAssumption == Modes \subseteq AllModes
ASSUME CellsAssumption == Keys \cap (Interfaces \X CanIds) = {}

VARIABLES
  running,       \* FrameDumper::_running
  dumper,        \* where run() is: "off" before start and after _didStop
  mode, lastmode,\* _mode, _lastmode
  ifName,        \* _ifName
  dumperEtag,    \* FrameDumper::_lastEtag
  dumperValueEtag, \* FrameDumper::_lastValueEtag
  final,         \* the poll is the one run() makes after its loop
  newEtag,       \* printChangedFrames' newEtag
  newTags,       \* its new_tags, those not drawn yet
  anyTags,       \* whether new_tags had any
  redraw,        \* its redraw
  newValueEtag,  \* printChangedValues' newEtag
  newKeys,       \* its keys to draw
  lines,         \* the line of each refnum that has one: _frameLineMap
  lastFrameLine, \* _lastFrameLine
  valueLines,    \* the line of each value that has one: _valueLineMap
  lastValueLine, \* FrameDumper::_lastValueLine
  rows,          \* what stands on a row of the terminal: a frame or key, a payload
  polled,        \* history: the eTags of the present count due in the last poll
  linesBefore    \* history: _lastFrameLine when the last poll began to draw

etags      == <<dumperEtag, dumperValueEtag>>
query      == <<final, newEtag, anyTags, redraw>>  \* set by Poll for the length of the poll
poll       == <<query, newTags, newValueEtag, newKeys>>
frameLines == <<lines, lastFrameLine>>
valueRows  == <<valueLines, lastValueLine>>
screen     == <<frameLines, valueRows, rows>>
history    == <<polled, linesBefore>>
settings   == <<running, mode, ifName>>
dumperVars == <<settings, dumper, lastmode, etags, poll, screen, history>>
dbVars     == vars
allVars    == <<dbVars, dumperVars>>

DumperPC == {"off", "idle", "frames", "drawn", "updated", "values"}

Least(a, b) == IF a < b THEN a ELSE b

\* A map with one entry more, or another one; and with one less.
Nothing        == [key \in {} |-> 0]
With(f, x, y)  == [z \in DOMAIN f \cup {x} |-> IF z = x THEN y ELSE f[z]]
Without(f, x)  == [z \in DOMAIN f \ {x} |-> f[z]]

TopOffset == 3

\* Where the terminal puts a line: its first row is row 1, which it takes 0 for too.
Row(line)  == IF line = 0 THEN 1 ELSE line
HeaderRow  == Row(0)

\* The poll has given a line to a frame that had none.
addedLines == lastFrameLine > linesBefore

ShowsFrames(m) == m \in {"both", "frames"}
ShowsValues(m) == m \in {"both", "values"}

DumperInit ==
  /\ running = FALSE /\ dumper = "off" /\ ifName = Every
  /\ mode = "both" /\ lastmode = "both"
  /\ dumperEtag = 0 /\ dumperValueEtag = 0
  /\ final = FALSE /\ newEtag = 0 /\ newTags = {} /\ anyTags = FALSE /\ redraw = FALSE
  /\ newValueEtag = 0 /\ newKeys = {}
  /\ lines = Nothing /\ lastFrameLine = 0 /\ valueLines = Nothing /\ lastValueLine = 0
  /\ rows = Nothing /\ polled = 0 /\ linesBefore = 0

-----------------------------------------------------------------------------
(* printChangedFrames, which holds the dumper's mutex from Poll to EndPoll.*)

\* A frame of the interface the dumper shows.
Wanted(f) == ifName \in {Every, f[1]}

\* A clear screen, on which nothing has a line.
ClearScreen ==
  /\ lines' = Nothing /\ lastFrameLine' = 0 /\ valueLines' = Nothing /\ lastValueLine' = 0
  /\ rows' = Nothing /\ linesBefore' = 0

\* framesUpdateSinceEtag.  run() asks for a redraw only once, when it has left
\* its loop; a redraw starts again from eTag 0, a new mode from a clear screen.
Poll ==
  LET again == ~running \/ lastmode # mode
      since == IF again THEN 0 ELSE dumperEtag
      due   == {f \in FramesUpdateSinceEtag(since) : Wanted(f)}
  IN
  /\ dumper = "idle" /\ dumper' = "frames" /\ final' = ~running
  /\ newTags' = {makeFrameTag(f[1], f[2]) : f \in due}
  /\ anyTags' = (due # {}) /\ newEtag' = lastEtag
  /\ redraw' = again /\ lastmode' = mode
  /\ polled' = Least(since, lastEtag)
  /\ IF lastmode # mode THEN ClearScreen ELSE UNCHANGED screen /\ linesBefore' = lastFrameLine
  /\ UNCHANGED <<dbVars, settings, etags, newValueEtag, newKeys>>

\* Mutant of DrawFrame: what the lookup found is drawn unasked.
DrawFrameUnasked(tag) ==
  /\ dumper = "frames" /\ ShowsFrames(mode) /\ tag \in newTags
  /\ newTags' = newTags \ {tag}
  /\ IF tag \in DOMAIN lines
       THEN UNCHANGED frameLines
       ELSE lines' = With(lines, tag, lastFrameLine) /\ lastFrameLine' = lastFrameLine + 1
  /\ \E i \in Owners(tag) :
       rows' = With(rows, lines'[tag] + TopOffset, <<<<i, tag[2]>>, frames[i][tag[2]].data>>)
  /\ UNCHANGED <<dbVars, settings, dumper, lastmode, etags, query, newValueEtag, newKeys,
                 valueRows, history>>

\* A frame that has a line is drawn on it.  A new one is given the next line, and
\* drawn on the one after.
PutFrame(tag, f, x) ==
  \/ /\ tag \in DOMAIN lines /\ UNCHANGED frameLines
     /\ rows' = With(rows, lines[tag] + TopOffset, <<f, x>>)
  \/ /\ tag \notin DOMAIN lines
     /\ lines' = With(lines, tag, lastFrameLine) /\ lastFrameLine' = lastFrameLine + 1
     /\ rows' = With(rows, lastFrameLine + 1 + TopOffset, <<f, x>>)

\* frameWithTag: the entry now under the refnum, if there still is one.
DrawFrame(tag) ==
  /\ dumper = "frames" /\ ShowsFrames(mode) /\ tag \in newTags
  /\ newTags' = newTags \ {tag}
  /\ \E i \in Owners(tag) :
       \/ Present(i, tag[2]) /\ PutFrame(tag, <<i, tag[2]>>, frames[i][tag[2]].data)
       \/ ~Present(i, tag[2]) /\ UNCHANGED <<frameLines, rows>>
  /\ UNCHANGED <<dbVars, settings, dumper, lastmode, etags, query, newValueEtag, newKeys,
                 valueRows, history>>

\* Mutant of FramesDrawn: the row above is erased.
FramesDrawnRowAbove ==
  /\ dumper = "frames" /\ (ShowsFrames(mode) => newTags = {}) /\ dumper' = "drawn"
  /\ rows' = IF addedLines THEN Without(rows, lastFrameLine + TopOffset - 1) ELSE rows
  /\ UNCHANGED <<dbVars, settings, lastmode, etags, poll, frameLines, valueRows, history>>

\* "erase the last line if we added one": the row the last new frame was drawn on.
FramesDrawn ==
  /\ dumper = "frames" /\ (ShowsFrames(mode) => newTags = {}) /\ dumper' = "drawn"
  /\ rows' = IF addedLines THEN Without(rows, lastFrameLine + TopOffset) ELSE rows
  /\ UNCHANGED <<dbVars, settings, lastmode, etags, poll, frameLines, valueRows, history>>

\* printChangedValues is called, with a redraw or without.
ValuesToo == (anyTags \/ redraw) /\ ShowsValues(mode)
RedrawAll == redraw \/ addedLines

\* allValueKeys, which a redraw draws.
AllValueKeys ==
  /\ dumper = "drawn" /\ ValuesToo /\ dumper' = "updated"
  /\ newKeys' = IF RedrawAll THEN {k \in Keys : values[k].data # None} ELSE {}
  /\ dumperValueEtag' = IF RedrawAll THEN 0 ELSE dumperValueEtag
  /\ UNCHANGED <<dbVars, settings, lastmode, dumperEtag, query, newTags, newValueEtag,
                 screen, history>>

\* Mutant of ValuesUpdateSinceEtag: the comparison the other way round; the first
\* value has eTag 0.
ValuesAfterEtag ==
  /\ dumper = "updated" /\ dumper' = "values"
  /\ newKeys' = {k \in Keys : values[k].data # None /\ values[k].eTag > dumperValueEtag}
  /\ newValueEtag' = lastValueEtag
  /\ UNCHANGED <<dbVars, settings, lastmode, etags, query, newTags, screen, history>>

\* valuesUpdateSinceEtag, whose keys are drawn when there is no redraw; a redraw
\* gives lines to the values anew, below the frames.
ValuesUpdateSinceEtag ==
  /\ dumper = "updated" /\ dumper' = "values"
  /\ newValueEtag' = lastValueEtag
  /\ \/ /\ RedrawAll /\ UNCHANGED newKeys
        /\ valueLines' = Nothing /\ lastValueLine' = lastFrameLine + TopOffset + 1
     \/ /\ ~RedrawAll /\ UNCHANGED valueRows
        /\ newKeys' = {k \in Keys : values[k].data # None /\ values[k].eTag <= dumperValueEtag}
  /\ UNCHANGED <<dbVars, settings, lastmode, etags, query, newTags, frameLines, rows, history>>

\* printValue on the value's line, or on the next: the value now under the key, if
\* there still is one.
DrawValue(k) ==
  LET line == IF k \in DOMAIN valueLines THEN valueLines[k] ELSE lastValueLine IN
  /\ dumper = "values" /\ k \in newKeys
  /\ newKeys' = newKeys \ {k}
  /\ valueLines' = With(valueLines, k, line)
  /\ lastValueLine' = IF k \in DOMAIN valueLines THEN lastValueLine ELSE lastValueLine + 1
  /\ rows' = IF values[k].data = None THEN rows ELSE With(rows, Row(line), <<k, values[k].data>>)
  /\ UNCHANGED <<dbVars, settings, dumper, lastmode, etags, query, newTags, newValueEtag,
                 frameLines, history>>

\* What is local to a poll goes with it.
ForgetPoll ==
  /\ final' = FALSE /\ newEtag' = 0 /\ newTags' = {} /\ anyTags' = FALSE
  /\ redraw' = FALSE /\ newValueEtag' = 0 /\ newKeys' = {}

\* printHeaderLine, which takes the header's row.
PrintHeaderLine == rows' = IF anyTags \/ redraw THEN Without(rows, HeaderRow) ELSE rows

\* Mutant of EndPoll: the next poll starts one eTag back.
EndPollOneBack ==
  /\ \/ dumper = "drawn" /\ ~ValuesToo /\ UNCHANGED dumperValueEtag
     \/ dumper = "values" /\ newKeys = {} /\ dumperValueEtag' = newValueEtag
  /\ dumperEtag' = newEtag - 1
  /\ PrintHeaderLine /\ ForgetPoll
  /\ dumper' = IF final THEN "off" ELSE "idle"
  /\ UNCHANGED <<dbVars, settings, lastmode, frameLines, valueRows, history>>

\* The end of a poll, with its values drawn or not asked for.  After the final one
\* run() sets _didStop.
EndPoll ==
  /\ \/ dumper = "drawn" /\ ~ValuesToo /\ UNCHANGED dumperValueEtag
     \/ dumper = "values" /\ newKeys = {} /\ dumperValueEtag' = newValueEtag
  /\ dumperEtag' = newEtag
  /\ PrintHeaderLine /\ ForgetPoll
  /\ dumper' = IF final THEN "off" ELSE "idle"
  /\ UNCHANGED <<dbVars, settings, lastmode, frameLines, valueRows, history>>

DumperRuns ==
  \/ Poll \/ (\E tag \in newTags : DrawFrame(tag)) \/ FramesDrawn
  \/ AllValueKeys \/ ValuesUpdateSinceEtag \/ (\E k \in newKeys : DrawValue(k))
  \/ EndPoll

-----------------------------------------------------------------------------
(* The console.                                                            *)

\* setDumpMode waits for the mutex, so it falls between two polls.
SetDumpMode(m) ==
  /\ toRegister = {} /\ clearing = 0 /\ dumper \in {"off", "idle"}
  /\ mode' = m
  /\ UNCHANGED <<dbVars, running, ifName, dumper, lastmode, etags, poll, screen, history>>

\* stop() by the stop command, by start() before it clears, or by a reader's done
\* callback, which may come at any time.  Only start() is made to wait for the end.
\* The reset of _ifName after the wait is left out: start() sets it.
StopDumper ==
  /\ running /\ running' = FALSE
  /\ UNCHANGED <<dbVars, mode, ifName, dumper, lastmode, etags, poll, screen, history>>

BeginCommand == BeginClear /\ UNCHANGED dumperVars

\* start() after its clears: the new dumper has no lines and eTag 0, but keeps
\* _lastValueEtag; run() clears the screen.  read shows every interface.
StartDumper ==
  /\ running' = TRUE /\ dumper' = "idle" /\ dumperEtag' = 0
  /\ ifName' \in IF clearing = StartEnds THEN {Every} ELSE Ports
  /\ ClearScreen /\ polled' = 0
  /\ UNCHANGED <<mode, lastmode, dumperValueEtag, poll>>

\* One assignment of a clear.  start()'s own are made with the dumper off.
ClearAssignment ==
  /\ ClearTheFrames \/ ClearTheValues \/ ResetEtag \/ ResetValueEtag
  /\ clearing \in {ClearInStart, SniffStart} => ~running /\ dumper = "off"
  /\ IF clearing \in {StartEnds, ScriptEnds}
       THEN StartDumper
       ELSE /\ polled' = IF ClearScript[clearing] = "etag" THEN 0 ELSE polled
            /\ UNCHANGED <<settings, dumper, lastmode, etags, poll, screen, linesBefore>>

-----------------------------------------------------------------------------

Saves ==
  /\ \/ \E i \in Interfaces, p \in Protocols : RegisterProtocol(i, p)
     \/ \E i \in Interfaces, c \in CanIds, x \in Payloads : SaveFrame(i, c, x)
  /\ UNCHANGED dumperVars

DumperSpecInit == Init /\ DumperInit
DumperNext ==
  \/ Saves \/ DumperRuns \/ BeginCommand \/ ClearAssignment \/ StopDumper
  \/ \E m \in Modes : SetDumpMode(m)

DumperSpec == DumperSpecInit /\ [][DumperNext]_allVars

\* The dumper thread and a command that has begun go on; frames and keys need
\* not come.
DumperFairSpec == DumperSpec /\ WF_allVars(DumperRuns) /\ WF_allVars(ClearAssignment)

-----------------------------------------------------------------------------
(* What the screen promises (module Mirror).                               *)

\* Where the screen gets what it shows from: a frame for each interface and CAN id,
\* and a value for each key.
FrameCells == Interfaces \X CanIds
Database ==
  [c \in FrameCells \cup Keys |->
     IF c \in FrameCells THEN frames[c[1]][c[2]].data ELSE values[c].data]

ScreenMirror ==
  INSTANCE Mirror WITH Cells <- FrameCells \cup Keys, Contents <- Payloads, Blank <- None,
                       source <- Database

-----------------------------------------------------------------------------
(* Properties.                                                             *)

\* The dumper implements a mirror of the database: a refnum or key looked up long
\* after its query still draws what the database holds at the drawing, nothing
\* that a clear has emptied is drawn, and each step draws or erases one row.
ScreenIsMirror == ScreenMirror!MirrorSpec

\* Every variable of the dumper has its type.
DumperTypeOK ==
  /\ running \in BOOLEAN /\ dumper \in DumperPC
  /\ mode \in AllModes /\ lastmode \in AllModes /\ ifName \in Ports \cup {Every}
  /\ dumperEtag \in Nat /\ dumperValueEtag \in Nat
  /\ newEtag \in Nat /\ newValueEtag \in Nat /\ polled \in Nat
  /\ newTags \subseteq (0 .. TagLimit - 1) \X CanIds
  /\ newKeys \subseteq Keys
  /\ final \in BOOLEAN /\ redraw \in BOOLEAN /\ anyTags \in BOOLEAN
  /\ lastFrameLine \in Nat /\ lastValueLine \in Nat /\ linesBefore \in Nat
  /\ DOMAIN lines \subseteq (0 .. TagLimit - 1) \X CanIds /\ lines \in [DOMAIN lines -> Nat]
  /\ DOMAIN valueLines \subseteq Keys /\ valueLines \in [DOMAIN valueLines -> Nat]
  /\ DOMAIN rows \subseteq Nat
  /\ rows \in [DOMAIN rows -> (FrameCells \cup Keys) \X (Payloads \cup {None})]

\* A frame or value stands on a row with payload x.
Shows(row, cell, x) == row \in DOMAIN rows /\ rows[row] = <<cell, x>>

\* The frame that the last poll gave the last line to: the row it was drawn on is
\* erased again by the same poll.
LastAdded(f) ==
  LET tag == makeFrameTag(f[1], f[2]) IN
  addedLines /\ tag \in DOMAIN lines /\ lines[tag] = lastFrameLine - 1

\* Between two polls a row of the screen shows the current payload of every frame
\* that was due in the last one, but for the last new frame, whose row the poll
\* erased: neither saves and clears between the query and the drawing of a refnum
\* nor the other frames and values drawn take it off.
ScreenFollowsPoll ==
  dumper = "idle" /\ ShowsFrames(mode) /\ mode = lastmode =>
    \A f \in FrameCells :
      Wanted(f) /\ Present(f[1], f[2]) /\ frames[f[1]][f[2]].eTag <= polled /\ ~LastAdded(f)
        => \E row \in DOMAIN rows : Shows(row, f, frames[f[1]][f[2]].data)

\* A refnum on the way to the screen always names the one interface it was made
\* from, though interfaces may come between the query and the drawing.
RefnumsResolve ==
  Cardinality(Interfaces) <= TagLimit =>
    \A tag \in newTags \cup DOMAIN lines : Cardinality(Owners(tag)) = 1

\* The user leaves the dumper running, in mode m, and frame f, of an interface it
\* shows, stays as it is with payload x after a change that was not inside a clear.
LeftAlone(m, f, x) ==
  running /\ mode = m /\ Wanted(f) /\ frames[f[1]][f[2]].data = x /\ f \notin racy

\* The frame stands on its own row; the value on its own.
FrameInPlace(f, x) ==
  LET tag == makeFrameTag(f[1], f[2]) IN
  tag \in DOMAIN lines /\ Shows(lines[tag] + TopOffset, f, x)
ValueInPlace(k, x) == k \in DOMAIN valueLines /\ Shows(Row(valueLines[k]), k, x)

\* Every such frame in the end stands on its own row, for good, in a mode that shows
\* frames: no order of polls, saves and clears hides it for ever, and no other line
\* takes its row, though it was first drawn elsewhere and erased.
FramesCatchUp ==
  \A m \in Modes, f \in FrameCells, x \in Payloads :
    ShowsFrames(m) => (<>[]LeftAlone(m, f, x) => <>[]FrameInPlace(f, x))

\* And so does the value that is decoded from it alone, in mode both, though new
\* frames are drawn over the rows of the values.
ValuesCatchUp ==
  \A f \in FrameCells, x \in Payloads \ {Empty}, k \in Keys :
    <>[](LeftAlone("both", f, x) /\ Sources(k) = {f}) => <>[]ValueInPlace(k, x)
=============================================================================
