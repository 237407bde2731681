--------------------------- MODULE CmdLineBuffer ---------------------------
(***************************************************************************)
(* The line editor: one handler per key over a buffer with a cursor, an    *)
(* escape state, the history and its index, and the list of completions,   *)
(* beside the terminal line the handlers' replies draw.  Keys come one at  *)
(* a time.  Case is left out (names are matched without it), and so are    *)
(* the terminal's width, waitForChar, which nothing calls, ^S and ^Q,      *)
(* which change nothing here, and what other threads write to the terminal.*)
(***************************************************************************)
EXTENDS FiniteSets, Integers, SequencesExt

CONSTANTS
  Chars,         \* printable characters but for blanks
  Blank,
  Names,         \* registered commands, sorted
  HistoryName,   \* the one of doCmdHistory
  Files,         \* what the history file may hold at the start
  LineLimit,     \* bound on the length of a line typed
  HistoryLimit,  \* bound on the lines of the history
  Unknown        \* a terminal line we do not follow

ASSUME BlankAssumption   == Blank \notin Chars
ASSUME NamesAssumption   == Names \in Seq(Seq(Chars) \ {<<>>})
ASSUME FilesAssumption   == Files \subseteq Seq(Seq(Chars \cup {Blank}) \ {<<>>})
ASSUME UnknownAssumption == Unknown \notin [text : Seq(Chars \cup {Blank}), col : Nat]
ASSUME LimitsAssumption  == LineLimit \in Nat /\ HistoryLimit \in Nat

VARIABLES
  isRunning,
  state,         \* _state
  text, pos,     \* _dbuf: its used part, and the cursor
  history,       \* _history
  historyIndex,  \* _historyIndex
  displaying,    \* _displayingCompletionOptions > 0
  screen,        \* the terminal: the line after its prompt, and the cursor's column
  ran,           \* history: if Enter was the last key, what it showed and what it ran
  astray         \* history: blanks or a history line are in use that are not shown

dbuf == <<text, pos>>
vars == <<isRunning, state, dbuf, history, historyIndex, displaying, screen, ran, astray>>

-----------------------------------------------------------------------------
(* Lines.                                                                  *)

\* _historyIndex is unsigned: -1 stands for ULONG_MAX, which lies beyond any
\* history, and sums that wrap come out right.
ULONG_MAX == -1
InHistory(i) == i \in 0 .. Len(history) - 1
Beyond(i)    == i = ULONG_MAX \/ i > Len(history)

Trim(s) ==
  LET shown == {i \in 1 .. Len(s) : s[i] # Blank}
  IN IF shown = {} THEN <<>> ELSE SubSeq(s, Min(shown), Max(shown))

FirstWord(s) ==
  LET b == SelectInSeq(s, LAMBDA c : c = Blank)
  IN IF b = 0 THEN s ELSE SubSeq(s, 1, b - 1)

\* The places of the names that begin with s.
Matches(s) == {i \in DOMAIN Names : IsPrefix(s, Names[i])}

\* Mutant of CommonPrefix: the search never stops before the first option's end.
CommonPrefixOfFirst(options) == Names[Min(options)]

\* As long a part of the first option as the rest begin with; all of it once they
\* share all but its last character.
CommonPrefix(options) ==
  LET test == Names[Min(options)]
      stop == {n \in 1 .. Len(test) - 1 : \E i \in options : ~IsPrefix(SubSeq(test, 1, n), Names[i])}
  IN IF stop = {} THEN test ELSE SubSeq(test, 1, Min(stop) - 1)

-----------------------------------------------------------------------------
(* The terminal.                                                           *)

\* "\r\x1B[2K", the prompt and the line, or a prompt on a new line.
Redrawn(s) == [text |-> s, col |-> Len(s)]

\* The cursor put on a column of the line; off the line we lose track.
MoveTo(scr, c) ==
  IF scr # Unknown /\ c \in 0 .. Len(scr.text) THEN [scr EXCEPT !.col = c] ELSE Unknown
MoveBy(scr, n) == IF scr = Unknown THEN Unknown ELSE MoveTo(scr, scr.col + n)

\* A character in insert mode, or over what is there.
Inserted(scr, c) ==
  IF scr = Unknown THEN Unknown
  ELSE [text |-> InsertAt(scr.text, scr.col + 1, c), col |-> scr.col + 1]
Overwritten(scr, c) ==
  IF scr = Unknown THEN Unknown
  ELSE [text |-> SubSeq(scr.text, 1, scr.col) \o <<c>>
                   \o SubSeq(scr.text, scr.col + 2, Len(scr.text)),
        col  |-> scr.col + 1]

\* "\b\x1B[P" and "\x1B[K".
DeletedBefore(scr) ==
  IF scr = Unknown \/ scr.col = 0 THEN Unknown
  ELSE [text |-> RemoveAt(scr.text, scr.col), col |-> scr.col - 1]
ErasedAfter(scr) ==
  IF scr = Unknown THEN Unknown ELSE [scr EXCEPT !.text = SubSeq(@, 1, scr.col)]

\* removeCompletions() brings the cursor back up to the line.
Cleaned == IF displaying THEN MoveTo(screen, pos) ELSE screen

-----------------------------------------------------------------------------
NoRun == [shown |-> Unknown, line |-> <<>>, astray |-> FALSE]

Init ==
  /\ isRunning = TRUE /\ state = "READY"
  /\ text = <<>> /\ pos = 0
  /\ history \in Files /\ historyIndex = ULONG_MAX
  /\ displaying = FALSE
  /\ screen = Redrawn(<<>>)
  /\ ran = NoRun /\ astray = FALSE

\* A key that comes in one state and leaves another.
Key(from, to) ==
  /\ isRunning /\ UNCHANGED isRunning
  /\ state = from /\ state' = to
  /\ ran' = NoRun

\* dbuf_set().
DbufSet(s) == text' = s /\ pos' = Len(s)

-----------------------------------------------------------------------------
(* Keys that edit the line.  maybeCopyHistoryToBuffer() comes first: Line  *)
(* and Cursor are the buffer after it.                                     *)

Line   == IF InHistory(historyIndex) THEN history[historyIndex + 1] ELSE text
Cursor == IF InHistory(historyIndex) THEN Len(Line) ELSE pos
MaybeCopyHistoryToBuffer ==
  historyIndex' = IF InHistory(historyIndex) THEN ULONG_MAX ELSE historyIndex

Edit ==
  /\ displaying' = FALSE
  /\ MaybeCopyHistoryToBuffer
  /\ UNCHANGED <<history, astray>>

Printable(c) ==
  /\ Key("READY", "READY") /\ Edit
  /\ Len(Line) < LineLimit
  /\ text' = InsertAt(Line, Cursor + 1, c) /\ pos' = Cursor + 1
  /\ screen' = IF Cursor < Len(Line) THEN Inserted(Cleaned, c) ELSE Overwritten(Cleaned, c)

\* Mutant of HandleDeleteChar: the cursor does not follow.
HandleDeleteCharInPlace ==
  /\ Key("READY", "READY") /\ Edit
  /\ IF Cursor > 0
       THEN /\ text' = RemoveAt(Line, Cursor) /\ pos' = Cursor
            /\ screen' = DeletedBefore(Cleaned)
       ELSE text' = Line /\ pos' = Cursor /\ screen' = Cleaned

HandleDeleteChar ==
  /\ Key("READY", "READY") /\ Edit
  /\ IF Cursor > 0
       THEN /\ text' = RemoveAt(Line, Cursor) /\ pos' = Cursor - 1
            /\ screen' = DeletedBefore(Cleaned)
       ELSE text' = Line /\ pos' = Cursor /\ screen' = Cleaned

HandleBeginingOfLine ==
  /\ Key("READY", "READY") /\ Edit
  /\ text' = Line /\ pos' = 0 /\ screen' = MoveTo(Cleaned, 0)

HandleEndOfLine ==
  /\ Key("READY", "READY") /\ Edit
  /\ text' = Line /\ pos' = Len(Line) /\ screen' = MoveTo(Cleaned, Len(Line))

HandleClearToEndOfLine ==
  /\ Key("READY", "READY") /\ Edit
  /\ text' = SubSeq(Line, 1, Cursor) /\ pos' = Cursor /\ screen' = ErasedAfter(Cleaned)

\* BS, or the left arrow.
HandleBackArrow ==
  /\ Key("READY", "READY") \/ Key("ESC1", "READY")
  /\ Edit
  /\ text' = Line /\ pos' = IF Cursor > 0 THEN Cursor - 1 ELSE 0
  /\ screen' = IF Cursor > 0 THEN MoveBy(Cleaned, -1) ELSE Cleaned

HandleFwdArrow ==
  /\ Key("ESC1", "READY") /\ Edit
  /\ text' = Line /\ pos' = IF Cursor < Len(Line) THEN Cursor + 1 ELSE Cursor
  /\ screen' = IF Cursor < Len(Line) THEN MoveBy(Cleaned, 1) ELSE Cleaned

\* handleClearLine(), ^U after the history line was copied.
ClearLine ==
  /\ DbufSet(<<>>) /\ displaying' = FALSE
  /\ screen' = Redrawn(<<>>)
  /\ UNCHANGED history

\* Mutant of CtrlU: the history line is not copied first.
CtrlUStaysInHistory ==
  /\ Key("READY", "READY") /\ ClearLine
  /\ astray' = FALSE /\ UNCHANGED historyIndex

CtrlU ==
  /\ Key("READY", "READY") /\ ClearLine
  /\ astray' = FALSE /\ MaybeCopyHistoryToBuffer

\* ^X in any state, when main() is through with the reader and the dumper.
CtrlX ==
  /\ \E s \in {"READY", "ESC", "ESC1"} : Key(s, "READY")
  /\ ClearLine
  /\ astray' = InHistory(historyIndex) /\ UNCHANGED historyIndex

-----------------------------------------------------------------------------
(* Completion.                                                             *)

\* displayCompletions(), whose second round finds nothing longer to complete.
HandleTabChar ==
  LET options == Matches(Line)
      prefix  == CommonPrefix(options)
      one     == Cardinality(options) = 1
      several == Cardinality(options) > 1
      nothing == displaying /\ Line = <<>>
      extends == ~nothing /\ (one \/ (several /\ Len(prefix) > Len(Line)))
  IN
  /\ Key("READY", "READY") /\ MaybeCopyHistoryToBuffer /\ UNCHANGED history
  /\ \/ /\ extends
        /\ DbufSet(prefix) /\ screen' = Redrawn(prefix) /\ astray' = FALSE
        /\ displaying' = (several /\ Cardinality(Matches(prefix)) > 1)
     \/ /\ ~extends
        /\ text' = Line /\ pos' = Cursor /\ UNCHANGED astray
        /\ displaying' = (several /\ ~nothing)
        /\ screen' = IF displaying' THEN MoveTo(Cleaned, Cursor) ELSE Cleaned

-----------------------------------------------------------------------------
(* Escape sequences and the history.                                       *)

Escape ==
  /\ Key("READY", "ESC")
  /\ displaying' = FALSE /\ screen' = Cleaned
  /\ UNCHANGED <<dbuf, history, historyIndex, astray>>

\* '[' after Esc; any other key ends the sequence, as does one that is no arrow.
Sequence ==
  /\ Key("ESC", "ESC1") \/ Key("ESC", "READY") \/ Key("ESC1", "READY")
  /\ UNCHANGED <<dbuf, history, historyIndex, displaying, screen, astray>>

\* displayHistoryLine() once the index is i: that line, or the buffer again.
DisplayHistoryLine(i) ==
  LET line == IF InHistory(i) THEN history[i + 1] ELSE text
  IN /\ historyIndex' = i
     /\ DbufSet(line) /\ screen' = Redrawn(line)
     /\ astray' = FALSE

HandleUpArrow ==
  /\ Key("ESC1", "READY")
  /\ history # <<>>
  /\ DisplayHistoryLine(IF Beyond(historyIndex) THEN Len(history) - 1
                        ELSE IF historyIndex > 0 THEN historyIndex - 1 ELSE 0)
  /\ UNCHANGED <<history, displaying>>

HandleDownArrow ==
  /\ Key("ESC1", "READY")
  /\ history # <<>>
  /\ \/ /\ Beyond(historyIndex) /\ historyIndex' = ULONG_MAX
        /\ UNCHANGED <<dbuf, screen, astray>>
     \/ ~Beyond(historyIndex) /\ DisplayHistoryLine(historyIndex + 1)
  /\ UNCHANGED <<history, displaying>>

-----------------------------------------------------------------------------
(* Enter.                                                                  *)

\* What a `history` command does, once its own line is cleared; which one it is
\* depends on its parameter, which is left open here.  An offset below 0
\* is taken from ULONG_MAX, so that -1 is the oldest line.  If there is no line to
\* show, the completion adds a second prompt to the one drawn.
HistoryGo(offset) ==
  LET index == IF offset < 0 THEN ULONG_MAX - offset ELSE offset
      i     == IF index > Len(history) THEN Len(history) - 1 ELSE index
      line  == IF InHistory(i) THEN history[i + 1] ELSE <<>>
  IN /\ historyIndex' = i
     /\ DbufSet(line)
     /\ screen' = IF line = <<>> THEN Unknown ELSE Redrawn(line)
     /\ UNCHANGED history
Prompted == historyIndex' = ULONG_MAX /\ DbufSet(<<>>) /\ screen' = Redrawn(<<>>)
DoCmdHistory ==
  \/ Prompted /\ history' \in {history, <<>>}
  \/ \E offset \in -HistoryLimit - 2 .. HistoryLimit + 1 : HistoryGo(offset)

\* Any other command; a handler may leave a reply in front of the prompt.
StoreCmdInHistory(line) ==
  IF history # <<>> /\ Last(history) = line THEN UNCHANGED history
                                            ELSE history' = Append(history, line)

\* Mutant of DoCommand: the index is not reset.
DoCommandStaysInHistory(line) ==
  /\ DbufSet(<<>>) /\ UNCHANGED historyIndex
  /\ screen' \in {Redrawn(<<>>), Unknown}
  /\ UNCHANGED history \/ (Len(history) < HistoryLimit /\ StoreCmdInHistory(line))

DoCommand(line) ==
  /\ historyIndex' = ULONG_MAX /\ DbufSet(<<>>)
  /\ screen' \in {Redrawn(<<>>), Unknown}
  /\ UNCHANGED history \/ (Len(history) < HistoryLimit /\ StoreCmdInHistory(line))

ToRun == IF InHistory(historyIndex) THEN history[historyIndex + 1] ELSE Trim(text)
Shown == IF screen = Unknown THEN Unknown ELSE Trim(screen.text)
Entered ==
  /\ isRunning /\ state = "READY" /\ UNCHANGED <<isRunning, state>>
  /\ ran' = [shown |-> Shown, line |-> ToRun, astray |-> astray]
  /\ displaying' = FALSE

\* "ignore empty lines": the buffer stays, blanks and all.
IgnoreEmpty ==
  /\ Entered /\ ToRun = <<>>
  /\ historyIndex' = ULONG_MAX
  /\ screen' = Redrawn(<<>>) /\ astray' = (text # <<>>)
  /\ UNCHANGED <<dbuf, history>>

ProcessCommandLine ==
  LET cmd == FirstWord(ToRun)
  IN
  /\ Entered /\ ToRun # <<>>
  /\ astray' = FALSE
  /\ \/ cmd = HistoryName /\ DoCmdHistory
     \/ cmd # HistoryName /\ cmd \in ToSet(Names) /\ DoCommand(ToRun)
     \/ cmd \notin ToSet(Names) /\ Prompted /\ UNCHANGED history

\* ^C, and what `bye` comes to.
Quit ==
  /\ isRunning /\ isRunning' = FALSE
  /\ state' = "READY" /\ text' = <<>> /\ pos' = 0 /\ displaying' = FALSE
  /\ screen' = Unknown /\ ran' = NoRun
  /\ UNCHANGED <<history, historyIndex, astray>>

Next ==
  \/ \E c \in Chars \cup {Blank} : Printable(c)
  \/ HandleDeleteChar \/ HandleBackArrow \/ HandleFwdArrow
  \/ HandleBeginingOfLine \/ HandleEndOfLine \/ HandleClearToEndOfLine
  \/ CtrlU \/ CtrlX \/ HandleTabChar
  \/ Escape \/ Sequence \/ HandleUpArrow \/ HandleDownArrow
  \/ IgnoreEmpty \/ ProcessCommandLine \/ Quit

Spec == Init /\ [][Next]_vars

-----------------------------------------------------------------------------
(* What the one who types sees of it (module LineEditor).                  *)

View == IF astray THEN Unknown ELSE screen

ShownEditor ==
  INSTANCE LineEditor WITH Characters <- Chars \cup {Blank}, Names <- ToSet(Names),
                           Histories <- Files, Lost <- Unknown, open <- isRunning, view <- View

-----------------------------------------------------------------------------
(* Properties.                                                             *)

Lines == Seq(Chars \cup {Blank})

\* Everything has its type, and the cursor never leaves the buffer: the size_t
\* differences of pos and used cannot wrap.
TypeOK ==
  /\ isRunning \in BOOLEAN /\ state \in {"READY", "ESC", "ESC1"}
  /\ text \in Lines /\ pos \in 0 .. Len(text)
  /\ history \in Seq(Lines \ {<<>>}) /\ historyIndex \in Int /\ historyIndex >= ULONG_MAX
  /\ displaying \in BOOLEAN /\ astray \in BOOLEAN
  /\ screen \in [text : Lines, col : Nat] \cup {Unknown}
  /\ ran \in [shown : Lines \cup {Unknown}, line : Lines, astray : BOOLEAN]

\* Whatever keys came before, in the middle of a line, of the history, of an escape
\* sequence or under a list of completions: the terminal's line and cursor are the
\* buffer's, as long as no blanks of an earlier line were kept, no line of the
\* history was interrupted and no reply stands before the prompt.
ShowsBuffer ==
  isRunning /\ ~astray /\ screen # Unknown =>
    /\ screen = [text |-> text, col |-> pos]
    /\ InHistory(historyIndex) => text = history[historyIndex + 1]

\* Enter runs the line that is shown, with the same exceptions.
RunsWhatIsShown == ~ran.astray /\ ran.shown # Unknown => ran.line = ran.shown

\* The terminal is that of a plain line editor: through history lines copied
\* on the first edit, completions listed below the line, escape sequences cut short
\* and commands that recall lines, each key changes the line seen as it should, no
\* key but those known to goes astray, and what goes into the history was seen.
IsLineEditor == ShownEditor!EditorSpec

-----------------------------------------------------------------------------
(* What the code's comments say.                                           *)

\* CmdLineBuffer.cpp:355 "ignore empty lines".
EmptyLineRunsNothing == ran.shown = <<>> => ran.line = <<>>
=============================================================================
