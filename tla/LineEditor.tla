----------------------------- MODULE LineEditor -----------------------------
(***************************************************************************)
(* What a line editor promises the one who types, whatever it keeps behind *)
(* the line: each key makes one small change to the line that is seen, the *)
(* cursor stays on it, completion and history put in what they should, and *)
(* Enter runs and remembers what is seen, less blanks at its ends.  It may *)
(* lose the line in the four ways named here, and no other, and finds it   *)
(* again with a line drawn as a whole.                                     *)
(***************************************************************************)
EXTENDS Integers, SequencesExt

CONSTANTS
  Characters,
  Blank,        \* one of them
  Names,        \* commands that completion knows
  HistoryName,  \* the one that shows or clears the history
  Histories,    \* what the history may be at first
  Lost          \* a view that is none

VARIABLES
  open,
  view,     \* the line and the cursor's place on it, or Lost
  history

editor == <<open, view, history>>

Whole(s) == [text |-> s, col |-> Len(s)]
Remembered == {history[i] : i \in DOMAIN history}

EditorInit == open = TRUE /\ view = Whole(<<>>) /\ history \in Histories

\* The line s less some of the blanks at its ends.
Stripped(s) ==
  {SubSeq(s, p[1], p[2]) :
     p \in {ends \in (1 .. Len(s) + 1) \X (0 .. Len(s)) :
              \A i \in 1 .. Len(s) : i < ends[1] \/ i > ends[2] => s[i] = Blank}}

-----------------------------------------------------------------------------
(* Keys.                                                                   *)

Type(c) ==
  view' = [text |-> InsertAt(view.text, view.col + 1, c), col |-> view.col + 1]

DeleteBack ==
  /\ view.col > 0
  /\ view' = [text |-> RemoveAt(view.text, view.col), col |-> view.col - 1]

EraseRest == view' = [text |-> SubSeq(view.text, 1, view.col), col |-> view.col]

Move ==
  \E c \in {0, view.col - 1, view.col + 1, Len(view.text)} \cap (0 .. Len(view.text)) :
    view' = [text |-> view.text, col |-> c]

\* More of a name that begins with the line, which all names that do share up to
\* its last character.
Complete ==
  \E name \in Names : \E n \in Len(view.text) .. Len(name) :
    /\ IsPrefix(view.text, name)
    /\ \A other \in Names : IsPrefix(view.text, other) => IsPrefix(SubSeq(name, 1, n - 1), other)
    /\ view' = Whole(SubSeq(name, 1, n))

Recall == \E s \in Remembered \cup {view.text} : view' = Whole(s)

\* The line is lost only if it is one of the history.
Clear == view' = Whole(<<>>) \/ (view' = Lost /\ view.text \in Remembered)

-----------------------------------------------------------------------------
(* Enter.                                                                  *)

\* A line of nothing but blanks is lost.
EnterNothing ==
  /\ <<>> \in Stripped(view.text)
  /\ view' = IF view.text = <<>> THEN Whole(<<>>) ELSE Lost
  /\ UNCHANGED history

\* A command may leave the prompt anywhere.
Run(s) ==
  /\ UNCHANGED history
     \/ (history' = Append(history, s) /\ (history # <<>> => Last(history) # s))
  /\ view' \in {Whole(<<>>), Lost}

\* The command for it alone clears the history, or offers a line of it.
RunHistory(s) ==
  /\ IsPrefix(HistoryName, s)
  /\ \/ history' = <<>> /\ view' = Whole(<<>>)
     \/ UNCHANGED history /\ \E t \in Remembered : view' = Whole(t)

Enter ==
  \/ EnterNothing
  \/ \E s \in Stripped(view.text) \ {<<>>} : Run(s) \/ RunHistory(s)

-----------------------------------------------------------------------------
\* Keys typed without a view: they may store what was not seen, and end with a
\* line that is drawn.
Grope ==
  /\ view' # Lost => view' = Whole(view'.text)
  /\ history' \in {history, <<>>} \/ history' = Append(history, Last(history'))

Close == open' = FALSE /\ view' = Lost /\ UNCHANGED history

EditorNext ==
  /\ open
  /\ \/ /\ view # Lost /\ UNCHANGED <<open, history>>
        /\ \/ \E c \in Characters : Type(c)
           \/ DeleteBack \/ EraseRest \/ Move \/ Complete \/ Recall \/ Clear
     \/ view # Lost /\ UNCHANGED open /\ Enter
     \/ view = Lost /\ UNCHANGED open /\ Grope
     \/ Close

EditorSpec == EditorInit /\ [][EditorNext]_editor
=============================================================================
