------------------------ MODULE CmdLineBufferProofs ------------------------
(* The editor for any commands, lines and histories: what the keys draw is *)
(* what they have done to the buffer.                                      *)
EXTENDS CmdLineBuffer, FiniteSetTheorems, SequenceTheorems,
        WellFoundedInduction, TLAPS

Characters == Chars \cup {Blank}

-----------------------------------------------------------------------------
(* The least of some numbers.                                              *)

LEMMA LessIsWellFounded == IsWellFoundedOn({p \in Nat \X Nat : p[1] < p[2]}, Nat)
BY NatLessThanWellFounded DEF OpToRel

LEMMA MinIs ==
  ASSUME NEW S, S \subseteq Nat, S # {}
  PROVE  Min(S) \in S /\ \A y \in S : Min(S) <= y
<1> DEFINE Less == {p \in Nat \X Nat : p[1] < p[2]}
<1>1. IsWellFoundedOn(Less, Nat)
  BY LessIsWellFounded
<1> HIDE DEF Less
<1>2. PICK x \in S : \A y \in S : ~(<<y, x>> \in Less)
  BY <1>1, WFMin
<1>3. ASSUME NEW y \in S PROVE x <= y
  <2>1. x \in Nat /\ y \in Nat /\ <<y, x>> \notin Less
    BY <1>2
  <2>2. QED
    BY <2>1 DEF Less
<1>4. QED
  BY <1>3 DEF Min

LEMMA MaxIs ==
  ASSUME NEW n \in Nat, NEW S, S \subseteq 1 .. n, S # {}
  PROVE  Max(S) \in S /\ \A y \in S : Max(S) >= y
<1> DEFINE T == {n - x : x \in S}
<1>1. T \subseteq Nat /\ T # {}
  <2>1. \A x \in S : n - x \in Nat
    OBVIOUS
  <2>2. QED
    BY <2>1
<1>2. PICK m \in T : \A y \in T : m <= y
  <2> HIDE DEF T
  <2>1. QED
    BY <1>1, MinIs
<1>3. PICK x \in S : m = n - x
  BY <1>2
<1>4. \A y \in S : x >= y
  <2>1. TAKE y \in S
  <2>2. n - x <= n - y
    BY <1>2, <1>3
  <2>3. x \in Int /\ y \in Int
    OBVIOUS
  <2>4. QED
    BY <2>2, <2>3
<1>5. QED
  BY <1>4 DEF Max

-----------------------------------------------------------------------------
(* Lines.                                                                  *)

LEMMA PartOfLine ==
  ASSUME NEW s \in Lines, NEW a \in Int, NEW b \in Int, a >= 1, b <= Len(s)
  PROVE  /\ SubSeq(s, a, b) \in Lines
         /\ Len(SubSeq(s, a, b)) = IF a <= b THEN b - a + 1 ELSE 0
         /\ \A i \in 1 .. b - a + 1 : SubSeq(s, a, b)[i] = s[a + i - 1]
<1>1. \A i \in a .. b : s[i] \in Characters
  BY ElementOfSeq, LenProperties DEF Lines, Characters
<1>2. QED
  BY <1>1, SubSeqProperties DEF Lines, Characters

LEMMA JoinedLine ==
  ASSUME NEW s \in Lines, NEW t \in Lines
  PROVE  s \o t \in Lines /\ Len(s \o t) = Len(s) + Len(t)
BY ConcatProperties DEF Lines

LEMMA InsertedLine ==
  ASSUME NEW s \in Lines, NEW c \in Characters, NEW i \in 0 .. Len(s)
  PROVE  InsertAt(s, i + 1, c) \in Lines /\ Len(InsertAt(s, i + 1, c)) = Len(s) + 1
<1>1. Len(s) \in Nat
  BY LenProperties DEF Lines
<1>2. /\ SubSeq(s, 1, i) \in Lines /\ Len(SubSeq(s, 1, i)) = i
      /\ SubSeq(s, i + 1, Len(s)) \in Lines /\ Len(SubSeq(s, i + 1, Len(s))) = Len(s) - i
  BY <1>1, PartOfLine
<1>3. <<c>> \in Lines /\ Len(<<c>>) = 1
  BY DEF Lines, Characters
<1>4. SubSeq(s, 1, i) \o <<c>> \in Lines /\ Len(SubSeq(s, 1, i) \o <<c>>) = i + 1
  BY <1>1, <1>2, <1>3, JoinedLine
<1>5. InsertAt(s, i + 1, c) = SubSeq(s, 1, i) \o <<c>> \o SubSeq(s, i + 1, Len(s))
  <2>1. (i + 1) - 1 = i
    BY <1>1
  <2>2. QED
    BY <2>1 DEF InsertAt
<1> DEFINE before == SubSeq(s, 1, i) \o <<c>>
           after  == SubSeq(s, i + 1, Len(s))
<1>6. before \in Lines /\ Len(before) = i + 1 /\ after \in Lines /\ Len(after) = Len(s) - i
  BY <1>2, <1>4
<1>7. InsertAt(s, i + 1, c) = before \o after
  BY <1>5
<1>8. before \o after \in Lines /\ Len(before \o after) = Len(s) + 1
  <2> HIDE DEF before, after
  <2>1. before \o after \in Lines /\ Len(before \o after) = Len(before) + Len(after)
    BY <1>6, JoinedLine
  <2>2. i \in Int /\ Len(before) + Len(after) = Len(s) + 1
    BY <1>1, <1>6
  <2>3. QED
    BY <2>1, <2>2
<1>9. QED
  BY <1>7, <1>8

LEMMA RemovedLine ==
  ASSUME NEW s \in Lines, NEW i \in 1 .. Len(s)
  PROVE  RemoveAt(s, i) \in Lines /\ Len(RemoveAt(s, i)) = Len(s) - 1
<1>1. Len(s) \in Nat
  BY LenProperties DEF Lines
<1>2. /\ SubSeq(s, 1, i - 1) \in Lines /\ Len(SubSeq(s, 1, i - 1)) = i - 1
      /\ SubSeq(s, i + 1, Len(s)) \in Lines /\ Len(SubSeq(s, i + 1, Len(s))) = Len(s) - i
  BY <1>1, PartOfLine
<1> DEFINE before == SubSeq(s, 1, i - 1)
           after  == SubSeq(s, i + 1, Len(s))
<1>3. RemoveAt(s, i) = before \o after
  BY DEF RemoveAt
<1>4. before \in Lines /\ Len(before) = i - 1 /\ after \in Lines /\ Len(after) = Len(s) - i
  BY <1>2
<1> HIDE DEF before, after
<1>5. QED
  BY <1>1, <1>3, <1>4, JoinedLine

\* What is typed at the end of the line is put over nothing.
LEMMA WrittenAtEnd ==
  ASSUME NEW s \in Lines, NEW c \in Characters, NEW i \in 0 .. Len(s)
  PROVE  LET t == SubSeq(s, 1, i) \o <<c>> \o SubSeq(s, i + 2, Len(s))
         IN t \in Lines /\ Len(t) >= i + 1 /\ (i = Len(s) => t = InsertAt(s, i + 1, c))
<1>1. Len(s) \in Nat
  BY LenProperties DEF Lines
<1>2. /\ SubSeq(s, 1, i) \in Lines /\ Len(SubSeq(s, 1, i)) = i
      /\ SubSeq(s, i + 2, Len(s)) \in Lines /\ Len(SubSeq(s, i + 2, Len(s))) \in Nat
  BY <1>1, PartOfLine
<1>3. <<c>> \in Lines /\ Len(<<c>>) = 1
  BY DEF Lines, Characters
<1>4. SubSeq(s, 1, i) \o <<c>> \in Lines /\ Len(SubSeq(s, 1, i) \o <<c>>) = i + 1
  BY <1>1, <1>2, <1>3, JoinedLine
<1>5. i = Len(s) => SubSeq(s, i + 1, Len(s)) = <<>> /\ SubSeq(s, i + 2, Len(s)) = <<>>
  BY <1>1, SubSeqEmpty
<1>6. InsertAt(s, i + 1, c) = SubSeq(s, 1, i) \o <<c>> \o SubSeq(s, i + 1, Len(s))
  <2>1. (i + 1) - 1 = i
    BY <1>1
  <2>2. QED
    BY <2>1 DEF InsertAt
<1> DEFINE before == SubSeq(s, 1, i) \o <<c>>
           after  == SubSeq(s, i + 2, Len(s))
<1>7. /\ before \in Lines /\ Len(before) = i + 1 /\ after \in Lines /\ Len(after) \in Nat
      /\ i = Len(s) => before \o after = InsertAt(s, i + 1, c)
  BY <1>2, <1>4, <1>5, <1>6
<1>8. before \o after \in Lines /\ Len(before \o after) >= i + 1
  <2> HIDE DEF before, after
  <2>1. QED
    BY <1>1, <1>7, JoinedLine
<1>9. QED
  BY <1>7, <1>8

\* Trimming gives a line with no blanks to trim.
LEMMA TrimIs ==
  ASSUME NEW s \in Lines
  PROVE  Trim(s) \in Lines /\ Trim(Trim(s)) = Trim(s)
<1> DEFINE shown(t) == {i \in 1 .. Len(t) : t[i] # Blank}
<1>1. Len(s) \in Nat
  BY LenProperties DEF Lines
<1>2. CASE shown(s) = {}
  <2>1. Trim(s) = <<>>
    BY <1>2 DEF Trim
  <2>2. <<>> \in Lines /\ Len(<<>>) = 0
    BY DEF Lines
  <2>3. shown(<<>>) = {}
    BY <2>2
  <2>4. Trim(<<>>) = <<>>
    BY <2>3 DEF Trim
  <2>5. QED
    BY <2>1, <2>2, <2>4
<1>3. CASE shown(s) # {}
  <2> DEFINE a == Min(shown(s))
             b == Max(shown(s))
             t == SubSeq(s, a, b)
  <2>1. shown(s) \subseteq Nat /\ shown(s) \subseteq 1 .. Len(s)
    OBVIOUS
  <2>2. a \in shown(s) /\ b \in shown(s) /\ a <= b
    <3> HIDE DEF shown
    <3>1. QED
      BY <1>1, <1>3, <2>1, MinIs, MaxIs
  <2>3. /\ a \in 1 .. Len(s) /\ b \in 1 .. Len(s) /\ a <= b
        /\ s[a] # Blank /\ s[b] # Blank
    BY <2>2
  <2>4. Trim(s) = t
    BY <1>3 DEF Trim
  <2> HIDE DEF a, b
  <2>5. /\ t \in Lines /\ Len(t) = b - a + 1
        /\ \A i \in 1 .. b - a + 1 : t[i] = s[a + i - 1]
    BY <1>1, <2>3, PartOfLine
  <2> HIDE DEF t
  <2>6. Len(t) \in Nat /\ Len(t) >= 1 /\ t[1] = s[a] /\ t[Len(t)] = s[b]
    <3>1. Len(t) \in 1 .. b - a + 1 /\ 1 \in 1 .. b - a + 1 /\ a + 1 - 1 = a /\ a + Len(t) - 1 = b
      BY <1>1, <2>3, <2>5
    <3>2. QED
      BY <2>5, <3>1
  <2>7. 1 \in shown(t) /\ Len(t) \in shown(t) /\ shown(t) \subseteq 1 .. Len(t) /\ shown(t) \subseteq Nat
    BY <2>3, <2>6
  <2>8. Min(shown(t)) = 1 /\ Max(shown(t)) = Len(t)
    <3>1. /\ Min(shown(t)) \in shown(t) /\ \A y \in shown(t) : Min(shown(t)) <= y
          /\ Max(shown(t)) \in shown(t) /\ \A y \in shown(t) : Max(shown(t)) >= y
      <4> HIDE DEF shown
      <4>1. QED
        BY <2>6, <2>7, MinIs, MaxIs
    <3>2. QED
      BY <2>6, <2>7, <3>1
  <2>9. Trim(t) = SubSeq(t, 1, Len(t))
    BY <2>7, <2>8 DEF Trim
  <2>10. SubSeq(t, 1, Len(t)) = t
    BY <2>5, SubSeqFull DEF Lines
  <2>11. QED
    BY <2>4, <2>5, <2>9, <2>10
<1>4. QED
  BY <1>2, <1>3

\* What completion puts in the buffer begins a name.
LEMMA PrefixIsLine ==
  ASSUME NEW options \in SUBSET (DOMAIN Names), options # {}
  PROVE  CommonPrefix(options) \in Lines
<1> DEFINE test == Names[Min(options)]
           stop == {n \in 1 .. Len(test) - 1 :
                      \E i \in options : ~IsPrefix(SubSeq(test, 1, n), Names[i])}
<1>1. options \subseteq Nat
  BY NamesAssumption, LenProperties
<1>2. Min(options) \in DOMAIN Names
  BY <1>1, MinIs
<1>3. test \in Seq(Chars)
  BY <1>2, NamesAssumption, LenProperties, ElementOfSeq
<1>4. test \in Lines /\ Len(test) \in Nat
  BY <1>3, SeqMonotonic, LenProperties DEF Lines
<1>5. CommonPrefix(options) = IF stop = {} THEN test ELSE SubSeq(test, 1, Min(stop) - 1)
  BY DEF CommonPrefix
<1>6. stop \subseteq Nat /\ \A n \in stop : n <= Len(test) - 1
  BY <1>4
<1> HIDE DEF test, stop
<1>7. CASE stop = {}
  BY <1>4, <1>5, <1>7
<1>8. CASE stop # {}
  <2>1. PICK m \in stop : m = Min(stop)
    BY <1>6, <1>8, MinIs
  <2>2. m \in Int /\ m - 1 \in Int /\ m - 1 <= Len(test)
    BY <1>4, <1>6
  <2>3. QED
    BY <1>4, <1>5, <1>8, <2>1, <2>2, PartOfLine
<1>9. QED
  BY <1>7, <1>8

-----------------------------------------------------------------------------
(* The terminal: each reply does to its line what the key does to a line   *)
(* that it shows.                                                          *)

\* What the terminal may show: its cursor is on its line.
Screens == {scr \in [text : Lines, col : Nat] : scr.col <= Len(scr.text)} \cup {Unknown}

\* It shows line s with the cursor at c, or we have lost track of it.
Shows(scr, s, c) == scr = Unknown \/ scr = [text |-> s, col |-> c]

LEMMA RedrawnShows ==
  ASSUME NEW s \in Lines
  PROVE  Redrawn(s) \in Screens /\ Shows(Redrawn(s), s, Len(s))
<1>1. Len(s) \in Nat
  BY LenProperties DEF Lines
<1>2. QED
  BY <1>1 DEF Redrawn, Screens, Shows

LEMMA MoveShows ==
  ASSUME NEW scr \in Screens, NEW c \in Int
  PROVE  /\ MoveTo(scr, c) \in Screens
         /\ \A s, d : Shows(scr, s, d) /\ c \in 0 .. Len(s) => Shows(MoveTo(scr, c), s, c)
BY UnknownAssumption DEF MoveTo, Screens, Shows, Lines

LEMMA MoveByShows ==
  ASSUME NEW scr \in Screens, NEW n \in Int
  PROVE  /\ MoveBy(scr, n) \in Screens
         /\ \A s, d : Shows(scr, s, d) /\ d + n \in 0 .. Len(s) => Shows(MoveBy(scr, n), s, d + n)
<1>1. CASE scr = Unknown
  BY <1>1 DEF MoveBy, Screens, Shows
<1>2. CASE scr # Unknown
  <2>1. scr.col + n \in Int /\ MoveBy(scr, n) = MoveTo(scr, scr.col + n)
    BY <1>2 DEF MoveBy, Screens
  <2>2. \A s, d : Shows(scr, s, d) => scr.col = d
    BY <1>2 DEF Shows
  <2>3. QED
    BY <2>1, <2>2, MoveShows
<1>3. QED
  BY <1>1, <1>2

LEMMA InsertShows ==
  ASSUME NEW scr \in Screens, NEW c \in Characters
  PROVE  /\ Inserted(scr, c) \in Screens
         /\ \A s, i : Shows(scr, s, i) => Shows(Inserted(scr, c), InsertAt(s, i + 1, c), i + 1)
<1>1. CASE scr = Unknown
  BY <1>1 DEF Inserted, Screens, Shows
<1>2. CASE scr # Unknown
  <2>1. scr.text \in Lines /\ scr.col \in 0 .. Len(scr.text) /\ Len(scr.text) \in Nat
    BY <1>2, LenProperties DEF Screens, Lines
  <2>2. Inserted(scr, c) = [text |-> InsertAt(scr.text, scr.col + 1, c), col |-> scr.col + 1]
    BY <1>2 DEF Inserted
  <2>3. Inserted(scr, c) \in Screens
    BY <2>1, <2>2, InsertedLine DEF Screens
  <2>4. \A s, i : Shows(scr, s, i) => scr.text = s /\ scr.col = i
    BY <1>2 DEF Shows
  <2>5. QED
    BY <2>2, <2>3, <2>4 DEF Shows
<1>3. QED
  BY <1>1, <1>2

LEMMA OverwriteShows ==
  ASSUME NEW scr \in Screens, NEW c \in Characters
  PROVE  /\ Overwritten(scr, c) \in Screens
         /\ \A s, i : Shows(scr, s, i) /\ i = Len(s)
                        => Shows(Overwritten(scr, c), InsertAt(s, i + 1, c), i + 1)
<1>1. CASE scr = Unknown
  BY <1>1 DEF Overwritten, Screens, Shows
<1>2. CASE scr # Unknown
  <2> DEFINE t == SubSeq(scr.text, 1, scr.col) \o <<c>>
                    \o SubSeq(scr.text, scr.col + 2, Len(scr.text))
  <2>1. scr.text \in Lines /\ scr.col \in 0 .. Len(scr.text) /\ Len(scr.text) \in Nat
    BY <1>2, LenProperties DEF Screens, Lines
  <2>2. Overwritten(scr, c) = [text |-> t, col |-> scr.col + 1]
    BY <1>2 DEF Overwritten
  <2>3. /\ t \in Lines /\ Len(t) >= scr.col + 1
        /\ scr.col = Len(scr.text) => t = InsertAt(scr.text, scr.col + 1, c)
    BY <2>1, WrittenAtEnd
  <2> HIDE DEF t
  <2>4. Overwritten(scr, c) \in Screens
    BY <2>1, <2>2, <2>3 DEF Screens
  <2>5. \A s, i : Shows(scr, s, i) => scr.text = s /\ scr.col = i
    BY <1>2 DEF Shows
  <2>6. QED
    BY <2>2, <2>3, <2>4, <2>5 DEF Shows
<1>3. QED
  BY <1>1, <1>2

LEMMA DeleteShows ==
  ASSUME NEW scr \in Screens
  PROVE  /\ DeletedBefore(scr) \in Screens
         /\ \A s, i : Shows(scr, s, i) => Shows(DeletedBefore(scr), RemoveAt(s, i), i - 1)
<1>1. CASE scr = Unknown \/ scr.col = 0
  BY <1>1 DEF DeletedBefore, Screens, Shows
<1>2. CASE scr # Unknown /\ scr.col # 0
  <2>1. scr.text \in Lines /\ scr.col \in 1 .. Len(scr.text) /\ Len(scr.text) \in Nat
    BY <1>2, LenProperties DEF Screens, Lines
  <2>2. DeletedBefore(scr) = [text |-> RemoveAt(scr.text, scr.col), col |-> scr.col - 1]
    BY <1>2 DEF DeletedBefore
  <2>3. DeletedBefore(scr) \in Screens
    BY <2>1, <2>2, RemovedLine DEF Screens
  <2>4. \A s, i : Shows(scr, s, i) => scr.text = s /\ scr.col = i
    BY <1>2 DEF Shows
  <2>5. QED
    BY <2>2, <2>3, <2>4 DEF Shows
<1>3. QED
  BY <1>1, <1>2

LEMMA EraseShows ==
  ASSUME NEW scr \in Screens
  PROVE  /\ ErasedAfter(scr) \in Screens
         /\ \A s, i : Shows(scr, s, i) => Shows(ErasedAfter(scr), SubSeq(s, 1, i), i)
<1>1. CASE scr = Unknown
  BY <1>1 DEF ErasedAfter, Screens, Shows
<1>2. CASE scr # Unknown
  <2>1. /\ scr.text \in Lines /\ scr.col \in 0 .. Len(scr.text) /\ Len(scr.text) \in Nat
        /\ scr = [text |-> scr.text, col |-> scr.col]
    BY <1>2, LenProperties DEF Screens, Lines
  <2>2. ErasedAfter(scr) = [text |-> SubSeq(scr.text, 1, scr.col), col |-> scr.col]
    BY <1>2, <2>1 DEF ErasedAfter
  <2>3. ErasedAfter(scr) \in Screens
    BY <2>1, <2>2, PartOfLine DEF Screens
  <2>4. \A s, i : Shows(scr, s, i) => scr.text = s /\ scr.col = i
    BY <1>2 DEF Shows
  <2>5. QED
    BY <2>2, <2>3, <2>4 DEF Shows
<1>3. QED
  BY <1>1, <1>2

-----------------------------------------------------------------------------
(* The invariant.                                                          *)

ScreenFits == screen # Unknown => screen.col <= Len(screen.text)

\* Nothing astray, the terminal shows the buffer, and a history line that is shown
\* is in the buffer, with the cursor at its end.
InStep ==
  isRunning /\ ~astray =>
    /\ Shows(screen, text, pos)
    /\ InHistory(historyIndex) => text = history[historyIndex + 1] /\ pos = Len(text)

EditorInv == TypeOK /\ ScreenFits /\ InStep

Runs   == [shown : Lines \cup {Unknown}, line : Lines, astray : BOOLEAN]
States == {"READY", "ESC", "ESC1"}

LEMMA EmptyIsLine == <<>> \in Lines /\ Len(<<>>) = 0 /\ NoRun \in Runs
<1>1. <<>> \in Lines /\ Len(<<>>) = 0
  BY DEF Lines
<1>2. QED
  BY <1>1 DEF NoRun, Runs

LEMMA ScreenIs == ASSUME EditorInv PROVE screen \in Screens
BY DEF EditorInv, TypeOK, ScreenFits, Screens

LEMMA HistoryLine ==
  ASSUME TypeOK, NEW i \in Int, InHistory(i)
  PROVE  history[i + 1] \in Lines \ {<<>>} /\ Len(history[i + 1]) \in Nat
<1>1. history \in Seq(Lines \ {<<>>}) /\ Len(history) \in Nat
  BY LenProperties DEF TypeOK
<1>2. i + 1 \in 1 .. Len(history)
  BY <1>1 DEF InHistory
<1>3. history[i + 1] \in Lines \ {<<>>}
  BY <1>1, <1>2, ElementOfSeq
<1>4. QED
  BY <1>3, LenProperties DEF Lines

\* What a step has to show to keep the invariant.
LEMMA KeptBy ==
  ASSUME isRunning' \in BOOLEAN, state' \in States, text' \in Lines, pos' \in 0 .. Len(text'),
         history' \in Seq(Lines \ {<<>>}), historyIndex' \in Int, historyIndex' >= ULONG_MAX,
         displaying' \in BOOLEAN, astray' \in BOOLEAN, screen' \in Screens, ran' \in Runs, InStep'
  PROVE  EditorInv'
<1>1. screen' \in [text : Lines, col : Nat] \cup {Unknown} /\ ScreenFits'
  BY DEF Screens, ScreenFits
<1>2. QED
  BY <1>1 DEF EditorInv, TypeOK, States, Runs

LEMMA InitKeeps == Init => EditorInv
<1> SUFFICES ASSUME Init PROVE EditorInv
  OBVIOUS
<1>1. /\ isRunning = TRUE /\ state = "READY" /\ text = <<>> /\ pos = 0 /\ history \in Files
      /\ historyIndex = ULONG_MAX /\ displaying = FALSE /\ screen = Redrawn(<<>>)
      /\ ran = NoRun /\ astray = FALSE
  BY DEF Init
<1>2. isRunning \in BOOLEAN /\ displaying \in BOOLEAN /\ astray \in BOOLEAN
  BY <1>1, Zenon
<1>3. history \in Seq(Lines \ {<<>>})
  BY <1>1, FilesAssumption DEF Lines
<1>4. screen \in Screens /\ Shows(screen, text, pos)
  BY <1>1, EmptyIsLine, RedrawnShows
<1>5. ~InHistory(historyIndex)
  BY <1>1 DEF InHistory, ULONG_MAX
<1>6. screen \in [text : Lines, col : Nat] \cup {Unknown} /\ ScreenFits
  BY <1>4 DEF Screens, ScreenFits
<1>7. TypeOK
  BY <1>1, <1>2, <1>3, <1>6, EmptyIsLine DEF TypeOK, Runs, ULONG_MAX
<1>8. QED
  BY <1>4, <1>5, <1>6, <1>7 DEF EditorInv, InStep

-----------------------------------------------------------------------------
(* Keys that edit the line.                                                *)

\* What such a key finds: the line is the one the terminal shows.
LEMMA EditFinds ==
  ASSUME EditorInv, isRunning
  PROVE  /\ Line \in Lines /\ Len(Line) \in Nat /\ Cursor \in 0 .. Len(Line)
         /\ Cleaned \in Screens
         /\ ~astray => Shows(Cleaned, Line, Cursor)
<1>1. /\ text \in Lines /\ Len(text) \in Nat /\ pos \in 0 .. Len(text) /\ historyIndex \in Int
      /\ displaying \in BOOLEAN
  BY LenProperties DEF EditorInv, TypeOK, Lines
<1>2. Line \in Lines /\ Len(Line) \in Nat /\ Cursor \in 0 .. Len(Line)
  <2>1. CASE InHistory(historyIndex)
    <3>1. Line \in Lines /\ Len(Line) \in Nat /\ Cursor = Len(Line)
      BY <1>1, <2>1, HistoryLine DEF EditorInv, Line, Cursor
    <3>2. QED
      BY <3>1
  <2>2. CASE ~InHistory(historyIndex)
    BY <1>1, <2>2 DEF Line, Cursor
  <2>3. QED
    BY <2>1, <2>2
<1>3. Cleaned \in Screens
  BY <1>1, ScreenIs, MoveShows DEF Cleaned
<1>4. ASSUME ~astray PROVE Shows(Cleaned, Line, Cursor)
  <2>1. Line = text /\ Cursor = pos
    BY <1>4 DEF EditorInv, InStep, Line, Cursor
  <2>2. Shows(screen, text, pos)
    BY <1>4 DEF EditorInv, InStep
  <2>3. Shows(MoveTo(screen, pos), text, pos)
    BY <1>1, <2>2, ScreenIs, MoveShows
  <2>4. QED
    BY <2>1, <2>2, <2>3 DEF Cleaned
<1>5. QED
  BY <1>2, <1>3, <1>4

LEMMA HistoryIsLeft ==
  ASSUME TypeOK, MaybeCopyHistoryToBuffer, UNCHANGED history
  PROVE  historyIndex' \in Int /\ historyIndex' >= ULONG_MAX /\ ~InHistory(historyIndex')
         /\ ~InHistory(historyIndex)'
<1>1. CASE InHistory(historyIndex)
  BY <1>1 DEF MaybeCopyHistoryToBuffer, InHistory, ULONG_MAX
<1>2. CASE ~InHistory(historyIndex)
  BY <1>2 DEF MaybeCopyHistoryToBuffer, InHistory, TypeOK
<1>3. QED
  BY <1>1, <1>2

\* What it has to show.
LEMMA EditKeeps ==
  ASSUME EditorInv, Edit, NEW from, NEW to \in States, Key(from, to),
         text' \in Lines, pos' \in 0 .. Len(text'), screen' \in Screens,
         ~astray => Shows(screen', text', pos')
  PROVE  EditorInv'
<1>1. /\ UNCHANGED <<isRunning, history, astray>> /\ state' = to /\ ran' = NoRun
      /\ displaying' = FALSE
  BY DEF Edit, Key
<1>2. displaying' \in BOOLEAN
  BY <1>1, Zenon
<1>3. historyIndex' \in Int /\ historyIndex' >= ULONG_MAX /\ ~InHistory(historyIndex)'
  BY HistoryIsLeft DEF Edit, EditorInv
<1>4. InStep'
  BY <1>1, <1>3 DEF InStep, Shows
<1>5. isRunning' \in BOOLEAN /\ astray' \in BOOLEAN /\ history' \in Seq(Lines \ {<<>>})
  BY <1>1 DEF EditorInv, TypeOK
<1>6. QED
  BY <1>1, <1>2, <1>3, <1>4, <1>5, EmptyIsLine, KeptBy

LEMMA PrintableKeeps ==
  ASSUME EditorInv, NEW c \in Characters, Printable(c)
  PROVE  EditorInv'
<1>1. /\ Key("READY", "READY") /\ Edit /\ isRunning
      /\ text' = InsertAt(Line, Cursor + 1, c) /\ pos' = Cursor + 1
      /\ screen' = IF Cursor < Len(Line) THEN Inserted(Cleaned, c) ELSE Overwritten(Cleaned, c)
  BY DEF Printable, Key
<1>2. /\ Line \in Lines /\ Len(Line) \in Nat /\ Cursor \in 0 .. Len(Line) /\ Cleaned \in Screens
      /\ ~astray => Shows(Cleaned, Line, Cursor)
  BY <1>1, EditFinds
<1>3. text' \in Lines /\ Len(text') = Len(Line) + 1
  BY <1>1, <1>2, InsertedLine
<1>4. pos' \in 0 .. Len(text')
  BY <1>1, <1>2, <1>3
<1>5. screen' \in Screens /\ (~astray => Shows(screen', text', pos'))
  <2>1. CASE Cursor < Len(Line)
    BY <1>1, <1>2, <2>1, InsertShows
  <2>2. CASE Cursor = Len(Line)
    BY <1>1, <1>2, <2>2, OverwriteShows
  <2>3. QED
    BY <1>2, <2>1, <2>2
<1>6. QED
  BY <1>1, <1>3, <1>4, <1>5, EditKeeps DEF States

LEMMA DeleteKeeps == ASSUME EditorInv, HandleDeleteChar PROVE EditorInv'
<1>1. Key("READY", "READY") /\ Edit /\ isRunning
  BY DEF HandleDeleteChar, Key
<1>2. /\ Line \in Lines /\ Len(Line) \in Nat /\ Cursor \in 0 .. Len(Line) /\ Cleaned \in Screens
      /\ ~astray => Shows(Cleaned, Line, Cursor)
  BY <1>1, EditFinds
<1>3. /\ text' \in Lines /\ pos' \in 0 .. Len(text') /\ screen' \in Screens
      /\ ~astray => Shows(screen', text', pos')
  <2>1. CASE Cursor > 0
    <3>1. text' = RemoveAt(Line, Cursor) /\ pos' = Cursor - 1 /\ screen' = DeletedBefore(Cleaned)
      BY <2>1 DEF HandleDeleteChar
    <3>2. text' \in Lines /\ Len(text') = Len(Line) - 1
      BY <1>2, <2>1, <3>1, RemovedLine
    <3>3. QED
      BY <1>2, <2>1, <3>1, <3>2, DeleteShows
  <2>2. CASE ~(Cursor > 0)
    BY <1>2, <2>2 DEF HandleDeleteChar
  <2>3. QED
    BY <2>1, <2>2
<1>4. QED
  BY <1>1, <1>3, EditKeeps DEF States

\* Keys that only move the cursor.
LEMMA CursorKeeps ==
  ASSUME EditorInv, HandleBeginingOfLine \/ HandleEndOfLine \/ HandleBackArrow \/ HandleFwdArrow
  PROVE  EditorInv'
<1>1. /\ Key("READY", "READY") \/ Key("ESC1", "READY")
      /\ Edit /\ isRunning /\ text' = Line
  BY DEF HandleBeginingOfLine, HandleEndOfLine, HandleBackArrow, HandleFwdArrow, Key
<1>2. /\ Line \in Lines /\ Len(Line) \in Nat /\ Cursor \in 0 .. Len(Line) /\ Cleaned \in Screens
      /\ ~astray => Shows(Cleaned, Line, Cursor)
  BY <1>1, EditFinds
<1>3. /\ pos' \in 0 .. Len(Line)
      /\ \/ screen' = MoveTo(Cleaned, pos')
         \/ \E n \in {-1, 1} : screen' = MoveBy(Cleaned, n) /\ pos' = Cursor + n
         \/ screen' = Cleaned /\ pos' = Cursor
  BY <1>2 DEF HandleBeginingOfLine, HandleEndOfLine, HandleBackArrow, HandleFwdArrow
<1>4. screen' \in Screens /\ (~astray => Shows(screen', Line, pos'))
  <2>1. CASE screen' = MoveTo(Cleaned, pos')
    BY <1>2, <1>3, <2>1, MoveShows
  <2>2. ASSUME NEW n \in Int, screen' = MoveBy(Cleaned, n), pos' = Cursor + n
        PROVE  screen' \in Screens /\ (~astray => Shows(screen', Line, pos'))
    <3>1. /\ screen' \in Screens
          /\ \A s, d : Shows(Cleaned, s, d) /\ d + n \in 0 .. Len(s) => Shows(screen', s, d + n)
      BY <1>2, <2>2, MoveByShows
    <3>2. Cursor + n \in 0 .. Len(Line)
      BY <1>3, <2>2
    <3>3. ~astray => Shows(screen', Line, Cursor + n)
      BY <1>2, <3>1, <3>2
    <3>4. QED
      BY <2>2, <3>1, <3>3
  <2>3. CASE screen' = Cleaned /\ pos' = Cursor
    BY <1>2, <2>3
  <2>4. QED
    BY <1>3, <2>1, <2>2, <2>3
<1>5. QED
  BY <1>1, <1>2, <1>3, <1>4, EditKeeps DEF States

LEMMA ClearToEndKeeps == ASSUME EditorInv, HandleClearToEndOfLine PROVE EditorInv'
<1>1. /\ Key("READY", "READY") /\ Edit /\ isRunning
      /\ text' = SubSeq(Line, 1, Cursor) /\ pos' = Cursor /\ screen' = ErasedAfter(Cleaned)
  BY DEF HandleClearToEndOfLine, Key
<1>2. /\ Line \in Lines /\ Len(Line) \in Nat /\ Cursor \in 0 .. Len(Line) /\ Cleaned \in Screens
      /\ ~astray => Shows(Cleaned, Line, Cursor)
  BY <1>1, EditFinds
<1>3. text' \in Lines /\ Len(text') = Cursor
  BY <1>1, <1>2, PartOfLine
<1>4. QED
  BY <1>1, <1>2, <1>3, EraseShows, EditKeeps DEF States

\* The line is cleared, or set to one that is drawn.
LEMMA LineSet ==
  ASSUME EditorInv, NEW s \in Lines, DbufSet(s),
         isRunning' \in BOOLEAN, state' \in States, ran' \in Runs, displaying' \in BOOLEAN,
         astray' \in BOOLEAN, history' \in Seq(Lines \ {<<>>}),
         historyIndex' \in Int, historyIndex' >= ULONG_MAX,
         screen' \in {Redrawn(s), Unknown},
         ~astray' => (InHistory(historyIndex)' => s = history'[historyIndex' + 1])
  PROVE  EditorInv'
<1>1. text' = s /\ pos' = Len(s) /\ Len(s) \in Nat
  BY LenProperties DEF DbufSet, Lines
<1>2. screen' \in Screens /\ Shows(screen', s, Len(s))
  BY RedrawnShows DEF Screens, Shows
<1>3. InStep'
  BY <1>1, <1>2 DEF InStep, Shows
<1>4. text' \in Lines /\ pos' \in 0 .. Len(text')
  BY <1>1
<1>5. QED
  BY <1>2, <1>3, <1>4, KeptBy

LEMMA ClearLineKeeps == ASSUME EditorInv, CtrlU \/ CtrlX PROVE EditorInv'
<1>1. /\ DbufSet(<<>>) /\ displaying' = FALSE /\ screen' = Redrawn(<<>>)
      /\ UNCHANGED <<history, isRunning>> /\ state' = "READY" /\ ran' = NoRun
  BY DEF CtrlU, CtrlX, ClearLine, Key
<1>2. displaying' \in BOOLEAN
  BY <1>1, Zenon
<1>3. /\ isRunning' \in BOOLEAN /\ state' \in States /\ ran' \in Runs
      /\ history' \in Seq(Lines \ {<<>>})
  BY <1>1, EmptyIsLine DEF EditorInv, TypeOK, States
<1>4. /\ astray' \in BOOLEAN /\ historyIndex' \in Int /\ historyIndex' >= ULONG_MAX
      /\ ~astray' => ~InHistory(historyIndex)'
  <2>1. CASE CtrlU
    <3>1. astray' \in BOOLEAN
      BY <2>1, Zenon DEF CtrlU
    <3>2. QED
      BY <1>1, <2>1, <3>1, HistoryIsLeft DEF CtrlU, EditorInv
  <2>2. CASE CtrlX
    <3>1. astray' = InHistory(historyIndex) /\ historyIndex' = historyIndex
      BY <2>2 DEF CtrlX
    <3>2. InHistory(historyIndex)' = InHistory(historyIndex)
      BY <1>1, <3>1 DEF InHistory
    <3>3. InHistory(historyIndex) \in BOOLEAN
      BY DEF InHistory
    <3>4. QED
      BY <3>1, <3>2, <3>3 DEF EditorInv, TypeOK
  <2>3. QED
    BY <2>1, <2>2
<1>5. QED
  BY <1>1, <1>2, <1>3, <1>4, EmptyIsLine, LineSet

-----------------------------------------------------------------------------
(* Completion, escape sequences and the history.                           *)

LEMMA TabKeeps == ASSUME EditorInv, HandleTabChar PROVE EditorInv'
<1> DEFINE options == Matches(Line)
           prefix  == CommonPrefix(options)
           one     == Cardinality(options) = 1
           several == Cardinality(options) > 1
           nothing == displaying /\ Line = <<>>
           extends == ~nothing /\ (one \/ (several /\ Len(prefix) > Len(Line)))
<1>1. /\ Key("READY", "READY") /\ isRunning /\ MaybeCopyHistoryToBuffer
      /\ UNCHANGED <<history, isRunning>> /\ state' = "READY" /\ ran' = NoRun
  BY DEF HandleTabChar, Key
<1>2. /\ Line \in Lines /\ Len(Line) \in Nat /\ Cursor \in 0 .. Len(Line) /\ Cleaned \in Screens
      /\ ~astray => Shows(Cleaned, Line, Cursor)
  BY <1>1, EditFinds
<1>3. /\ isRunning' \in BOOLEAN /\ state' \in States /\ ran' \in Runs
      /\ history' \in Seq(Lines \ {<<>>})
  BY <1>1, EmptyIsLine DEF EditorInv, TypeOK, States
<1>4. historyIndex' \in Int /\ historyIndex' >= ULONG_MAX /\ ~InHistory(historyIndex)'
  BY <1>1, HistoryIsLeft DEF EditorInv
<1>5. CASE /\ extends /\ DbufSet(prefix) /\ screen' = Redrawn(prefix) /\ astray' = FALSE
           /\ displaying' = (several /\ Cardinality(Matches(prefix)) > 1)
  <2>1. options \subseteq DOMAIN Names
    BY DEF Matches
  <2>2. options # {}
    <3>1. Cardinality(options) # 0
      <4> HIDE DEF options
      <4>1. QED
        BY <1>5
    <3>2. QED
      BY <3>1, FS_EmptySet
  <2>3. prefix \in Lines
    BY <2>1, <2>2, PrefixIsLine
  <2>4. displaying' \in BOOLEAN /\ astray' \in BOOLEAN
    BY <1>5, Zenon
  <2> HIDE DEF options, prefix, one, several, nothing, extends
  <2>5. QED
    BY <1>3, <1>4, <1>5, <2>3, <2>4, LineSet
<1>6. CASE /\ text' = Line /\ pos' = Cursor /\ UNCHANGED astray
           /\ displaying' = (several /\ ~nothing)
           /\ screen' = IF displaying' THEN MoveTo(Cleaned, Cursor) ELSE Cleaned
  <2>1. displaying' \in BOOLEAN
    BY <1>6, Zenon
  <2>2. screen' \in {MoveTo(Cleaned, Cursor), Cleaned}
    BY <1>6
  <2>3. screen' \in Screens /\ (~astray => Shows(screen', Line, Cursor))
    BY <1>2, <2>2, MoveShows
  <2>4. InStep' /\ astray' \in BOOLEAN
    BY <1>4, <1>6, <2>3 DEF InStep, Shows, EditorInv, TypeOK
  <2>5. QED
    BY <1>2, <1>3, <1>4, <1>6, <2>1, <2>3, <2>4, KeptBy
<1>7. QED
  BY <1>5, <1>6 DEF HandleTabChar

\* Escape and the keys after it.
LEMMA SequenceKeeps == ASSUME EditorInv, Escape \/ Sequence PROVE EditorInv'
<1>1. /\ UNCHANGED <<isRunning, text, pos, history, historyIndex, astray>>
      /\ isRunning /\ state' \in States /\ ran' = NoRun
  BY DEF Escape, Sequence, Key, dbuf, States
<1>2. displaying' \in BOOLEAN
  <2>1. CASE Escape
    BY <2>1, Zenon DEF Escape
  <2>2. CASE Sequence
    BY <2>2 DEF Sequence, EditorInv, TypeOK
  <2>3. QED
    BY <2>1, <2>2
<1>3. screen' \in Screens /\ (~astray => Shows(screen', text, pos))
  <2>1. CASE Escape
    <3>1. ~astray => Line = text /\ Cursor = pos
      BY <1>1 DEF EditorInv, InStep, Line, Cursor
    <3>2. screen' = Cleaned
      BY <2>1 DEF Escape
    <3>3. QED
      BY <1>1, <3>1, <3>2, EditFinds
  <2>2. CASE Sequence
    BY <1>1, <2>2, ScreenIs DEF Sequence, EditorInv, InStep
  <2>3. QED
    BY <2>1, <2>2
<1>4. InStep'
  BY <1>1, <1>3 DEF InStep, Shows, InHistory, EditorInv
<1>5. QED
  BY <1>1, <1>2, <1>3, <1>4, EmptyIsLine, KeptBy DEF EditorInv, TypeOK

LEMMA DisplayKeeps ==
  ASSUME EditorInv, NEW i \in Int, i >= ULONG_MAX, Key("ESC1", "READY"), DisplayHistoryLine(i),
         UNCHANGED <<history, displaying>>
  PROVE  EditorInv'
<1> DEFINE line == IF InHistory(i) THEN history[i + 1] ELSE text
<1>1. /\ historyIndex' = i /\ DbufSet(line) /\ screen' = Redrawn(line) /\ astray' = FALSE
      /\ UNCHANGED <<isRunning, history, displaying>> /\ state' = "READY" /\ ran' = NoRun
  BY DEF DisplayHistoryLine, Key
<1>2. line \in Lines
  BY HistoryLine DEF EditorInv, TypeOK
<1>3. astray' \in BOOLEAN
  BY <1>1, Zenon
<1>4. InHistory(historyIndex)' => line = history'[historyIndex' + 1]
  BY <1>1 DEF InHistory
<1>5. /\ isRunning' \in BOOLEAN /\ state' \in States /\ ran' \in Runs /\ displaying' \in BOOLEAN
      /\ history' \in Seq(Lines \ {<<>>})
  BY <1>1, EmptyIsLine DEF EditorInv, TypeOK, States
<1> HIDE DEF line
<1>6. QED
  BY <1>1, <1>2, <1>3, <1>4, <1>5, LineSet

LEMMA ArrowsKeep == ASSUME EditorInv, HandleUpArrow \/ HandleDownArrow PROVE EditorInv'
<1>1. Len(history) \in Nat /\ historyIndex \in Int /\ historyIndex >= ULONG_MAX
  BY LenProperties DEF EditorInv, TypeOK
<1>2. CASE HandleUpArrow
  <2> DEFINE i == IF Beyond(historyIndex) THEN Len(history) - 1
                  ELSE IF historyIndex > 0 THEN historyIndex - 1 ELSE 0
  <2>1. i \in Int /\ i >= ULONG_MAX
    BY <1>1 DEF ULONG_MAX
  <2>2. Key("ESC1", "READY") /\ DisplayHistoryLine(i) /\ UNCHANGED <<history, displaying>>
    BY <1>2 DEF HandleUpArrow
  <2> HIDE DEF i
  <2>3. QED
    BY <2>1, <2>2, DisplayKeeps
<1>3. CASE HandleDownArrow
  <2>1. Key("ESC1", "READY") /\ UNCHANGED <<history, displaying>>
    BY <1>3 DEF HandleDownArrow
  <2>2. CASE DisplayHistoryLine(historyIndex + 1)
    BY <1>1, <2>1, <2>2, DisplayKeeps DEF ULONG_MAX
  <2>3. CASE Beyond(historyIndex) /\ historyIndex' = ULONG_MAX /\ UNCHANGED <<dbuf, screen, astray>>
    <3>1. /\ UNCHANGED <<isRunning, text, pos, history, displaying, screen, astray>>
          /\ state' = "READY" /\ ran' = NoRun
      BY <2>1, <2>3 DEF Key, dbuf
    <3>2. ~InHistory(historyIndex)'
      BY <2>3 DEF InHistory, ULONG_MAX
    <3>3. InStep'
      BY <3>1, <3>2 DEF EditorInv, InStep, Shows
    <3>4. screen' \in Screens
      BY <3>1, ScreenIs
    <3>5. QED
      BY <2>3, <3>1, <3>3, <3>4, EmptyIsLine, KeptBy DEF EditorInv, TypeOK, States, ULONG_MAX
  <2>4. QED
    BY <1>3, <2>2, <2>3 DEF HandleDownArrow
<1>4. QED
  BY <1>2, <1>3

-----------------------------------------------------------------------------
(* Enter, and the end.                                                     *)

LEMMA EnteredLeaves ==
  ASSUME EditorInv, Entered
  PROVE  /\ isRunning /\ isRunning' \in BOOLEAN /\ state' \in States /\ ran' \in Runs
         /\ displaying' \in BOOLEAN /\ ToRun \in Lines
<1>1. text \in Lines /\ historyIndex \in Int
  BY DEF EditorInv, TypeOK
<1>2. ToRun \in Lines
  BY <1>1, HistoryLine, TrimIs DEF ToRun, EditorInv
<1>3. Shown \in Lines \cup {Unknown}
  <2>1. CASE screen = Unknown
    BY <2>1 DEF Shown
  <2>2. CASE screen # Unknown
    <3>1. screen.text \in Lines
      BY <2>2 DEF EditorInv, TypeOK
    <3>2. QED
      BY <2>2, <3>1, TrimIs DEF Shown
  <2>3. QED
    BY <2>1, <2>2
<1>4. ran' \in Runs
  BY <1>2, <1>3 DEF Entered, Runs, EditorInv, TypeOK
<1>5. displaying' \in BOOLEAN
  BY Zenon DEF Entered
<1>6. isRunning' \in BOOLEAN /\ state' \in States
  BY DEF Entered, EditorInv, TypeOK, States
<1>7. QED
  BY <1>2, <1>4, <1>5, <1>6 DEF Entered

LEMMA IgnoreKeeps == ASSUME EditorInv, IgnoreEmpty PROVE EditorInv'
<1>1. /\ Entered /\ historyIndex' = ULONG_MAX /\ screen' = Redrawn(<<>>)
      /\ astray' = (text # <<>>) /\ UNCHANGED <<text, pos, history>>
  BY DEF IgnoreEmpty, dbuf
<1>2. /\ isRunning' \in BOOLEAN /\ state' \in States /\ ran' \in Runs /\ displaying' \in BOOLEAN
  BY <1>1, EnteredLeaves
<1>3. astray' \in BOOLEAN
  BY <1>1, Zenon
<1>4. screen' \in Screens /\ Shows(screen', <<>>, 0)
  BY <1>1, EmptyIsLine, RedrawnShows
<1>5. ASSUME ~astray' PROVE text' = <<>> /\ pos' = 0
  <2>1. text = <<>>
    BY <1>1, <1>5, Zenon
  <2>2. pos \in 0 .. Len(<<>>)
    BY <2>1 DEF EditorInv, TypeOK
  <2>3. QED
    BY <1>1, <2>1, <2>2, EmptyIsLine
<1>6. ~InHistory(historyIndex)'
  BY <1>1 DEF InHistory, ULONG_MAX
<1>7. InStep'
  BY <1>4, <1>5, <1>6 DEF InStep, Shows
<1>8. QED
  BY <1>1, <1>2, <1>3, <1>4, <1>7, KeptBy DEF EditorInv, TypeOK, ULONG_MAX

\* A line of the history put on the screen by the `history` command.
LEMMA HistoryGoKeeps ==
  ASSUME EditorInv, Entered, astray' = FALSE, NEW offset \in Int, HistoryGo(offset)
  PROVE  EditorInv'
<1> DEFINE index == IF offset < 0 THEN ULONG_MAX - offset ELSE offset
           i     == IF index > Len(history) THEN Len(history) - 1 ELSE index
           line  == IF InHistory(i) THEN history[i + 1] ELSE <<>>
<1>1. /\ historyIndex' = i /\ DbufSet(line) /\ UNCHANGED history
      /\ screen' = IF line = <<>> THEN Unknown ELSE Redrawn(line)
  BY DEF HistoryGo
<1>2. i \in Int /\ i >= ULONG_MAX
  BY LenProperties DEF EditorInv, TypeOK, ULONG_MAX
<1>3. line \in Lines
  <2> HIDE DEF i
  <2>1. QED
    BY <1>2, HistoryLine, EmptyIsLine DEF EditorInv
<1>4. astray' \in BOOLEAN
  BY Zenon
<1> HIDE DEF i
<1>5. InHistory(historyIndex)' => line = history'[historyIndex' + 1]
  BY <1>1 DEF InHistory
<1> HIDE DEF line
<1>6. history' \in Seq(Lines \ {<<>>}) /\ screen' \in {Redrawn(line), Unknown}
  BY <1>1 DEF EditorInv, TypeOK
<1>7. QED
  BY <1>1, <1>2, <1>3, <1>4, <1>5, <1>6, EnteredLeaves, LineSet

\* Everything else leaves an empty line, and at most a line more in the history.
LEMMA StoredIn ==
  ASSUME EditorInv, NEW line \in Lines \ {<<>>}, StoreCmdInHistory(line)
  PROVE  history' = history \/ (history' = Append(history, line) /\ history' \in Seq(Lines \ {<<>>}))
BY AppendProperties DEF StoreCmdInHistory, EditorInv, TypeOK

LEMMA PromptKeeps ==
  ASSUME EditorInv, Entered, astray' = FALSE, historyIndex' = ULONG_MAX, DbufSet(<<>>),
         screen' \in {Redrawn(<<>>), Unknown}, history' \in Seq(Lines \ {<<>>})
  PROVE  EditorInv'
<1>1. astray' \in BOOLEAN
  BY Zenon
<1>2. ~InHistory(historyIndex)' /\ historyIndex' \in Int /\ historyIndex' >= ULONG_MAX
  BY DEF InHistory, ULONG_MAX
<1>3. QED
  BY <1>1, <1>2, EmptyIsLine, EnteredLeaves, LineSet

LEMMA CommandKeeps == ASSUME EditorInv, ProcessCommandLine PROVE EditorInv'
<1>1. Entered /\ ToRun \in Lines \ {<<>>} /\ astray' = FALSE
  BY EnteredLeaves DEF ProcessCommandLine
<1>2. history \in Seq(Lines \ {<<>>}) /\ <<>> \in Seq(Lines \ {<<>>})
  BY DEF EditorInv, TypeOK
<1>3. CASE DoCmdHistory
  <2>1. CASE Prompted /\ history' \in {history, <<>>}
    BY <1>1, <1>2, <2>1, PromptKeeps DEF Prompted
  <2>2. CASE \E offset \in -HistoryLimit - 2 .. HistoryLimit + 1 : HistoryGo(offset)
    <3>1. PICK offset \in -HistoryLimit - 2 .. HistoryLimit + 1 : HistoryGo(offset)
      BY <2>2
    <3>2. offset \in Int
      OBVIOUS
    <3>3. QED
      BY <1>1, <3>1, <3>2, HistoryGoKeeps
  <2>3. QED
    BY <1>3, <2>1, <2>2 DEF DoCmdHistory
<1>4. CASE DoCommand(ToRun)
  <2>1. history' \in Seq(Lines \ {<<>>})
    BY <1>1, <1>2, <1>4, StoredIn DEF DoCommand
  <2>2. QED
    BY <1>1, <1>4, <2>1, PromptKeeps DEF DoCommand
<1>5. CASE Prompted /\ UNCHANGED history
  BY <1>1, <1>2, <1>5, PromptKeeps DEF Prompted
<1>6. QED
  BY <1>3, <1>4, <1>5 DEF ProcessCommandLine

LEMMA QuitKeeps == ASSUME EditorInv, Quit PROVE EditorInv'
<1>1. /\ isRunning' = FALSE /\ state' = "READY" /\ text' = <<>> /\ pos' = 0
      /\ displaying' = FALSE /\ screen' = Unknown /\ ran' = NoRun
      /\ UNCHANGED <<history, historyIndex, astray>>
  BY DEF Quit
<1>2. isRunning' \in BOOLEAN /\ displaying' \in BOOLEAN
  BY <1>1, Zenon
<1>3. InStep' /\ screen' \in Screens
  BY <1>1 DEF InStep, Screens
<1>4. QED
  BY <1>1, <1>2, <1>3, EmptyIsLine, KeptBy DEF EditorInv, TypeOK, States

LEMMA StutterKeeps == ASSUME EditorInv, UNCHANGED vars PROVE EditorInv'
<1>1. UNCHANGED <<isRunning, state, text, pos, history, historyIndex, displaying, screen, ran, astray>>
  BY DEF vars, dbuf
<1>2. QED
  BY <1>1 DEF EditorInv, TypeOK, ScreenFits, InStep, Shows, InHistory

LEMMA EditorStep == ASSUME EditorInv, [Next]_vars PROVE EditorInv'
<1>1. CASE \E c \in Chars \cup {Blank} : Printable(c)
  BY <1>1, PrintableKeeps DEF Characters
<1>2. CASE UNCHANGED vars
  BY <1>2, StutterKeeps
<1>3. QED
  BY <1>1, <1>2, DeleteKeeps, CursorKeeps, ClearToEndKeeps, ClearLineKeeps, TabKeeps,
     SequenceKeeps, ArrowsKeep, IgnoreKeeps, CommandKeeps, QuitKeeps DEF Next

LEMMA EditorInvariant == Spec => []EditorInv
BY InitKeeps, EditorStep, PTL DEF Spec

-----------------------------------------------------------------------------
(* The theorems.                                                           *)

\* Type correctness: the cursor never leaves the buffer.
THEOREM TypeCorrect == Spec => []TypeOK
BY EditorInvariant, PTL DEF EditorInv

\* The terminal's line and cursor are the buffer's, after any keys.
THEOREM BufferShown == Spec => []ShowsBuffer
<1>1. ASSUME EditorInv PROVE ShowsBuffer
  BY <1>1 DEF EditorInv, InStep, Shows, ShowsBuffer
<1>2. QED
  BY <1>1, EditorInvariant, PTL

-----------------------------------------------------------------------------
(* What Enter runs.                                                        *)

\* A history file as the program writes it: its lines were trimmed before they ran.
FilesAsSaved == \A f \in Files : \A i \in 1 .. Len(f) : Trim(f[i]) = f[i]

HistoryTrimmed == \A i \in 1 .. Len(history) : Trim(history[i]) = history[i]

LEMMA RunTrimmed == ASSUME EditorInv, HistoryTrimmed PROVE Trim(ToRun) = ToRun
<1>1. text \in Lines /\ historyIndex \in Int /\ Len(history) \in Nat
  BY LenProperties DEF EditorInv, TypeOK
<1>2. CASE InHistory(historyIndex)
  <2>1. historyIndex + 1 \in 1 .. Len(history)
    BY <1>1, <1>2 DEF InHistory
  <2>2. QED
    BY <1>2, <2>1 DEF ToRun, HistoryTrimmed
<1>3. CASE ~InHistory(historyIndex)
  BY <1>1, <1>3, TrimIs DEF ToRun
<1>4. QED
  BY <1>2, <1>3

\* The history only changes when a command is stored or the whole is cleared.
LEMMA HistoryStep ==
  ASSUME EditorInv, [Next]_vars
  PROVE  history' \in {history, <<>>} \/ (Entered /\ history' = Append(history, ToRun))
<1>1. CASE UNCHANGED vars
  BY <1>1 DEF vars
<1>2. CASE ProcessCommandLine
  <2>1. Entered /\ ToRun \in Lines \ {<<>>}
    BY <1>2, EnteredLeaves DEF ProcessCommandLine
  <2>2. QED
    BY <1>2, <2>1, StoredIn
       DEF ProcessCommandLine, DoCmdHistory, HistoryGo, Prompted, DoCommand
<1>3. QED
  BY <1>1, <1>2
     DEF Next, Printable, Edit, HandleDeleteChar, HandleBackArrow, HandleFwdArrow,
         HandleBeginingOfLine, HandleEndOfLine, HandleClearToEndOfLine, CtrlU, CtrlX, ClearLine,
         HandleTabChar, Escape, Sequence, HandleUpArrow, HandleDownArrow, IgnoreEmpty, Quit

LEMMA TrimmedStays ==
  ASSUME EditorInv, HistoryTrimmed, [Next]_vars
  PROVE  HistoryTrimmed'
<1>1. CASE history' = history
  BY <1>1 DEF HistoryTrimmed
<1>2. CASE history' = <<>>
  BY <1>2 DEF HistoryTrimmed
<1>3. CASE history' = Append(history, ToRun) /\ Entered
  <2>1. history \in Seq(Lines) /\ ToRun \in Lines /\ Trim(ToRun) = ToRun
    BY <1>3, EnteredLeaves, RunTrimmed, SeqMonotonic DEF EditorInv, TypeOK
  <2>2. /\ Len(history) \in Nat /\ Len(history') = Len(history) + 1
        /\ \A i \in 1 .. Len(history) : history'[i] = history[i]
        /\ history'[Len(history) + 1] = ToRun
    BY <1>3, <2>1, AppendProperties, LenProperties
  <2>3. SUFFICES ASSUME NEW i \in 1 .. Len(history') PROVE Trim(history'[i]) = history'[i]
    BY DEF HistoryTrimmed
  <2>4. CASE i \in 1 .. Len(history)
    BY <2>2, <2>4 DEF HistoryTrimmed
  <2>5. CASE i = Len(history) + 1
    BY <2>1, <2>2, <2>5
  <2>6. QED
    BY <2>2, <2>4, <2>5
<1>4. QED
  BY <1>1, <1>2, <1>3, HistoryStep

LEMMA RunStep ==
  ASSUME EditorInv, HistoryTrimmed, RunsWhatIsShown, [Next]_vars
  PROVE  RunsWhatIsShown'
<1>1. CASE ran' = NoRun
  BY <1>1 DEF RunsWhatIsShown, NoRun
<1>2. CASE ran' = ran
  BY <1>2 DEF RunsWhatIsShown
<1>3. CASE Entered
  <2>1. ran' = [shown |-> Shown, line |-> ToRun, astray |-> astray] /\ isRunning
    BY <1>3 DEF Entered
  <2>2. SUFFICES ASSUME ~astray, Shown # Unknown PROVE ToRun = Shown
    BY <2>1 DEF RunsWhatIsShown
  <2>3. screen # Unknown
    BY <2>2 DEF Shown
  <2>4. screen = [text |-> text, col |-> pos]
    BY <2>1, <2>2, <2>3 DEF EditorInv, InStep, Shows
  <2>5. Shown = Trim(text)
    BY <2>3, <2>4 DEF Shown
  <2>6. CASE InHistory(historyIndex)
    <3>1. text = ToRun
      BY <2>1, <2>2, <2>6 DEF EditorInv, InStep, ToRun
    <3>2. QED
      BY <2>5, <3>1, RunTrimmed
  <2>7. CASE ~InHistory(historyIndex)
    BY <2>5, <2>7 DEF ToRun
  <2>8. QED
    BY <2>6, <2>7
<1>4. ran' = NoRun \/ ran' = ran \/ Entered
  BY DEF Next, vars, Printable, HandleDeleteChar, HandleBackArrow, HandleFwdArrow,
         HandleBeginingOfLine, HandleEndOfLine, HandleClearToEndOfLine, CtrlU, CtrlX,
         HandleTabChar, Escape, Sequence, HandleUpArrow, HandleDownArrow, IgnoreEmpty,
         ProcessCommandLine, Quit, Key
<1>5. QED
  BY <1>1, <1>2, <1>3, <1>4

\* Enter runs the line that is shown, from a history file the program has written.
THEOREM ShownIsRun == FilesAsSaved => (Spec => []RunsWhatIsShown)
<1> SUFFICES ASSUME FilesAsSaved PROVE Spec => []RunsWhatIsShown
  OBVIOUS
<1>1. Init => HistoryTrimmed /\ RunsWhatIsShown
  BY DEF Init, FilesAsSaved, HistoryTrimmed, RunsWhatIsShown, NoRun
<1>2. EditorInv /\ HistoryTrimmed /\ RunsWhatIsShown /\ [Next]_vars
        => HistoryTrimmed' /\ RunsWhatIsShown'
  BY TrimmedStays, RunStep
<1>3. QED
  BY <1>1, <1>2, EditorInvariant, PTL DEF Spec

-----------------------------------------------------------------------------
(* The abstract editor (module LineEditor): every step is one of its steps *)
(* or a stutter.                                                           *)

Seen == <<isRunning, View, history>>

\* What is seen is the buffer, and what a key finds.
LEMMA SeenIs ==
  ASSUME EditorInv, isRunning, View # Unknown
  PROVE  /\ ~astray /\ View = [text |-> text, col |-> pos]
         /\ text \in Lines /\ Len(text) \in Nat /\ pos \in 0 .. Len(text)
         /\ Line = text /\ Cursor = pos /\ Cleaned = View
         /\ InHistory(historyIndex) => text = history[historyIndex + 1]
<1>1. ~astray /\ View = screen /\ screen # Unknown
  BY DEF View
<1>2. text \in Lines /\ Len(text) \in Nat /\ pos \in 0 .. Len(text)
  BY LenProperties DEF EditorInv, TypeOK, Lines
<1>3. /\ screen = [text |-> text, col |-> pos]
      /\ InHistory(historyIndex) => text = history[historyIndex + 1] /\ pos = Len(text)
  BY <1>1 DEF EditorInv, InStep, Shows
<1>4. Line = text /\ Cursor = pos
  BY <1>3 DEF Line, Cursor
<1>5. MoveTo(screen, pos) = screen
  BY <1>1, <1>2, <1>3 DEF MoveTo
<1>6. QED
  BY <1>1, <1>2, <1>3, <1>4, <1>5 DEF Cleaned

\* A key pressed without a view leaves none, if it only edits.
LEMMA UnseenStays ==
  ASSUME isRunning, UNCHANGED <<isRunning, history, astray>>, View = Unknown,
         Cleaned = Unknown => screen' = Unknown
  PROVE  UNCHANGED Seen
<1>1. screen = Unknown => Cleaned = Unknown
  BY DEF Cleaned, MoveTo
<1>2. QED
  BY <1>1 DEF View, Seen

\* A key pressed with a view that makes one change to it.
LEMMA KeySeen ==
  ASSUME isRunning, UNCHANGED <<isRunning, history>>, View # Unknown,
         \/ \E c \in Characters : ShownEditor!Type(c)
         \/ ShownEditor!DeleteBack \/ ShownEditor!EraseRest \/ ShownEditor!Move
         \/ ShownEditor!Complete \/ ShownEditor!Recall \/ ShownEditor!Clear
  PROVE  ShownEditor!EditorNext
BY DEF ShownEditor!EditorNext, Characters

LEMMA PrintableSeen ==
  ASSUME EditorInv, NEW c \in Characters, Printable(c)
  PROVE  [ShownEditor!EditorNext]_Seen
<1>1. /\ isRunning /\ UNCHANGED <<isRunning, history, astray>>
      /\ text' = InsertAt(Line, Cursor + 1, c) /\ pos' = Cursor + 1
      /\ screen' = IF Cursor < Len(Line) THEN Inserted(Cleaned, c) ELSE Overwritten(Cleaned, c)
  BY DEF Printable, Key, Edit
<1>2. CASE View = Unknown
  <2>1. Cleaned = Unknown => screen' = Unknown
    BY <1>1 DEF Inserted, Overwritten
  <2>2. QED
    BY <1>1, <1>2, <2>1, UnseenStays
<1>3. CASE View # Unknown
  <2>1. /\ ~astray /\ View = [text |-> text, col |-> pos]
        /\ text \in Lines /\ Len(text) \in Nat /\ pos \in 0 .. Len(text)
        /\ Line = text /\ Cursor = pos /\ Cleaned = View
    BY <1>1, <1>3, SeenIs
  <2>2. screen' = [text |-> InsertAt(text, pos + 1, c), col |-> pos + 1]
    <3>1. CASE pos < Len(text)
      BY <1>1, <1>3, <2>1, <3>1 DEF Inserted
    <3>2. CASE pos = Len(text)
      <4>1. SubSeq(text, 1, pos) \o <<c>> \o SubSeq(text, pos + 2, Len(text)) = InsertAt(text, pos + 1, c)
        BY <2>1, <3>2, WrittenAtEnd
      <4>2. screen' = Overwritten(View, c) /\ View.text = text /\ View.col = pos
        BY <1>1, <2>1, <3>2
      <4>3. QED
        BY <1>3, <4>1, <4>2 DEF Overwritten
    <3>3. QED
      BY <2>1, <3>1, <3>2
  <2>3. View' = [text |-> InsertAt(text, pos + 1, c), col |-> pos + 1]
    BY <1>1, <2>1, <2>2 DEF View
  <2>4. ShownEditor!Type(c)
    BY <2>1, <2>3 DEF ShownEditor!Type, ShownEditor!InsertAt, InsertAt
  <2>5. QED
    BY <1>1, <1>3, <2>4, KeySeen
<1>4. QED
  BY <1>2, <1>3

LEMMA DeleteSeen ==
  ASSUME EditorInv, HandleDeleteChar
  PROVE  [ShownEditor!EditorNext]_Seen
<1>1. /\ isRunning /\ UNCHANGED <<isRunning, history, astray>>
      /\ screen' = IF Cursor > 0 THEN DeletedBefore(Cleaned) ELSE Cleaned
  BY DEF HandleDeleteChar, Key, Edit
<1>2. CASE View = Unknown
  <2>1. Cleaned = Unknown => screen' = Unknown
    BY <1>1 DEF DeletedBefore
  <2>2. QED
    BY <1>1, <1>2, <2>1, UnseenStays
<1>3. CASE View # Unknown
  <2>1. /\ ~astray /\ View = [text |-> text, col |-> pos] /\ pos \in Nat
        /\ Cursor = pos /\ Cleaned = View
    BY <1>1, <1>3, SeenIs
  <2>2. View' = screen'
    BY <1>1, <2>1 DEF View
  <2>3. CASE pos > 0
    <3>1. screen' = DeletedBefore(View) /\ View.text = text /\ View.col = pos
      BY <1>1, <2>1, <2>3
    <3>2. View' = [text |-> RemoveAt(View.text, View.col), col |-> View.col - 1]
      BY <1>3, <2>1, <2>2, <2>3, <3>1 DEF DeletedBefore
    <3>3. ShownEditor!DeleteBack
      BY <2>3, <3>1, <3>2 DEF ShownEditor!DeleteBack, ShownEditor!RemoveAt, RemoveAt
    <3>4. QED
      BY <1>1, <1>3, <3>3, KeySeen
  <2>4. CASE ~(pos > 0)
    BY <1>1, <2>1, <2>2, <2>4 DEF Seen
  <2>5. QED
    BY <2>3, <2>4
<1>4. QED
  BY <1>2, <1>3

LEMMA CursorSeen ==
  ASSUME EditorInv, HandleBeginingOfLine \/ HandleEndOfLine \/ HandleBackArrow \/ HandleFwdArrow
  PROVE  [ShownEditor!EditorNext]_Seen
<1>1. /\ isRunning /\ UNCHANGED <<isRunning, history, astray>>
      /\ \/ screen' = MoveTo(Cleaned, 0)
         \/ screen' = MoveTo(Cleaned, Len(Line))
         \/ Cursor > 0 /\ screen' = MoveBy(Cleaned, -1)
         \/ Cursor < Len(Line) /\ screen' = MoveBy(Cleaned, 1)
         \/ screen' = Cleaned
  BY DEF HandleBeginingOfLine, HandleEndOfLine, HandleBackArrow, HandleFwdArrow, Key, Edit
<1>2. CASE View = Unknown
  <2>1. Cleaned = Unknown => screen' = Unknown
    BY <1>1 DEF MoveBy, MoveTo
  <2>2. QED
    BY <1>1, <1>2, <2>1, UnseenStays
<1>3. CASE View # Unknown
  <2>1. /\ ~astray /\ View = [text |-> text, col |-> pos]
        /\ Len(text) \in Nat /\ pos \in 0 .. Len(text)
        /\ Line = text /\ Cursor = pos /\ Cleaned = View
    BY <1>1, <1>3, SeenIs
  <2>2. View.text = text /\ View.col = pos /\ View' = screen'
    BY <1>1, <2>1 DEF View
  <2>3. ASSUME NEW c \in {0, pos - 1, pos + 1, Len(text)} \cap (0 .. Len(text)),
               screen' = MoveTo(View, c)
        PROVE  [ShownEditor!EditorNext]_Seen
    <3>1. View' = [text |-> text, col |-> c]
      BY <1>3, <2>1, <2>2, <2>3 DEF MoveTo
    <3>2. ShownEditor!Move
      BY <2>2, <2>3, <3>1 DEF ShownEditor!Move
    <3>3. QED
      BY <1>1, <1>3, <3>2, KeySeen
  <2>4. CASE screen' = MoveTo(View, 0)
    BY <2>1, <2>3, <2>4
  <2>5. CASE screen' = MoveTo(View, Len(text))
    BY <2>1, <2>3, <2>5
  <2>6. CASE pos > 0 /\ screen' = MoveBy(View, -1)
    <3>1. screen' = MoveTo(View, pos - 1)
      BY <1>3, <2>1, <2>2, <2>6 DEF MoveBy
    <3>2. QED
      BY <2>1, <2>3, <2>6, <3>1
  <2>7. CASE pos < Len(text) /\ screen' = MoveBy(View, 1)
    <3>1. screen' = MoveTo(View, pos + 1)
      BY <1>3, <2>1, <2>2, <2>7 DEF MoveBy
    <3>2. QED
      BY <2>1, <2>3, <2>7, <3>1
  <2>8. CASE screen' = View
    BY <1>1, <2>2, <2>8 DEF Seen
  <2>9. QED
    BY <1>1, <2>1, <2>4, <2>5, <2>6, <2>7, <2>8
<1>4. QED
  BY <1>2, <1>3

LEMMA ClearToEndSeen ==
  ASSUME EditorInv, HandleClearToEndOfLine
  PROVE  [ShownEditor!EditorNext]_Seen
<1>1. /\ isRunning /\ UNCHANGED <<isRunning, history, astray>> /\ screen' = ErasedAfter(Cleaned)
  BY DEF HandleClearToEndOfLine, Key, Edit
<1>2. CASE View = Unknown
  <2>1. Cleaned = Unknown => screen' = Unknown
    BY <1>1 DEF ErasedAfter
  <2>2. QED
    BY <1>1, <1>2, <2>1, UnseenStays
<1>3. CASE View # Unknown
  <2>1. ~astray /\ View = [text |-> text, col |-> pos] /\ Cleaned = View
    BY <1>1, <1>3, SeenIs
  <2>2. View' = ErasedAfter(View) /\ View.text = text /\ View.col = pos
    BY <1>1, <2>1 DEF View
  <2>3. View' = [text |-> SubSeq(View.text, 1, View.col), col |-> View.col]
    BY <1>3, <2>1, <2>2 DEF ErasedAfter
  <2>4. ShownEditor!EraseRest
    BY <2>3 DEF ShownEditor!EraseRest
  <2>5. QED
    BY <1>1, <1>3, <2>4, KeySeen
<1>4. QED
  BY <1>2, <1>3

\* Whatever is drawn without a view is drawn as a whole.
LEMMA GropeSeen ==
  ASSUME isRunning, UNCHANGED isRunning, View = Unknown,
         View' = Unknown \/ \E s : View' = Redrawn(s),
         history' \in {history, <<>>} \/ history' = Append(history, Last(history'))
  PROVE  ShownEditor!EditorNext
<1>1. View' # Unknown => View' = Redrawn(View'.text)
  BY DEF Redrawn
<1>2. ShownEditor!Grope
  BY <1>1 DEF ShownEditor!Grope, ShownEditor!Whole, Redrawn, ShownEditor!Last, Last
<1>3. QED
  BY <1>2 DEF ShownEditor!EditorNext

LEMMA ClearSeen ==
  ASSUME EditorInv, CtrlU \/ CtrlX
  PROVE  [ShownEditor!EditorNext]_Seen
<1>1. /\ isRunning /\ UNCHANGED <<isRunning, history>> /\ screen' = Redrawn(<<>>)
      /\ astray' = FALSE \/ astray' = InHistory(historyIndex)
  BY DEF CtrlU, CtrlX, ClearLine, Key
<1>2. View' = Redrawn(<<>>) \/ (View' = Unknown /\ InHistory(historyIndex))
  BY <1>1 DEF View
<1>3. CASE View = Unknown
  BY <1>1, <1>2, <1>3, GropeSeen
<1>4. CASE View # Unknown
  <2>1. /\ View.text = text
        /\ InHistory(historyIndex) => text = history[historyIndex + 1]
    BY <1>1, <1>4, SeenIs
  <2>2. InHistory(historyIndex) => historyIndex + 1 \in DOMAIN history
    BY LenProperties DEF EditorInv, TypeOK, InHistory
  <2>3. ShownEditor!Clear
    BY <1>2, <2>1, <2>2 DEF ShownEditor!Clear, ShownEditor!Whole, Redrawn, ShownEditor!Remembered
  <2>4. QED
    BY <1>1, <1>4, <2>3, KeySeen
<1>5. QED
  BY <1>3, <1>4

LEMMA SequenceSeen ==
  ASSUME EditorInv, Escape \/ Sequence
  PROVE  [ShownEditor!EditorNext]_Seen
<1>1. /\ isRunning /\ UNCHANGED <<isRunning, history, astray>>
      /\ screen' = Cleaned \/ screen' = screen
  BY DEF Escape, Sequence, Key
<1>2. CASE View = Unknown
  <2>1. screen = Unknown => Cleaned = Unknown
    BY DEF Cleaned, MoveTo
  <2>2. QED
    BY <1>1, <1>2, <2>1 DEF View, Seen
<1>3. CASE View # Unknown
  <2>1. ~astray /\ Cleaned = View
    BY <1>1, <1>3, SeenIs
  <2>2. QED
    BY <1>1, <2>1 DEF View, Seen
<1>4. QED
  BY <1>2, <1>3

LEMMA DisplaySeen ==
  ASSUME EditorInv, isRunning, UNCHANGED <<isRunning, history>>, NEW i \in Int,
         DisplayHistoryLine(i)
  PROVE  [ShownEditor!EditorNext]_Seen
<1> DEFINE line == IF InHistory(i) THEN history[i + 1] ELSE text
<1>1. View' = Redrawn(line)
  BY DEF DisplayHistoryLine, View
<1>2. CASE View = Unknown
  BY <1>1, <1>2, GropeSeen
<1>3. CASE View # Unknown
  <2>1. View.text = text
    BY <1>3, SeenIs
  <2>2. InHistory(i) => i + 1 \in DOMAIN history
    BY LenProperties DEF EditorInv, TypeOK, InHistory
  <2>3. line \in ShownEditor!Remembered \cup {View.text}
    BY <2>1, <2>2 DEF ShownEditor!Remembered
  <2> HIDE DEF line
  <2>4. ShownEditor!Recall
    BY <1>1, <2>3 DEF ShownEditor!Recall, ShownEditor!Whole, Redrawn
  <2>5. QED
    BY <1>3, <2>4, KeySeen
<1>4. QED
  BY <1>2, <1>3

LEMMA ArrowsSeen ==
  ASSUME EditorInv, HandleUpArrow \/ HandleDownArrow
  PROVE  [ShownEditor!EditorNext]_Seen
<1>1. isRunning /\ UNCHANGED <<isRunning, history>> /\ Len(history) \in Nat /\ historyIndex \in Int
  BY LenProperties DEF HandleUpArrow, HandleDownArrow, Key, EditorInv, TypeOK
<1>2. CASE HandleUpArrow
  <2> DEFINE i == IF Beyond(historyIndex) THEN Len(history) - 1
                  ELSE IF historyIndex > 0 THEN historyIndex - 1 ELSE 0
  <2>1. i \in Int
    BY <1>1
  <2>2. DisplayHistoryLine(i)
    BY <1>2 DEF HandleUpArrow
  <2> HIDE DEF i
  <2>3. QED
    BY <1>1, <2>1, <2>2, DisplaySeen
<1>3. CASE HandleDownArrow
  <2>1. CASE UNCHANGED <<dbuf, screen, astray>>
    BY <1>1, <2>1 DEF View, Seen
  <2>2. CASE DisplayHistoryLine(historyIndex + 1)
    BY <1>1, <2>2, DisplaySeen
  <2>3. QED
    BY <1>3, <2>1, <2>2 DEF HandleDownArrow
<1>4. QED
  BY <1>2, <1>3

-----------------------------------------------------------------------------
(* Completion.                                                             *)

LEMMA PrefixOfSelf ==
  ASSUME NEW s \in Lines, NEW n \in Int, n <= Len(s)
  PROVE  IsPrefix(SubSeq(s, 1, n), s)
<1>1. Len(s) \in Nat
  BY LenProperties DEF Lines
<1>2. CASE n >= 1
  <2>1. SubSeq(s, 1, n) \in Lines /\ Len(SubSeq(s, 1, n)) = n
    BY <1>1, <1>2, PartOfLine
  <2>2. SubSeq(SubSeq(s, 1, n), 1, n) = SubSeq(s, 1, n)
    BY <2>1, SubSeqFull DEF Lines
  <2>3. QED
    BY <2>1, <2>2 DEF IsPrefix
<1>3. CASE n < 1
  <2>1. SubSeq(s, 1, n) = <<>> /\ Len(<<>>) = 0
    BY <1>3, SubSeqEmpty
  <2>2. SubSeq(<<>>, 1, 0) = <<>> /\ SubSeq(s, 1, 0) = <<>>
    BY SubSeqEmpty
  <2>3. QED
    BY <1>1, <2>1, <2>2 DEF IsPrefix
<1>4. QED
  BY <1>1, <1>2, <1>3

LEMMA EmptyIsPrefix == ASSUME NEW s \in Lines PROVE IsPrefix(<<>>, s)
<1>1. Len(s) \in Nat /\ Len(<<>>) = 0
  BY LenProperties DEF Lines
<1>2. SubSeq(<<>>, 1, 0) = <<>> /\ SubSeq(s, 1, 0) = <<>>
  BY SubSeqEmpty
<1>3. QED
  BY <1>1, <1>2 DEF IsPrefix

\* What is common to some names, its last character aside, begins each of them;
\* if there is only one it is that name.
LEMMA PrefixIsCommon ==
  ASSUME NEW options \in SUBSET (DOMAIN Names), options # {}
  PROVE  \E i \in options : \E k \in 0 .. Len(Names[i]) :
           /\ CommonPrefix(options) = SubSeq(Names[i], 1, k)
           /\ Len(CommonPrefix(options)) = k
           /\ \A j \in options : IsPrefix(SubSeq(Names[i], 1, k - 1), Names[j])
           /\ options = {i} => k = Len(Names[i])
<1> DEFINE first == Min(options)
           test  == Names[first]
           stop  == {n \in 1 .. Len(test) - 1 :
                       \E i \in options : ~IsPrefix(SubSeq(test, 1, n), Names[i])}
<1>1. options \subseteq Nat
  BY NamesAssumption, LenProperties
<1>2. first \in options
  BY <1>1, MinIs
<1>3. \A i \in options : Names[i] \in Lines
  <2>1. TAKE i \in options
  <2>2. Names[i] \in Seq(Chars)
    BY NamesAssumption, LenProperties, ElementOfSeq
  <2>3. QED
    BY <2>2, SeqMonotonic DEF Lines
<1>4. test \in Lines /\ Len(test) \in Nat
  BY <1>2, <1>3, LenProperties DEF Lines
<1>5. CommonPrefix(options) = IF stop = {} THEN test ELSE SubSeq(test, 1, Min(stop) - 1)
  BY DEF CommonPrefix
<1>6. /\ stop \subseteq Nat /\ \A n \in stop : n >= 1 /\ n <= Len(test) - 1
      /\ \A n \in 1 .. Len(test) - 1 : n \notin stop =>
           \A j \in options : IsPrefix(SubSeq(test, 1, n), Names[j])
  BY <1>4
<1>7. options = {first} => stop = {}
  <2>1. ASSUME options = {first}, NEW n \in stop PROVE FALSE
    <3>1. n \in 1 .. Len(test) - 1 /\ ~IsPrefix(SubSeq(test, 1, n), test)
      BY <2>1
    <3>2. n \in Int /\ n <= Len(test)
      BY <1>4, <3>1
    <3>3. QED
      BY <1>4, <3>1, <3>2, PrefixOfSelf
  <2>2. QED
    BY <2>1
<1> HIDE DEF first, test, stop
<1>8. ASSUME NEW k \in 0 .. Len(test), \A n \in 1 .. k - 1 : n \notin stop
      PROVE  \A j \in options : IsPrefix(SubSeq(test, 1, k - 1), Names[j])
  <2>1. TAKE j \in options
  <2>2. CASE k >= 2
    BY <1>4, <1>6, <1>8, <2>2
  <2>3. CASE k < 2
    <3>1. SubSeq(test, 1, k - 1) = <<>>
      BY <1>4, <2>3, SubSeqEmpty
    <3>2. QED
      BY <1>3, <3>1, EmptyIsPrefix
  <2>4. QED
    BY <1>4, <2>2, <2>3
<1>9. \E k \in 0 .. Len(test) :
        /\ CommonPrefix(options) = SubSeq(test, 1, k) /\ Len(CommonPrefix(options)) = k
        /\ \A j \in options : IsPrefix(SubSeq(test, 1, k - 1), Names[j])
        /\ options = {first} => k = Len(test)
  <2>1. CASE stop = {}
    <3>1. CommonPrefix(options) = SubSeq(test, 1, Len(test)) /\ Len(CommonPrefix(options)) = Len(test)
      BY <1>4, <1>5, <2>1, SubSeqFull DEF Lines
    <3>2. Len(test) \in 0 .. Len(test)
      BY <1>4
    <3>3. \A j \in options : IsPrefix(SubSeq(test, 1, Len(test) - 1), Names[j])
      BY <1>8, <2>1, <3>2
    <3>4. QED
      BY <3>1, <3>2, <3>3
  <2>2. CASE stop # {}
    <3>1. PICK m \in stop : m = Min(stop) /\ \A n \in stop : m <= n
      BY <1>6, <2>2, MinIs
    <3>2. m \in Nat /\ m >= 1 /\ m - 1 \in 0 .. Len(test) /\ m - 1 \in Int /\ m - 1 <= Len(test)
      BY <1>4, <1>6
    <3>3. CommonPrefix(options) = SubSeq(test, 1, m - 1) /\ Len(CommonPrefix(options)) = m - 1
      BY <1>4, <1>5, <2>2, <3>1, <3>2, PartOfLine
    <3>4. \A n \in 1 .. (m - 1) - 1 : n \notin stop
      BY <3>1, <3>2
    <3>5. \A j \in options : IsPrefix(SubSeq(test, 1, (m - 1) - 1), Names[j])
      BY <1>8, <3>2, <3>4
    <3>6. QED
      BY <1>7, <2>2, <3>2, <3>3, <3>5
  <2>3. QED
    BY <2>1, <2>2
<1>10. QED
  BY <1>2, <1>9 DEF test

LEMMA TabSeen ==
  ASSUME EditorInv, HandleTabChar
  PROVE  [ShownEditor!EditorNext]_Seen
<1> DEFINE options == Matches(Line)
           prefix  == CommonPrefix(options)
           one     == Cardinality(options) = 1
           several == Cardinality(options) > 1
           nothing == displaying /\ Line = <<>>
           extends == ~nothing /\ (one \/ (several /\ Len(prefix) > Len(Line)))
<1>1. isRunning /\ UNCHANGED <<isRunning, history>>
  BY DEF HandleTabChar, Key
<1>2. CASE ~extends /\ UNCHANGED astray /\ screen' \in {MoveTo(Cleaned, Cursor), Cleaned}
  <2>1. CASE View = Unknown
    <3>1. Cleaned = Unknown => screen' = Unknown
      BY <1>2 DEF MoveTo
    <3>2. QED
      BY <1>1, <1>2, <2>1, <3>1, UnseenStays
  <2>2. CASE View # Unknown
    <3>1. /\ ~astray /\ View = [text |-> text, col |-> pos] /\ pos \in 0 .. Len(text)
          /\ Cursor = pos /\ Cleaned = View
      BY <1>1, <2>2, SeenIs
    <3>2. MoveTo(View, pos) = View
      BY <2>2, <3>1 DEF MoveTo
    <3>3. QED
      BY <1>1, <1>2, <3>1, <3>2 DEF View, Seen
  <2>3. QED
    BY <2>1, <2>2
<1>3. CASE extends /\ screen' = Redrawn(prefix) /\ astray' = FALSE
  <2>1. View' = Redrawn(prefix)
    BY <1>3 DEF View
  <2>2. CASE View = Unknown
    BY <1>1, <2>1, <2>2, GropeSeen
  <2>3. CASE View # Unknown
    <3>1. View.text = text /\ Line = text /\ text \in Lines /\ Len(text) \in Nat
      BY <1>1, <2>3, SeenIs
    <3>2. options \in SUBSET (DOMAIN Names) /\ options = {i \in DOMAIN Names : IsPrefix(text, Names[i])}
      BY <3>1 DEF Matches
    <3>3. one \/ Len(prefix) > Len(text)
      BY <1>3, <3>1
    <3>4. IsFiniteSet(options)
      <4>1. DOMAIN Names = 1 .. Len(Names) /\ Len(Names) \in Nat
        BY NamesAssumption, LenProperties
      <4>2. IsFiniteSet(DOMAIN Names)
        BY <4>1, FS_Interval
      <4>3. options \subseteq DOMAIN Names
        BY <3>2
      <4> HIDE DEF options
      <4>4. QED
        BY <4>2, <4>3, FS_Subset
    <3>5. options # {}
      <4>1. Cardinality(options) # 0
        <5> HIDE DEF options
        <5>1. QED
          BY <1>3
      <4>2. QED
        BY <4>1, FS_EmptySet
    <3> HIDE DEF options
    <3>6. PICK i \in options : \E k \in 0 .. Len(Names[i]) :
            /\ prefix = SubSeq(Names[i], 1, k) /\ Len(prefix) = k
            /\ \A j \in options : IsPrefix(SubSeq(Names[i], 1, k - 1), Names[j])
            /\ options = {i} => k = Len(Names[i])
      BY <3>2, <3>5, PrefixIsCommon
    <3>7. PICK k \in 0 .. Len(Names[i]) :
            /\ prefix = SubSeq(Names[i], 1, k) /\ Len(prefix) = k
            /\ \A j \in options : IsPrefix(SubSeq(Names[i], 1, k - 1), Names[j])
            /\ options = {i} => k = Len(Names[i])
      BY <3>6
    <3> HIDE DEF prefix
    <3>8. Names[i] \in ToSet(Names) /\ IsPrefix(text, Names[i])
      BY <3>2 DEF ToSet
    <3>9. Len(text) <= Len(Names[i])
      BY <3>8 DEF IsPrefix
    <3>10. k >= Len(text)
      <4>1. CASE one
        <5>1. options = {i}
          BY <3>4, <4>1, FS_Singleton
        <5>2. QED
          BY <3>7, <3>9, <5>1
      <4>2. CASE Len(prefix) > Len(text)
        BY <3>1, <3>7, <4>2
      <4>3. QED
        BY <3>3, <4>1, <4>2
    <3>11. k \in Len(text) .. Len(Names[i])
      BY <3>1, <3>7, <3>10
    <3>12. \A name \in ToSet(Names) : IsPrefix(text, name) => IsPrefix(SubSeq(Names[i], 1, k - 1), name)
      BY <3>2, <3>7 DEF ToSet
    <3>13. ShownEditor!Complete
      BY <2>1, <3>1, <3>7, <3>8, <3>11, <3>12
         DEF ShownEditor!Complete, ShownEditor!Whole, Redrawn, ShownEditor!IsPrefix, IsPrefix
    <3>14. QED
      BY <1>1, <2>3, <3>13, KeySeen
  <2>4. QED
    BY <2>2, <2>3
<1>4. QED
  BY <1>2, <1>3 DEF HandleTabChar

-----------------------------------------------------------------------------
(* Enter.                                                                  *)

\* A line itself, and what trimming leaves of it, are it less some blanks at its ends.
LEMMA StrippedIs ==
  ASSUME NEW s \in Lines
  PROVE  s \in ShownEditor!Stripped(s) /\ Trim(s) \in ShownEditor!Stripped(s)
<1> DEFINE shown == {i \in 1 .. Len(s) : s[i] # Blank}
<1>1. Len(s) \in Nat
  BY LenProperties DEF Lines
<1>2. ASSUME NEW a \in 1 .. Len(s) + 1, NEW b \in 0 .. Len(s),
             \A i \in 1 .. Len(s) : i < a \/ i > b => s[i] = Blank
      PROVE  SubSeq(s, a, b) \in ShownEditor!Stripped(s)
  <2> DEFINE p == <<a, b>>
  <2>1. p \in (1 .. Len(s) + 1) \X (0 .. Len(s)) /\ p[1] = a /\ p[2] = b
    OBVIOUS
  <2> HIDE DEF p
  <2>2. p \in {ends \in (1 .. Len(s) + 1) \X (0 .. Len(s)) :
                \A i \in 1 .. Len(s) : i < ends[1] \/ i > ends[2] => s[i] = Blank}
    BY <1>2, <2>1
  <2>3. SubSeq(s, p[1], p[2]) \in ShownEditor!Stripped(s)
    BY <2>2, Zenon DEF ShownEditor!Stripped
  <2>4. QED
    BY <2>1, <2>3
<1>3. s \in ShownEditor!Stripped(s)
  <2>1. SubSeq(s, 1, Len(s)) = s
    BY SubSeqFull DEF Lines
  <2>2. SubSeq(s, 1, Len(s)) \in ShownEditor!Stripped(s)
    BY <1>1, <1>2
  <2>3. QED
    BY <2>1, <2>2
<1>4. CASE shown = {}
  <2>1. Trim(s) = SubSeq(s, 1, 0)
    BY <1>4, SubSeqEmpty DEF Trim
  <2>2. SubSeq(s, 1, 0) \in ShownEditor!Stripped(s)
    BY <1>1, <1>2, <1>4
  <2>3. QED
    BY <1>3, <2>1, <2>2
<1>5. CASE shown # {}
  <2>1. shown \subseteq 1 .. Len(s) /\ shown \subseteq Nat
    OBVIOUS
  <2>2. Trim(s) = SubSeq(s, Min(shown), Max(shown))
    BY <1>5 DEF Trim
  <2>3. /\ Min(shown) \in shown /\ \A y \in shown : Min(shown) <= y
        /\ Max(shown) \in shown /\ \A y \in shown : Max(shown) >= y
    <3> HIDE DEF shown
    <3>1. QED
      BY <1>1, <1>5, <2>1, MinIs, MaxIs
  <2>4. \A i \in 1 .. Len(s) : i < Min(shown) \/ i > Max(shown) => s[i] = Blank
    <3>1. TAKE i \in 1 .. Len(s)
    <3>2. i \in shown => Min(shown) <= i /\ Max(shown) >= i
      BY <2>3
    <3>3. Min(shown) \in Int /\ Max(shown) \in Int
      BY <2>1, <2>3
    <3>4. QED
      BY <3>2, <3>3
  <2>5. Min(shown) \in 1 .. Len(s) + 1 /\ Max(shown) \in 0 .. Len(s)
    BY <1>1, <2>1, <2>3
  <2>6. QED
    BY <1>2, <1>3, <2>2, <2>4, <2>5
<1>6. QED
  BY <1>4, <1>5

LEMMA FirstWordBegins == ASSUME NEW s \in Lines PROVE IsPrefix(FirstWord(s), s)
<1> DEFINE blanks == {i \in 1 .. Len(s) : s[i] = Blank}
           b      == SelectInSeq(s, LAMBDA c : c = Blank)
<1>1. Len(s) \in Nat /\ FirstWord(s) = IF b = 0 THEN s ELSE SubSeq(s, 1, b - 1)
  BY LenProperties DEF Lines, FirstWord
<1>2. CASE blanks = {}
  <2>1. b = 0
    BY <1>2 DEF SelectInSeq
  <2>2. FirstWord(s) = s /\ SubSeq(s, 1, Len(s)) = s
    BY <1>1, <2>1, SubSeqFull DEF Lines
  <2>3. IsPrefix(SubSeq(s, 1, Len(s)), s)
    BY <1>1, PrefixOfSelf
  <2>4. QED
    BY <2>2, <2>3
<1>3. CASE blanks # {}
  <2>1. blanks \subseteq 1 .. Len(s) /\ blanks \subseteq Nat
    OBVIOUS
  <2>2. Min(blanks) \in blanks
    <3> HIDE DEF blanks
    <3>1. QED
      BY <1>3, <2>1, MinIs
  <2>3. b = Min(blanks) /\ b # 0
    <3>1. b = Min(blanks)
      BY <1>3 DEF SelectInSeq
    <3>2. QED
      BY <2>1, <2>2, <3>1
  <2>4. Min(blanks) - 1 \in Int /\ Min(blanks) - 1 <= Len(s)
    BY <1>1, <2>1, <2>2
  <2> HIDE DEF b, blanks
  <2>5. FirstWord(s) = SubSeq(s, 1, Min(blanks) - 1)
    BY <1>1, <2>3
  <2>6. QED
    BY <2>4, <2>5, PrefixOfSelf
<1>4. QED
  BY <1>2, <1>3

\* What Enter finds: it runs what is seen, less blanks at its ends.
LEMMA EnterFinds ==
  ASSUME EditorInv, Entered, View # Unknown
  PROVE  View.text = text /\ ToRun \in ShownEditor!Stripped(View.text)
<1>1. /\ View.text = text /\ text \in Lines
      /\ InHistory(historyIndex) => text = history[historyIndex + 1]
  BY SeenIs DEF Entered
<1>2. ToRun = text \/ ToRun = Trim(text)
  BY <1>1 DEF ToRun
<1>3. QED
  BY <1>1, <1>2, StrippedIs

LEMMA EnterSeen ==
  ASSUME isRunning, UNCHANGED isRunning, View # Unknown, ShownEditor!Enter
  PROVE  ShownEditor!EditorNext
BY DEF ShownEditor!EditorNext

LEMMA IgnoreSeen ==
  ASSUME EditorInv, IgnoreEmpty
  PROVE  [ShownEditor!EditorNext]_Seen
<1>1. /\ isRunning /\ UNCHANGED <<isRunning, history>> /\ Entered /\ ToRun = <<>>
      /\ screen' = Redrawn(<<>>) /\ astray' = (text # <<>>)
  BY DEF IgnoreEmpty, Entered
<1>2. View' = IF text = <<>> THEN Redrawn(<<>>) ELSE Unknown
  BY <1>1 DEF View
<1>3. CASE View = Unknown
  BY <1>1, <1>2, <1>3, GropeSeen
<1>4. CASE View # Unknown
  <2>1. View.text = text /\ <<>> \in ShownEditor!Stripped(View.text)
    BY <1>1, <1>4, EnterFinds
  <2>2. ShownEditor!Enter
    BY <1>1, <1>2, <2>1
       DEF ShownEditor!Enter, ShownEditor!EnterNothing, ShownEditor!Whole, Redrawn
  <2>3. QED
    BY <1>1, <1>4, <2>2, EnterSeen
<1>5. QED
  BY <1>3, <1>4

\* A command, told to the user in one of four ways.
LEMMA CommandEnds ==
  ASSUME EditorInv, ProcessCommandLine
  PROVE  /\ isRunning /\ UNCHANGED isRunning /\ Entered /\ ToRun \in Lines \ {<<>>}
         /\ \/ View' \in {Redrawn(<<>>), Unknown}
               /\ (history' = history \/ (history' = Append(history, ToRun)
                                          /\ (history # <<>> => Last(history) # ToRun)))
            \/ /\ IsPrefix(HistoryName, ToRun)
               /\ \/ history' = <<>> /\ View' = Redrawn(<<>>)
                  \/ history' = history /\ \E i \in DOMAIN history : View' = Redrawn(history[i])
<1>1. /\ isRunning /\ UNCHANGED isRunning /\ Entered /\ ToRun \in Lines \ {<<>>}
      /\ astray' = FALSE
  BY EnteredLeaves DEF ProcessCommandLine, Entered
<1>2. View' = screen'
  BY <1>1 DEF View
<1>3. CASE DoCommand(ToRun) \/ (Prompted /\ UNCHANGED history)
  BY <1>1, <1>2, <1>3 DEF DoCommand, StoreCmdInHistory, Prompted
<1>4. CASE FirstWord(ToRun) = HistoryName /\ DoCmdHistory
  <2>1. IsPrefix(HistoryName, ToRun)
    BY <1>1, <1>4, FirstWordBegins
  <2>2. CASE Prompted /\ history' \in {history, <<>>}
    BY <1>1, <1>2, <2>1, <2>2 DEF Prompted
  <2>3. ASSUME NEW offset \in Int, HistoryGo(offset)
        PROVE  history' = history /\ (\/ View' = Unknown
                                     \/ \E i \in DOMAIN history : View' = Redrawn(history[i]))
    <3> DEFINE index == IF offset < 0 THEN ULONG_MAX - offset ELSE offset
               i     == IF index > Len(history) THEN Len(history) - 1 ELSE index
               line  == IF InHistory(i) THEN history[i + 1] ELSE <<>>
    <3>1. history' = history /\ screen' = IF line = <<>> THEN Unknown ELSE Redrawn(line)
      BY <2>3 DEF HistoryGo
    <3>2. InHistory(i) => i + 1 \in DOMAIN history
      <4> HIDE DEF i
      <4>1. QED
        BY LenProperties DEF EditorInv, TypeOK, InHistory
    <3> HIDE DEF i
    <3>3. QED
      BY <1>2, <3>1, <3>2
  <2>4. CASE \E offset \in -HistoryLimit - 2 .. HistoryLimit + 1 : HistoryGo(offset)
    <3>1. PICK offset \in -HistoryLimit - 2 .. HistoryLimit + 1 : HistoryGo(offset)
      BY <2>4
    <3>2. offset \in Int
      OBVIOUS
    <3>3. QED
      BY <1>1, <2>1, <2>3, <3>1, <3>2
  <2>5. QED
    BY <1>4, <2>2, <2>4 DEF DoCmdHistory
<1>5. QED
  BY <1>3, <1>4 DEF ProcessCommandLine

LEMMA CommandSeen ==
  ASSUME EditorInv, ProcessCommandLine
  PROVE  [ShownEditor!EditorNext]_Seen
<1>1. /\ isRunning /\ UNCHANGED isRunning /\ Entered /\ ToRun \in Lines \ {<<>>}
      /\ \/ View' \in {Redrawn(<<>>), Unknown}
            /\ (history' = history \/ (history' = Append(history, ToRun)
                                       /\ (history # <<>> => Last(history) # ToRun)))
         \/ /\ IsPrefix(HistoryName, ToRun)
            /\ \/ history' = <<>> /\ View' = Redrawn(<<>>)
               \/ history' = history /\ \E i \in DOMAIN history : View' = Redrawn(history[i])
  BY CommandEnds
<1>2. CASE View = Unknown
  <2>1. history \in Seq(Lines) /\ ToRun \in Lines
    BY <1>1, SeqMonotonic DEF EditorInv, TypeOK
  <2>2. Last(Append(history, ToRun)) = ToRun
    BY <2>1, AppendProperties, LenProperties DEF Last
  <2>3. history' \in {history, <<>>} \/ history' = Append(history, Last(history'))
    BY <1>1, <2>2
  <2>4. View' = Unknown \/ \E s : View' = Redrawn(s)
    BY <1>1
  <2>5. QED
    BY <1>1, <1>2, <2>3, <2>4, GropeSeen
<1>3. CASE View # Unknown
  <2>1. ToRun \in ShownEditor!Stripped(View.text) \ {<<>>}
    BY <1>1, <1>3, EnterFinds
  <2>2. ShownEditor!Run(ToRun) \/ ShownEditor!RunHistory(ToRun)
    BY <1>1
       DEF ShownEditor!Run, ShownEditor!RunHistory, ShownEditor!Whole, Redrawn,
           ShownEditor!Remembered, ShownEditor!Last, Last, ShownEditor!IsPrefix, IsPrefix
  <2>3. ShownEditor!Enter
    BY <2>1, <2>2 DEF ShownEditor!Enter
  <2>4. QED
    BY <1>1, <1>3, <2>3, EnterSeen
<1>4. QED
  BY <1>2, <1>3

LEMMA QuitSeen ==
  ASSUME Quit
  PROVE  [ShownEditor!EditorNext]_Seen
<1>1. isRunning /\ isRunning' = FALSE /\ UNCHANGED history /\ View' = Unknown
  BY DEF Quit, View
<1>2. QED
  BY <1>1 DEF ShownEditor!EditorNext, ShownEditor!Close

LEMMA SeenStep ==
  ASSUME EditorInv, [Next]_vars
  PROVE  [ShownEditor!EditorNext]_Seen
<1>1. CASE \E c \in Chars \cup {Blank} : Printable(c)
  BY <1>1, PrintableSeen DEF Characters
<1>2. CASE UNCHANGED vars
  BY <1>2 DEF vars, View, Seen
<1>3. QED
  BY <1>1, <1>2, DeleteSeen, CursorSeen, ClearToEndSeen, ClearSeen, TabSeen,
     SequenceSeen, ArrowsSeen, IgnoreSeen, CommandSeen, QuitSeen DEF Next

\* The editor is what it looks like, for any commands, histories and keys.
THEOREM EditorShown == Spec => IsLineEditor
<1>1. Init => ShownEditor!EditorInit
  BY DEF Init, ShownEditor!EditorInit, ShownEditor!Whole, Redrawn, View
<1>2. EditorInv /\ [Next]_vars => [ShownEditor!EditorNext]_Seen
  BY SeenStep
<1>3. QED
  BY <1>1, <1>2, EditorInvariant, PTL
     DEF Spec, IsLineEditor, ShownEditor!EditorSpec, ShownEditor!editor, Seen
=============================================================================
