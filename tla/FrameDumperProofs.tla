------------------------- MODULE FrameDumperProofs -------------------------
(* The dumper beside the frame database, for any constants: it only reads  *)
(* the database, the refnums it carries from a query to the screen keep    *)
(* their meaning, and the screen follows the polls.                        *)
EXTENDS FrameDumper, FrameDBProofs

-----------------------------------------------------------------------------
(* The dumper's steps are steps or stutters of the frame database.         *)

LEMMA DatabaseStep == ASSUME [DumperNext]_allVars PROVE [Next]_vars
<1>1. CASE Saves
  BY <1>1 DEF Saves, Next
<1>2. CASE DumperRuns
  BY <1>2 DEF DumperRuns, Poll, DrawFrame, FramesDrawn, AllValueKeys, ValuesUpdateSinceEtag,
              DrawValue, EndPoll, dbVars
<1>3. CASE BeginCommand
  BY <1>3 DEF BeginCommand, Next, Clear
<1>4. CASE ClearAssignment
  BY <1>4 DEF ClearAssignment, Next, Clear
<1>5. CASE StopDumper
  BY <1>5 DEF StopDumper, dbVars
<1>6. CASE \E m \in Modes : SetDumpMode(m)
  BY <1>6 DEF SetDumpMode, dbVars
<1>7. CASE UNCHANGED allVars
  BY <1>7 DEF allVars, dbVars
<1>8. QED
  BY <1>1, <1>2, <1>3, <1>4, <1>5, <1>6, <1>7 DEF DumperNext

\* The dumper never writes the database: what the database does beside it is what
\* FrameDB allows, so FrameDB's theorems hold of the composition.
THEOREM DumperKeepsDatabase == DumperSpec => Spec
BY DatabaseStep, PTL DEF DumperSpec, DumperSpecInit, Spec

-----------------------------------------------------------------------------
(* Maps from some of a set's elements: the lines and the rows.             *)

MapOf(f, S, T) == DOMAIN f \subseteq S /\ f \in [DOMAIN f -> T]

LEMMA WithMap ==
  ASSUME NEW f, NEW S, NEW T, MapOf(f, S, T), NEW x \in S, NEW y \in T
  PROVE  MapOf(With(f, x, y), S, T)
BY DEF MapOf, With

LEMMA WithoutMap ==
  ASSUME NEW f, NEW S, NEW T, MapOf(f, S, T), NEW x
  PROVE  MapOf(Without(f, x), S, T) /\ (x \notin DOMAIN f => Without(f, x) = f)
BY DEF MapOf, Without

LEMMA NothingMap ==
  ASSUME NEW S, NEW T
  PROVE  MapOf(Nothing, S, T) /\ DOMAIN Nothing = {}
BY DEF MapOf, Nothing

-----------------------------------------------------------------------------
(* Typing and refnums.                                                     *)

\* What stands on a row, and the refnums that can be.
OnScreen == (FrameCells \cup Keys) \X (Payloads \cup {None})
Refnums  == (0 .. TagLimit - 1) \X CanIds

\* The types of the screen's maps and counters.
ScreenType ==
  /\ MapOf(lines, Refnums, Nat) /\ MapOf(valueLines, Keys, Nat) /\ MapOf(rows, Nat, OnScreen)
  /\ lastFrameLine \in Nat /\ lastValueLine \in Nat /\ linesBefore \in Nat

\* The types of the rest.
PollType ==
  /\ running \in BOOLEAN /\ dumper \in DumperPC
  /\ mode \in AllModes /\ lastmode \in AllModes /\ ifName \in Ports \cup {Every}
  /\ dumperEtag \in Nat /\ dumperValueEtag \in Nat
  /\ newEtag \in Nat /\ newValueEtag \in Nat /\ polled \in Nat
  /\ newTags \subseteq Refnums /\ newKeys \subseteq Keys
  /\ final \in BOOLEAN /\ redraw \in BOOLEAN /\ anyTags \in BOOLEAN

LEMMA TypesAre == DumperTypeOK <=> PollType /\ ScreenType
BY DEF DumperTypeOK, PollType, ScreenType, MapOf, OnScreen, Refnums

LEMMA ScreenStays ==
  ASSUME ScreenType, UNCHANGED <<screen, linesBefore>> PROVE ScreenType'
BY DEF ScreenType, screen, frameLines, valueRows, MapOf

LEMMA ScreenClears == ASSUME ClearScreen PROVE ScreenType' /\ DOMAIN lines' = {}
BY NothingMap DEF ClearScreen, ScreenType

\* Frames are only stored under an interface that has its tag.
FramesAreTagged == \A i \in Interfaces, c \in CanIds : Present(i, c) => ifTag[i] # Absent

\* Every refnum on the way to the screen was made from such an interface.
TagsAreOwned == \A tag \in newTags \cup DOMAIN lines : \E i \in Interfaces : ifTag[i] = tag[1]

DumperInv == PollType /\ ScreenType /\ FramesAreTagged /\ TagsAreOwned

\* An interface keeps the tag it has, and a frame that appears has one.
LEMMA TagsStay ==
  ASSUME TypeOK, FramesAreTagged, [Next]_vars
  PROVE  /\ \A i \in Interfaces : ifTag[i] # Absent => ifTag'[i] = ifTag[i]
         /\ FramesAreTagged'
<1>1. ASSUME NEW i \in Interfaces, CreateInterface(i)
      PROVE  /\ \A j \in Interfaces : ifTag[j] # Absent => ifTag'[j] = ifTag[j]
             /\ ifTag'[i] # Absent
  BY <1>1 DEF CreateInterface, TypeOK, Absent
<1>2. ASSUME NEW i \in Interfaces, NEW p \in Protocols, RegisterProtocol(i, p)
      PROVE  /\ \A j \in Interfaces : ifTag[j] # Absent => ifTag'[j] = ifTag[j]
             /\ FramesAreTagged'
  <2>1. \A j \in Interfaces : ifTag[j] # Absent => ifTag'[j] = ifTag[j]
    BY <1>1, <1>2 DEF RegisterProtocol
  <2>2. frames' = frames
    BY <1>2 DEF RegisterProtocol
  <2>3. QED
    BY <2>1, <2>2 DEF FramesAreTagged, Present
<1>3. ASSUME NEW i \in Interfaces, NEW c \in CanIds, NEW x \in Payloads, SaveFrame(i, c, x)
      PROVE  /\ \A j \in Interfaces : ifTag[j] # Absent => ifTag'[j] = ifTag[j]
             /\ FramesAreTagged'
  <2>1. /\ \A j \in Interfaces : ifTag[j] # Absent => ifTag'[j] = ifTag[j]
        /\ ifTag'[i] # Absent
    BY <1>1, <1>3 DEF SaveFrame
  <2>2. \A j \in Interfaces \ {i} : frames'[j] = frames[j]
    BY <1>3 DEF SaveFrame, StoreChange, TypeOK
  <2>3. QED
    BY <2>1, <2>2 DEF FramesAreTagged, Present
<1>4. ASSUME Clear
      PROVE  UNCHANGED ifTag /\ FramesAreTagged'
  <2>1. UNCHANGED ifTag /\ (frames' = frames \/ frames' = NoFrames)
    BY <1>4 DEF Clear, BeginClear, ClearTheFrames, ClearTheValues, ResetEtag, ResetValueEtag,
                interfaces
  <2>2. QED
    BY <2>1 DEF FramesAreTagged, Present, NoFrames, NoEntry
<1>5. CASE UNCHANGED vars
  BY <1>5 DEF vars, interfaces, FramesAreTagged, Present
<1>6. QED
  BY <1>2, <1>3, <1>4, <1>5 DEF Next

\* The refnums of a query are typed, and their interface is there.
LEMMA QueryTags ==
  ASSUME TypeOK, FramesAreTagged, NEW since,
         NEW tag \in {makeFrameTag(f[1], f[2]) : f \in FramesUpdateSinceEtag(since)}
  PROVE  /\ tag \in Refnums
         /\ \E i \in Interfaces : ifTag[i] = tag[1]
<1>1. PICK f \in Interfaces \X CanIds : Present(f[1], f[2]) /\ tag = makeFrameTag(f[1], f[2])
  BY DEF FramesUpdateSinceEtag
<1>2. ifTag[f[1]] # Absent
  BY <1>1 DEF FramesAreTagged
<1>3. QED
  BY <1>1, <1>2 DEF makeFrameTag, TypeOK, Refnums

LEMMA PollKeeps ==
  ASSUME TypeOK, DumperInv, Poll
  PROVE  PollType' /\ ScreenType' /\ TagsAreOwned'
<1> DEFINE again == ~running \/ lastmode # mode
           since == IF again THEN 0 ELSE dumperEtag
<1>1. /\ newTags' = {makeFrameTag(f[1], f[2]) : f \in {g \in FramesUpdateSinceEtag(since) : Wanted(g)}}
      /\ newEtag' = lastEtag /\ polled' = Least(since, lastEtag)
      /\ anyTags' \in BOOLEAN /\ redraw' = again /\ lastmode' = mode
      /\ dumper' = "frames" /\ final' = ~running
      /\ \/ ClearScreen
         \/ UNCHANGED screen /\ linesBefore' = lastFrameLine
  BY DEF Poll
<1>2. \A tag \in newTags' : /\ tag \in Refnums
                            /\ \E i \in Interfaces : ifTag[i] = tag[1]
  BY <1>1, QueryTags DEF DumperInv
<1>3. since \in Nat /\ polled' \in Nat
  BY <1>1 DEF Least, TypeOK, DumperInv, PollType
<1> HIDE DEF since
<1>4. ScreenType' /\ DOMAIN lines' \subseteq DOMAIN lines
  BY <1>1, ScreenClears DEF screen, frameLines, valueRows, DumperInv, ScreenType, MapOf
<1>5. UNCHANGED <<settings, etags, newValueEtag, newKeys>> /\ ifTag' = ifTag
  BY DEF Poll, dbVars, vars, interfaces
<1>6. TagsAreOwned'
  BY <1>2, <1>4, <1>5 DEF TagsAreOwned, DumperInv
<1>7. PollType'
  BY <1>1, <1>2, <1>3, <1>5 DEF settings, etags, PollType, DumperPC, DumperInv, TypeOK, AllModes
<1>8. QED
  BY <1>4, <1>6, <1>7

\* What drawing a refnum does: the interface it names, and what is put where.
LEMMA DrawFacts ==
  ASSUME DumperInv, NEW tag \in newTags, DrawFrame(tag)
  PROVE  /\ UNCHANGED <<dbVars, settings, dumper, lastmode, etags, query, newValueEtag, newKeys,
                         valueRows, history>>
         /\ dumper = "frames" /\ newTags' = newTags \ {tag} /\ tag \in Refnums
         /\ \E i \in Interfaces :
              /\ ifTag[i] = tag[1] /\ <<i, tag[2]>> \in FrameCells
              /\ \/ Present(i, tag[2]) /\ PutFrame(tag, <<i, tag[2]>>, frames[i][tag[2]].data)
                 \/ ~Present(i, tag[2]) /\ UNCHANGED <<frameLines, rows>>
<1>1. tag \in Refnums
  BY DEF DumperInv, PollType
<1>2. PICK i \in Owners(tag) :
        \/ Present(i, tag[2]) /\ PutFrame(tag, <<i, tag[2]>>, frames[i][tag[2]].data)
        \/ ~Present(i, tag[2]) /\ UNCHANGED <<frameLines, rows>>
  BY Zenon DEF DrawFrame
<1>3. i \in Interfaces /\ ifTag[i] = tag[1] /\ <<i, tag[2]>> \in FrameCells
  BY <1>1, <1>2 DEF Owners, Refnums, FrameCells
<1>4. QED
  BY <1>1, <1>2, <1>3 DEF DrawFrame

LEMMA PutKeeps ==
  ASSUME ScreenType, NEW tag \in Refnums, NEW f \in FrameCells, NEW x \in Payloads \cup {None},
         PutFrame(tag, f, x)
  PROVE  /\ MapOf(lines', Refnums, Nat) /\ MapOf(rows', Nat, OnScreen) /\ lastFrameLine' \in Nat
         /\ DOMAIN lines' \subseteq DOMAIN lines \cup {tag}
<1>1. <<f, x>> \in OnScreen
  BY DEF OnScreen
<1>2. CASE tag \in DOMAIN lines
  <2>1. UNCHANGED frameLines /\ rows' = With(rows, lines[tag] + TopOffset, <<f, x>>)
    BY <1>2 DEF PutFrame
  <2>2. lines[tag] + TopOffset \in Nat
    BY <1>2 DEF ScreenType, MapOf, TopOffset
  <2>3. MapOf(rows', Nat, OnScreen)
    BY <1>1, <2>1, <2>2, WithMap DEF ScreenType
  <2>4. QED
    BY <2>1, <2>3 DEF frameLines, ScreenType, MapOf
<1>3. CASE tag \notin DOMAIN lines
  <2>1. /\ lines' = With(lines, tag, lastFrameLine) /\ lastFrameLine' = lastFrameLine + 1
        /\ rows' = With(rows, lastFrameLine + 1 + TopOffset, <<f, x>>)
    BY <1>3 DEF PutFrame
  <2>2. lastFrameLine \in Nat /\ lastFrameLine + 1 + TopOffset \in Nat
    BY DEF ScreenType, TopOffset
  <2>3. MapOf(rows', Nat, OnScreen)
    BY <1>1, <2>1, <2>2, WithMap DEF ScreenType
  <2>4. MapOf(lines', Refnums, Nat)
    BY <2>1, <2>2, WithMap DEF ScreenType
  <2>5. DOMAIN lines' = DOMAIN lines \cup {tag}
    BY <2>1 DEF With
  <2>6. QED
    BY <2>1, <2>2, <2>3, <2>4, <2>5
<1>4. QED
  BY <1>2, <1>3

LEMMA DrawKeeps ==
  ASSUME TypeOK, DumperInv, NEW tag \in newTags, DrawFrame(tag)
  PROVE  PollType' /\ ScreenType' /\ TagsAreOwned'
<1>1. /\ UNCHANGED <<dbVars, settings, dumper, lastmode, etags, query, newValueEtag, newKeys,
                      valueRows, history>>
      /\ newTags' = newTags \ {tag} /\ tag \in Refnums
  BY DrawFacts
<1>2. PICK i \in Interfaces :
        /\ <<i, tag[2]>> \in FrameCells
        /\ \/ PutFrame(tag, <<i, tag[2]>>, frames[i][tag[2]].data)
           \/ UNCHANGED <<frameLines, rows>>
  BY DrawFacts
<1>3. frames[i][tag[2]].data \in Payloads \cup {None}
  BY <1>1, <1>2 DEF TypeOK, Entry, Refnums
<1>4. /\ MapOf(lines', Refnums, Nat) /\ MapOf(rows', Nat, OnScreen) /\ lastFrameLine' \in Nat
      /\ DOMAIN lines' \subseteq DOMAIN lines \cup {tag}
  BY <1>1, <1>2, <1>3, PutKeeps DEF frameLines, DumperInv, ScreenType, MapOf
<1>5. ScreenType'
  BY <1>1, <1>4 DEF valueRows, history, DumperInv, ScreenType, MapOf
<1>6. PollType'
  BY <1>1 DEF settings, etags, query, history, DumperInv, PollType
<1>7. ifTag' = ifTag
  BY <1>1 DEF dbVars, vars, interfaces
<1>8. TagsAreOwned'
  BY <1>1, <1>4, <1>7 DEF TagsAreOwned, DumperInv
<1>9. QED
  BY <1>5, <1>6, <1>8

\* What drawing a value does.
LEMMA ValueFacts ==
  ASSUME TypeOK, DumperInv, NEW k \in newKeys, DrawValue(k)
  PROVE  \E line \in Nat :
           /\ k \in Keys /\ (line = lastValueLine \/ \E l \in DOMAIN valueLines : line = valueLines[l])
           /\ valueLines' = With(valueLines, k, line)
           /\ lastValueLine' \in {lastValueLine, lastValueLine + 1}
           /\ Row(line) \in Nat /\ (line > 0 => Row(line) = line)
           /\ \/ rows' = rows
              \/ values[k].data # None /\ rows' = With(rows, Row(line), <<k, values[k].data>>)
<1> DEFINE line == IF k \in DOMAIN valueLines THEN valueLines[k] ELSE lastValueLine
<1>1. k \in Keys /\ line \in Nat
  BY DEF DumperInv, PollType, ScreenType, MapOf
<1>2. /\ valueLines' = With(valueLines, k, line)
      /\ lastValueLine' \in {lastValueLine, lastValueLine + 1}
      /\ rows' = IF values[k].data = None THEN rows ELSE With(rows, Row(line), <<k, values[k].data>>)
  BY DEF DrawValue
<1>3. line = lastValueLine \/ \E l \in DOMAIN valueLines : line = valueLines[l]
  OBVIOUS
<1> HIDE DEF line
<1>4. Row(line) \in Nat /\ (line > 0 => Row(line) = line)
  BY <1>1 DEF Row
<1>5. QED
  BY <1>1, <1>2, <1>3, <1>4

\* Drawing the values touches no refnum, nor does the erasing of a line.
LEMMA RestKeeps ==
  ASSUME TypeOK, DumperInv,
         \/ FramesDrawn \/ AllValueKeys \/ ValuesUpdateSinceEtag \/ EndPoll
         \/ \E k \in newKeys : DrawValue(k)
  PROVE  /\ PollType' /\ ScreenType' /\ newTags' \subseteq newTags
         /\ UNCHANGED <<frameLines, linesBefore>>
<1>1. ASSUME NEW row, rows' = rows \/ rows' = Without(rows, row)
      PROVE  MapOf(rows', Nat, OnScreen)
  <2>1. MapOf(rows, Nat, OnScreen)
    BY DEF DumperInv, ScreenType
  <2>2. QED
    BY <1>1, <2>1, WithoutMap
<1>2. ASSUME MapOf(rows', Nat, OnScreen), MapOf(valueLines', Keys, Nat), lastValueLine' \in Nat,
             UNCHANGED <<frameLines, linesBefore>>
      PROVE  ScreenType'
  BY <1>2 DEF DumperInv, ScreenType, frameLines, MapOf
<1>3. MapOf(rows, Nat, OnScreen) /\ MapOf(valueLines, Keys, Nat) /\ lastValueLine \in Nat
  BY DEF DumperInv, ScreenType
<1>4. CASE FramesDrawn
  <2>1. /\ UNCHANGED <<settings, lastmode, etags, poll, frameLines, valueRows, history>>
        /\ dumper' = "drawn" /\ (rows' = rows \/ rows' = Without(rows, lastFrameLine + TopOffset))
    BY <1>4 DEF FramesDrawn
  <2>2. ScreenType' /\ UNCHANGED linesBefore
    BY <1>1, <1>2, <1>3, <2>1 DEF valueRows, history
  <2>3. PollType' /\ newTags' = newTags
    BY <2>1 DEF settings, etags, poll, query, history, DumperPC, DumperInv, PollType
  <2>4. QED
    BY <2>1, <2>2, <2>3
<1>5. CASE AllValueKeys
  <2>1. /\ UNCHANGED <<settings, lastmode, dumperEtag, query, newTags, newValueEtag, screen, history>>
        /\ dumper' = "updated" /\ newKeys' \subseteq Keys /\ dumperValueEtag' \in {0, dumperValueEtag}
    BY <1>5 DEF AllValueKeys
  <2>2. PollType'
    BY <2>1 DEF settings, query, history, DumperPC, DumperInv, PollType
  <2>3. QED
    BY <2>1, <2>2, ScreenStays DEF screen, history, DumperInv
<1>6. CASE ValuesUpdateSinceEtag
  <2>1. /\ UNCHANGED <<settings, lastmode, etags, query, newTags, frameLines, rows, history>>
        /\ dumper' = "values" /\ newValueEtag' = lastValueEtag /\ newKeys' \subseteq newKeys \cup Keys
        /\ \/ valueLines' = Nothing /\ lastValueLine' = lastFrameLine + TopOffset + 1
           \/ UNCHANGED valueRows
    BY <1>6 DEF ValuesUpdateSinceEtag
  <2>2. PollType'
    BY <2>1 DEF settings, etags, query, history, DumperPC, TypeOK, DumperInv, PollType
  <2>3. MapOf(valueLines', Keys, Nat) /\ lastValueLine' \in Nat
    BY <1>3, <2>1, NothingMap DEF valueRows, TopOffset, DumperInv, ScreenType
  <2>4. QED
    BY <1>2, <1>3, <2>1, <2>2, <2>3 DEF history
<1>7. CASE EndPoll
  <2>1. /\ UNCHANGED <<settings, lastmode, frameLines, valueRows, history>>
        /\ dumper' \in {"off", "idle"} /\ dumperEtag' = newEtag
        /\ dumperValueEtag' \in {dumperValueEtag, newValueEtag}
        /\ (rows' = rows \/ rows' = Without(rows, HeaderRow)) /\ ForgetPoll
    BY <1>7 DEF EndPoll, PrintHeaderLine
  <2>2. ScreenType' /\ UNCHANGED linesBefore
    BY <1>1, <1>2, <1>3, <2>1 DEF valueRows, history
  <2>3. PollType' /\ newTags' = {}
    BY <2>1 DEF settings, history, ForgetPoll, DumperPC, DumperInv, PollType
  <2>4. QED
    BY <2>1, <2>2, <2>3
<1>8. ASSUME NEW k \in newKeys, DrawValue(k)
      PROVE  /\ PollType' /\ ScreenType' /\ newTags' \subseteq newTags
             /\ UNCHANGED <<frameLines, linesBefore>>
  <2>1. /\ UNCHANGED <<settings, dumper, lastmode, etags, query, newTags, newValueEtag, frameLines,
                        history>>
        /\ newKeys' = newKeys \ {k}
    BY <1>8 DEF DrawValue
  <2>2. PollType'
    BY <2>1 DEF settings, etags, query, history, DumperInv, PollType
  <2>3. PICK line \in Nat :
          /\ k \in Keys /\ Row(line) \in Nat
          /\ valueLines' = With(valueLines, k, line)
          /\ lastValueLine' \in {lastValueLine, lastValueLine + 1}
          /\ \/ rows' = rows
             \/ rows' = With(rows, Row(line), <<k, values[k].data>>)
    BY <1>8, ValueFacts
  <2>4. <<k, values[k].data>> \in OnScreen
    BY <2>3 DEF OnScreen, TypeOK, Entry
  <2>5. MapOf(With(rows, Row(line), <<k, values[k].data>>), Nat, OnScreen)
    BY <1>3, <2>3, <2>4, WithMap
  <2>6. MapOf(With(valueLines, k, line), Keys, Nat)
    BY <1>3, <2>3, WithMap
  <2>7. lastValueLine' \in Nat
    BY <1>3, <2>3
  <2>8. MapOf(rows', Nat, OnScreen) /\ MapOf(valueLines', Keys, Nat)
    BY <1>3, <2>3, <2>5, <2>6
  <2>9. QED
    BY <1>2, <2>1, <2>2, <2>7, <2>8 DEF history
<1>9. QED
  BY <1>4, <1>5, <1>6, <1>7, <1>8

\* A step that leaves the dumper's refnums alone keeps them owned.
LEMMA OwnedStay ==
  ASSUME TypeOK, DumperInv, [Next]_vars, newTags' \subseteq newTags,
         DOMAIN lines' \subseteq DOMAIN lines
  PROVE  TagsAreOwned'
<1>1. \A tag \in newTags \cup DOMAIN lines : tag[1] \in 0 .. TagLimit - 1
  BY DEF DumperInv, PollType, ScreenType, MapOf, Refnums
<1>2. \A i \in Interfaces : ifTag[i] # Absent => ifTag'[i] = ifTag[i]
  BY TagsStay DEF DumperInv
<1>3. QED
  BY <1>1, <1>2 DEF DumperInv, TagsAreOwned, Absent

LEMMA DumperStep == ASSUME TypeOK, DumperInv, [DumperNext]_allVars PROVE DumperInv'
<1>1. [Next]_vars
  BY DatabaseStep
<1>2. FramesAreTagged'
  BY <1>1, TagsStay DEF DumperInv
<1>3. ASSUME PollType', ScreenType', newTags' \subseteq newTags, DOMAIN lines' \subseteq DOMAIN lines
      PROVE  DumperInv'
  BY <1>1, <1>2, <1>3, OwnedStay DEF DumperInv
<1>4. CASE Saves \/ BeginCommand \/ UNCHANGED allVars
  <2>1. UNCHANGED dumperVars
    BY <1>4 DEF Saves, BeginCommand, allVars
  <2>2. PollType'
    BY <2>1 DEF dumperVars, settings, etags, query, poll, history, DumperInv, PollType
  <2>3. ScreenType' /\ UNCHANGED <<newTags, lines>>
    BY <2>1, ScreenStays DEF dumperVars, poll, screen, frameLines, history, DumperInv
  <2>4. QED
    BY <1>3, <2>2, <2>3
<1>5. CASE DumperRuns
  <2>1. CASE Poll
    BY <1>2, <2>1, PollKeeps DEF DumperInv
  <2>2. CASE \E tag \in newTags : DrawFrame(tag)
    BY <1>2, <2>2, DrawKeeps DEF DumperInv
  <2>3. CASE \/ FramesDrawn \/ AllValueKeys \/ ValuesUpdateSinceEtag \/ EndPoll
             \/ \E k \in newKeys : DrawValue(k)
    BY <1>3, <2>3, RestKeeps DEF frameLines
  <2>4. QED
    BY <1>5, <2>1, <2>2, <2>3 DEF DumperRuns
<1>6. CASE ClearAssignment
  <2>1. CASE StartDumper
    <3>1. ScreenType' /\ DOMAIN lines' = {}
      BY <2>1, ScreenClears DEF StartDumper
    <3>2. PollType' /\ newTags' = newTags
      BY <2>1 DEF StartDumper, poll, query, DumperPC, DumperInv, PollType
    <3>3. QED
      BY <1>3, <3>1, <3>2
  <2>2. CASE ~StartDumper
    <3>1. /\ UNCHANGED <<settings, dumper, lastmode, etags, poll, screen, linesBefore>>
          /\ polled' \in {0, polled}
      BY <1>6, <2>2 DEF ClearAssignment
    <3>2. PollType'
      BY <3>1 DEF settings, etags, query, poll, DumperInv, PollType
    <3>3. ScreenType' /\ UNCHANGED <<newTags, lines>>
      BY <3>1, ScreenStays DEF poll, screen, frameLines, DumperInv
    <3>4. QED
      BY <1>3, <3>2, <3>3
  <2>3. QED
    BY <2>1, <2>2
<1>7. CASE StopDumper \/ \E m \in Modes : SetDumpMode(m)
  <2>1. UNCHANGED <<ifName, dumper, lastmode, etags, poll, screen, history>>
    BY <1>7 DEF StopDumper, SetDumpMode
  <2>2. running' \in BOOLEAN /\ mode' \in AllModes
    BY <1>7, ModesAssumption DEF StopDumper, SetDumpMode, DumperInv, PollType
  <2>3. PollType'
    BY <2>1, <2>2 DEF etags, query, poll, history, DumperInv, PollType
  <2>4. ScreenType' /\ UNCHANGED <<newTags, lines>>
    BY <2>1, ScreenStays DEF poll, screen, frameLines, history, DumperInv
  <2>5. QED
    BY <1>3, <2>3, <2>4
<1>8. QED
  BY <1>4, <1>5, <1>6, <1>7 DEF DumperNext

LEMMA DumperInvariant == DumperSpec => []DumperInv
<1>1. DumperSpecInit => DumperInv
  <2> SUFFICES ASSUME DumperSpecInit PROVE DumperInv
    OBVIOUS
  <2>1. ScreenType /\ DOMAIN lines = {}
    BY NothingMap DEF DumperSpecInit, DumperInit, ScreenType
  <2>2. PollType
    BY DEF DumperSpecInit, DumperInit, PollType, AllModes, DumperPC
  <2>3. TagsAreOwned
    BY <2>1 DEF DumperSpecInit, DumperInit, TagsAreOwned
  <2>4. FramesAreTagged
    BY DEF DumperSpecInit, Init, NoFrames, NoEntry, FramesAreTagged, Present
  <2>5. QED
    BY <2>1, <2>2, <2>3, <2>4 DEF DumperInv
<1>2. DumperSpec => []TypeOK
  BY DumperKeepsDatabase, TypeCorrect, PTL
<1>3. QED
  BY <1>1, <1>2, DumperStep, PTL DEF DumperSpec

\* Type correctness of the dumper.
THEOREM DumperTypeCorrect == DumperSpec => []DumperTypeOK
<1>1. DumperInv => DumperTypeOK
  BY TypesAre DEF DumperInv
<1>2. QED
  BY <1>1, DumperInvariant, PTL

\* A refnum the dumper holds, or has a line for, names exactly one interface,
\* however many come in the meantime within what an ifTag can count.
THEOREM RefnumsStayResolved == DumperSpec => []RefnumsResolve
<1>1. TypeOK /\ DumperInv /\ RefnumsUnique => RefnumsResolve
  <2> SUFFICES ASSUME TypeOK, DumperInv, RefnumsUnique, Cardinality(Interfaces) <= TagLimit,
                      NEW tag \in newTags \cup DOMAIN lines
               PROVE  Cardinality(Owners(tag)) = 1
    BY DEF RefnumsResolve
  <2>1. PICK i \in Interfaces : ifTag[i] = tag[1]
    BY DEF DumperInv, TagsAreOwned
  <2>2. ifTag[i] # Absent
    BY <2>1 DEF DumperInv, PollType, ScreenType, MapOf, Refnums, Absent
  <2>3. Owners(tag) = {i}
    BY <2>1, <2>2 DEF Owners, RefnumsUnique
  <2>4. QED
    BY <2>3, FS_Singleton
<1>2. DumperSpec => []TypeOK /\ []RefnumsUnique
  BY DumperKeepsDatabase, TypeCorrect, RefnumsNameOne, PTL
<1>3. QED
  BY <1>1, <1>2, DumperInvariant, PTL

-----------------------------------------------------------------------------
(* The screen mirrors the database.                                        *)

\* Drawing is the only step that writes a row, and it looks the cell up.
LEMMA DrawShows ==
  ASSUME DumperInv, NEW tag \in newTags, DrawFrame(tag)
  PROVE  [ScreenMirror!MirrorNext]_<<Database, rows>>
<1>1. UNCHANGED dbVars
  BY DrawFacts
<1>2. PICK i \in Interfaces :
        /\ <<i, tag[2]>> \in FrameCells
        /\ \/ Present(i, tag[2]) /\ PutFrame(tag, <<i, tag[2]>>, frames[i][tag[2]].data)
           \/ ~Present(i, tag[2]) /\ UNCHANGED <<frameLines, rows>>
  BY DrawFacts
<1>3. Database' = Database
  BY <1>1 DEF dbVars, vars, Database
<1>4. CASE UNCHANGED rows
  BY <1>3, <1>4
<1>5. CASE Present(i, tag[2]) /\ PutFrame(tag, <<i, tag[2]>>, frames[i][tag[2]].data)
  <2> DEFINE cell == <<i, tag[2]>>
  <2>1. Database[cell] = frames[i][tag[2]].data /\ Database[cell] # None
    BY <1>2, <1>5 DEF Database, Present
  <2>2. PICK row : rows' = With(rows, row, <<cell, Database[cell]>>)
    BY <1>5, <2>1 DEF PutFrame
  <2>3. row \in DOMAIN rows'
    BY <2>2 DEF With
  <2>4. ScreenMirror!Draw(row, cell)
    BY <1>3, <2>1, <2>2 DEF ScreenMirror!Draw, With
  <2>5. QED
    BY <1>2, <2>3, <2>4 DEF ScreenMirror!MirrorNext
<1>6. QED
  BY <1>2, <1>4, <1>5

LEMMA ValueShows ==
  ASSUME TypeOK, DumperInv, NEW k \in newKeys, DrawValue(k)
  PROVE  [ScreenMirror!MirrorNext]_<<Database, rows>>
<1>1. Database' = Database
  BY DEF DrawValue, dbVars, vars, Database
<1>2. PICK line \in Nat :
        /\ k \in Keys
        /\ \/ rows' = rows
           \/ values[k].data # None /\ rows' = With(rows, Row(line), <<k, values[k].data>>)
  BY ValueFacts
<1>3. CASE rows' = rows
  BY <1>1, <1>3
<1>4. CASE values[k].data # None /\ rows' = With(rows, Row(line), <<k, values[k].data>>)
  <2>1. k \notin FrameCells
    BY <1>2, CellsAssumption DEF FrameCells
  <2>2. Database[k] = values[k].data
    BY <1>2, <2>1 DEF Database
  <2>3. Row(line) \in DOMAIN rows'
    BY <1>4 DEF With
  <2>4. ScreenMirror!Draw(Row(line), k)
    BY <1>1, <1>4, <2>2 DEF ScreenMirror!Draw, With
  <2>5. QED
    BY <1>2, <2>3, <2>4 DEF ScreenMirror!MirrorNext
<1>5. QED
  BY <1>2, <1>3, <1>4

LEMMA ErasesOne ==
  ASSUME DumperInv, UNCHANGED dbVars, NEW row, rows' = rows \/ rows' = Without(rows, row)
  PROVE  [ScreenMirror!MirrorNext]_<<Database, rows>>
<1>1. Database' = Database
  BY DEF dbVars, vars, Database
<1>2. CASE row \in DOMAIN rows /\ rows' = Without(rows, row)
  BY <1>1, <1>2 DEF Without, ScreenMirror!Erase, ScreenMirror!MirrorNext
<1>3. CASE row \notin DOMAIN rows \/ rows' = rows
  <2>1. rows' = rows
    BY <1>3, WithoutMap DEF DumperInv, ScreenType
  <2>2. QED
    BY <1>1, <2>1
<1>4. QED
  BY <1>2, <1>3

LEMMA MirrorStep ==
  ASSUME TypeOK, TypeOK', DumperInv, [DumperNext]_allVars
  PROVE  [ScreenMirror!MirrorNext]_<<Database, rows>>
<1>1. ASSUME UNCHANGED rows
      PROVE  [ScreenMirror!MirrorNext]_<<Database, rows>>
  <2>1. Database' \in [FrameCells \cup Keys -> Payloads \cup {None}]
    <3>1. ASSUME NEW c \in FrameCells PROVE frames'[c[1]][c[2]].data \in Payloads \cup {None}
      BY <3>1 DEF FrameCells, TypeOK, Entry
    <3>2. ASSUME NEW k \in Keys PROVE values'[k].data \in Payloads \cup {None}
      BY <3>2 DEF TypeOK, Entry
    <3>3. QED
      BY <3>1, <3>2 DEF Database
  <2>2. QED
    BY <1>1, <2>1 DEF ScreenMirror!Change, ScreenMirror!MirrorNext
<1>2. ASSUME ClearScreen, UNCHANGED <<frames, values>>
      PROVE  [ScreenMirror!MirrorNext]_<<Database, rows>>
  <2>1. Database' = Database /\ DOMAIN rows' = {}
    BY <1>2 DEF Database, ClearScreen, Nothing
  <2>2. QED
    BY <2>1 DEF ScreenMirror!Clear, ScreenMirror!MirrorNext
<1>3. CASE DumperRuns
  <2>1. CASE Poll
    BY <1>1, <1>2, <2>1 DEF Poll, screen, dbVars, vars
  <2>2. CASE \E tag \in newTags : DrawFrame(tag)
    BY <2>2, DrawShows
  <2>3. CASE \E k \in newKeys : DrawValue(k)
    BY <2>3, ValueShows
  <2>4. CASE FramesDrawn
    BY <2>4, ErasesOne DEF FramesDrawn
  <2>5. CASE EndPoll
    BY <2>5, ErasesOne DEF EndPoll, PrintHeaderLine
  <2>6. CASE AllValueKeys \/ ValuesUpdateSinceEtag
    BY <1>1, <2>6 DEF AllValueKeys, ValuesUpdateSinceEtag, screen
  <2>7. QED
    BY <1>3, <2>1, <2>2, <2>3, <2>4, <2>5, <2>6 DEF DumperRuns
<1>4. CASE ClearAssignment
  <2>1. CASE clearing \in {StartEnds, ScriptEnds}
    <3>1. StartDumper /\ ClearScript[clearing] = "valueEtag"
      BY <1>4, <2>1 DEF ClearAssignment, StartEnds, ScriptEnds, ClearScript
    <3>2. ResetValueEtag
      BY <1>4, <3>1 DEF ClearAssignment, ClearTheFrames, ClearTheValues, ResetEtag, StepClear
    <3>3. QED
      BY <1>2, <3>1, <3>2 DEF StartDumper, ResetValueEtag
  <2>2. CASE clearing \notin {StartEnds, ScriptEnds}
    BY <1>1, <1>4, <2>2 DEF ClearAssignment, screen
  <2>3. QED
    BY <2>1, <2>2
<1>5. CASE \/ Saves \/ BeginCommand \/ StopDumper \/ UNCHANGED allVars
           \/ \E m \in Modes : SetDumpMode(m)
  BY <1>1, <1>5 DEF Saves, BeginCommand, StopDumper, SetDumpMode, allVars, dumperVars, screen
<1>6. QED
  BY <1>3, <1>4, <1>5 DEF DumperNext

\* The dumper implements the mirror: for any constants and every interleaving of
\* polls, saves and clears, a row is drawn only with a cell and what the database
\* holds of it, and a step draws or erases one row, or clears them all.
THEOREM ScreenMirrored == DumperSpec => ScreenIsMirror
<1>1. DumperSpecInit => ScreenMirror!MirrorInit
  BY DEF DumperSpecInit, DumperInit, Init, ScreenMirror!MirrorInit,
         Database, NoFrames, NoValues, NoEntry, FrameCells, Nothing
<1>2. DumperSpec => []TypeOK
  BY DumperKeepsDatabase, TypeCorrect, PTL
<1>3. QED
  BY <1>1, <1>2, MirrorStep, DumperInvariant, PTL
     DEF DumperSpec, ScreenIsMirror, ScreenMirror!MirrorSpec, ScreenMirror!mirror

-----------------------------------------------------------------------------
(* Where lines are.                                                        *)

\* Each refnum has a line of its own, below _lastFrameLine.
LinesApart ==
  /\ linesBefore <= lastFrameLine
  /\ \A t \in DOMAIN lines : lines[t] < lastFrameLine
  /\ \A t, u \in DOMAIN lines : lines[t] = lines[u] => t = u

\* A refnum still to be drawn has no line given in this poll; a line is given only
\* by a poll that had refnums, so that the values are drawn again after it.
LinesOfPoll ==
  /\ dumper = "frames" => \A t \in newTags : t \in DOMAIN lines => lines[t] < linesBefore
  /\ dumper = "frames" /\ newTags # {} => anyTags
  /\ dumper \in {"frames", "drawn"} /\ addedLines => anyTags

\* When frames and values are shown, the values have their lines below the frames',
\* but between the drawing of new frames and the redrawing of the values.
ValuesBelow ==
  /\ lastmode = "both" /\ lastFrameLine > 0
  /\ dumper \in {"frames", "drawn", "updated"} => ~addedLines
  => /\ lastValueLine > lastFrameLine + TopOffset
     /\ \A k \in DOMAIN valueLines : valueLines[k] > lastFrameLine + TopOffset

\* A poll is drawn in the mode it was made in.
OneMode == dumper \notin {"off", "idle"} => mode = lastmode

\* Values are drawn in a mode that shows them.
ValuesInMode == dumper \in {"updated", "values"} => ShowsValues(lastmode)

LineInv == LinesApart /\ LinesOfPoll /\ ValuesBelow /\ OneMode /\ ValuesInMode

LEMMA LinesStay ==
  ASSUME LineInv, OneMode',
         UNCHANGED <<dumper, lastmode, newTags, anyTags, frameLines, valueRows, linesBefore>>
  PROVE  LineInv'
<1>1. UNCHANGED <<lines, lastFrameLine, valueLines, lastValueLine>>
  BY DEF frameLines, valueRows
<1>2. (addedLines' <=> addedLines) /\ LinesApart'
  BY <1>1 DEF addedLines, LineInv, LinesApart
<1>3. LinesOfPoll'
  BY <1>1, <1>2 DEF LineInv, LinesOfPoll
<1>4. ValuesBelow'
  BY <1>1, <1>2 DEF LineInv, ValuesBelow
<1>5. ValuesInMode'
  BY DEF LineInv, ValuesInMode
<1>6. QED
  BY <1>2, <1>3, <1>4, <1>5 DEF LineInv

LEMMA DrawLines ==
  ASSUME DumperInv, LineInv, NEW tag \in newTags, DrawFrame(tag)
  PROVE  LineInv'
<1>1. /\ UNCHANGED <<mode, dumper, lastmode, anyTags, valueRows, linesBefore>>
      /\ dumper = "frames" /\ newTags' = newTags \ {tag} /\ tag \in Refnums
  BY DrawFacts DEF settings, query, history
<1>2. OneMode' /\ ValuesInMode' /\ anyTags
  BY <1>1 DEF LineInv, OneMode, ValuesInMode, LinesOfPoll
<1>3. CASE UNCHANGED frameLines
  <2>1. UNCHANGED <<lines, lastFrameLine, valueLines, lastValueLine>>
    BY <1>1, <1>3 DEF frameLines, valueRows
  <2>2. (addedLines' <=> addedLines) /\ LinesApart'
    BY <1>1, <2>1 DEF addedLines, LineInv, LinesApart
  <2>3. LinesOfPoll'
    BY <1>1, <1>2, <2>1, <2>2 DEF LineInv, LinesOfPoll
  <2>4. ValuesBelow'
    BY <1>1, <2>1, <2>2 DEF LineInv, ValuesBelow
  <2>5. QED
    BY <1>2, <2>2, <2>3, <2>4 DEF LineInv
<1>4. CASE /\ tag \notin DOMAIN lines
           /\ lines' = With(lines, tag, lastFrameLine) /\ lastFrameLine' = lastFrameLine + 1
  <2>1. lastFrameLine \in Nat /\ linesBefore \in Nat /\ MapOf(lines, Refnums, Nat)
    BY DEF DumperInv, ScreenType
  <2>2. /\ DOMAIN lines' = DOMAIN lines \cup {tag} /\ lines'[tag] = lastFrameLine
        /\ \A t \in DOMAIN lines : lines'[t] = lines[t] /\ lines[t] \in Nat
    BY <1>4, <2>1 DEF With, MapOf
  <2>3. LinesApart'
    BY <1>1, <1>4, <2>1, <2>2 DEF LineInv, LinesApart
  <2>4. addedLines'
    BY <1>1, <1>4, <2>1 DEF addedLines, LineInv, LinesApart
  <2>5. LinesOfPoll' /\ ValuesBelow'
    BY <1>1, <1>2, <2>2, <2>4 DEF LineInv, LinesOfPoll, ValuesBelow
  <2>6. QED
    BY <1>2, <2>3, <2>5 DEF LineInv
<1>5. QED
  <2>1. UNCHANGED frameLines \/ /\ tag \notin DOMAIN lines
                                /\ lines' = With(lines, tag, lastFrameLine)
                                /\ lastFrameLine' = lastFrameLine + 1
    BY DrawFacts DEF PutFrame
  <2>2. QED
    BY <1>3, <1>4, <2>1

LEMMA PollLines ==
  ASSUME DumperInv, LineInv, Poll
  PROVE  LineInv'
<1>1. /\ dumper = "idle" /\ dumper' = "frames" /\ lastmode' = mode /\ mode' = mode
      /\ newTags' # {} => anyTags'
      /\ \/ ClearScreen
         \/ lastmode = mode /\ UNCHANGED screen /\ linesBefore' = lastFrameLine
  BY DEF Poll, settings
<1>2. lastFrameLine \in Nat
  BY DEF DumperInv, ScreenType
<1>3. CASE ClearScreen
  <2>1. lastFrameLine' = 0 /\ linesBefore' = 0 /\ DOMAIN lines' = {}
    BY <1>3, NothingMap DEF ClearScreen
  <2>2. LinesApart' /\ LinesOfPoll' /\ ValuesBelow'
    BY <1>1, <2>1 DEF LinesApart, LinesOfPoll, ValuesBelow, addedLines
  <2>3. QED
    BY <1>1, <2>2 DEF LineInv, OneMode, ValuesInMode
<1>4. CASE lastmode = mode /\ UNCHANGED screen /\ linesBefore' = lastFrameLine
  <2>1. UNCHANGED <<lines, lastFrameLine, valueLines, lastValueLine>> /\ ~addedLines'
    BY <1>2, <1>4 DEF screen, frameLines, valueRows, addedLines
  <2>2. LinesApart'
    BY <1>2, <1>4, <2>1 DEF LineInv, LinesApart
  <2>3. LinesOfPoll'
    BY <1>1, <1>4, <2>1 DEF LineInv, LinesApart, LinesOfPoll
  <2>4. ValuesBelow'
    BY <1>1, <1>4, <2>1 DEF LineInv, ValuesBelow
  <2>5. QED
    BY <1>1, <2>2, <2>3, <2>4 DEF LineInv, OneMode, ValuesInMode
<1>5. QED
  BY <1>1, <1>3, <1>4

LEMMA ValueLines ==
  ASSUME TypeOK, DumperInv, LineInv, NEW k \in newKeys, DrawValue(k)
  PROVE  LineInv'
<1>1. /\ UNCHANGED <<mode, dumper, lastmode, newTags, anyTags, frameLines, linesBefore>>
      /\ dumper = "values"
  BY DEF DrawValue, settings, query, history
<1>2. PICK line \in Nat :
        /\ k \in Keys /\ (line = lastValueLine \/ \E l \in DOMAIN valueLines : line = valueLines[l])
        /\ valueLines' = With(valueLines, k, line)
        /\ lastValueLine' \in {lastValueLine, lastValueLine + 1}
  BY ValueFacts
<1>3. lastFrameLine \in Nat /\ lastValueLine \in Nat /\ MapOf(valueLines, Keys, Nat)
  BY DEF DumperInv, ScreenType
<1>4. ASSUME NEW l \in DOMAIN valueLines'
      PROVE  valueLines'[l] = line \/ (l \in DOMAIN valueLines /\ valueLines'[l] = valueLines[l])
  BY <1>2, <1>4 DEF With
<1>5. UNCHANGED <<lines, lastFrameLine>>
  BY <1>1 DEF frameLines
<1>6. ValuesBelow'
  <2> DEFINE floor == lastFrameLine + TopOffset
  <2>1. SUFFICES ASSUME lastmode = "both", lastFrameLine > 0
                 PROVE  /\ lastValueLine' > floor
                        /\ \A l \in DOMAIN valueLines' : valueLines'[l] > floor
    BY <1>1, <1>5 DEF ValuesBelow
  <2>2. floor \in Nat
    BY <1>3 DEF TopOffset
  <2>3. lastValueLine > floor /\ \A l \in DOMAIN valueLines : valueLines[l] > floor
    BY <1>1, <2>1 DEF LineInv, ValuesBelow
  <2> HIDE DEF floor
  <2>4. line > floor
    BY <1>2, <2>3
  <2>5. lastValueLine' > floor
    BY <1>2, <1>3, <2>2, <2>3
  <2>6. QED
    BY <1>4, <2>3, <2>4, <2>5
<1>7. LinesApart' /\ LinesOfPoll'
  BY <1>1, <1>5 DEF LineInv, LinesApart, LinesOfPoll
<1>8. QED
  BY <1>1, <1>6, <1>7 DEF LineInv, OneMode, ValuesInMode

LEMMA RestLines ==
  ASSUME DumperInv, LineInv, FramesDrawn \/ AllValueKeys \/ ValuesUpdateSinceEtag \/ EndPoll
  PROVE  LineInv'
<1>1. /\ UNCHANGED <<mode, lastmode, frameLines, linesBefore>> /\ dumper' # "frames"
      /\ dumper' \notin {"off", "idle"} => dumper \notin {"off", "idle"}
      /\ dumper' = "drawn" => dumper = "frames" /\ anyTags' = anyTags
  BY DEF FramesDrawn, AllValueKeys, ValuesUpdateSinceEtag, EndPoll, settings, screen, history, poll,
         query
<1>2. UNCHANGED <<lines, lastFrameLine>> /\ (addedLines' <=> addedLines)
  BY <1>1 DEF frameLines, addedLines
<1>3. LinesApart' /\ LinesOfPoll' /\ OneMode'
  BY <1>1, <1>2 DEF LineInv, LinesApart, LinesOfPoll, OneMode
<1>4. ASSUME UNCHANGED valueRows,
             lastmode = "both" /\ addedLines' =>
               \/ dumper' \in {"frames", "drawn", "updated"}
               \/ dumper \notin {"frames", "drawn", "updated"}
      PROVE  ValuesBelow'
  BY <1>1, <1>2, <1>4 DEF valueRows, LineInv, ValuesBelow
<1>5. CASE FramesDrawn
  <2>1. dumper' = "drawn" /\ UNCHANGED valueRows
    BY <1>5 DEF FramesDrawn
  <2>2. QED
    BY <1>3, <1>4, <2>1 DEF LineInv, ValuesInMode
<1>6. CASE AllValueKeys
  <2>1. dumper = "drawn" /\ dumper' = "updated" /\ UNCHANGED valueRows /\ ShowsValues(mode)
    BY <1>6 DEF AllValueKeys, screen, ValuesToo
  <2>2. ValuesInMode'
    BY <1>1, <2>1 DEF LineInv, OneMode, ValuesInMode, ShowsValues
  <2>3. QED
    BY <1>3, <1>4, <2>1, <2>2 DEF LineInv
<1>7. CASE ValuesUpdateSinceEtag
  <2>1. ValuesInMode'
    BY <1>1, <1>7 DEF ValuesUpdateSinceEtag, LineInv, ValuesInMode, ShowsValues
  <2>2. CASE UNCHANGED valueRows /\ ~RedrawAll
    BY <1>2, <1>3, <1>4, <2>1, <2>2 DEF RedrawAll, LineInv
  <2>3. CASE valueLines' = Nothing /\ lastValueLine' = lastFrameLine + TopOffset + 1
    <3>1. lastFrameLine \in Nat /\ DOMAIN valueLines' = {}
      BY <2>3, NothingMap DEF DumperInv, ScreenType
    <3>2. ValuesBelow'
      BY <1>2, <2>3, <3>1 DEF ValuesBelow, TopOffset
    <3>3. QED
      BY <1>3, <2>1, <3>2 DEF LineInv
  <2>4. QED
    BY <1>7, <2>2, <2>3 DEF ValuesUpdateSinceEtag
<1>8. CASE EndPoll
  <2>1. /\ dumper' \in {"off", "idle"} /\ UNCHANGED valueRows
        /\ dumper = "values" \/ (dumper = "drawn" /\ ~ValuesToo)
    BY <1>8 DEF EndPoll
  <2>2. lastmode = "both" /\ dumper = "drawn" => ~addedLines
    BY <2>1 DEF ValuesToo, ShowsValues, LineInv, OneMode, LinesOfPoll
  <2>3. ValuesBelow'
    BY <1>2, <1>4, <2>1, <2>2
  <2>4. QED
    BY <1>3, <2>1, <2>3 DEF LineInv, ValuesInMode
<1>9. QED
  BY <1>5, <1>6, <1>7, <1>8

LEMMA LineStep ==
  ASSUME TypeOK, DumperInv, LineInv, [DumperNext]_allVars PROVE LineInv'
<1>1. CASE DumperRuns
  BY <1>1, PollLines, DrawLines, ValueLines, RestLines DEF DumperRuns
<1>2. CASE ClearAssignment
  <2>1. CASE StartDumper
    <3>1. ClearScreen /\ dumper' = "idle"
      BY <2>1 DEF StartDumper
    <3>2. lastFrameLine' = 0 /\ linesBefore' = 0 /\ DOMAIN lines' = {}
      BY <3>1, NothingMap DEF ClearScreen
    <3>3. QED
      BY <3>1, <3>2 DEF LineInv, LinesApart, LinesOfPoll, ValuesBelow, OneMode, ValuesInMode
  <2>2. CASE ~StartDumper
    <3>1. UNCHANGED <<settings, dumper, lastmode, poll, screen, linesBefore>>
      BY <1>2, <2>2 DEF ClearAssignment
    <3>2. QED
      BY <3>1, LinesStay DEF settings, poll, query, screen, LineInv, OneMode
  <2>3. QED
    BY <2>1, <2>2
<1>3. CASE Saves \/ BeginCommand \/ UNCHANGED allVars
  <2>1. UNCHANGED dumperVars
    BY <1>3 DEF Saves, BeginCommand, allVars
  <2>2. QED
    BY <2>1, LinesStay DEF dumperVars, settings, poll, query, screen, history, LineInv, OneMode
<1>4. CASE StopDumper \/ \E m \in Modes : SetDumpMode(m)
  <2>1. /\ UNCHANGED <<dumper, lastmode, poll, screen, history>>
        /\ mode' = mode \/ dumper \in {"off", "idle"}
    BY <1>4 DEF StopDumper, SetDumpMode
  <2>2. QED
    BY <2>1, LinesStay DEF poll, query, screen, history, LineInv, OneMode
<1>5. QED
  BY <1>1, <1>2, <1>3, <1>4 DEF DumperNext

LEMMA LineInvariant == DumperSpec => []LineInv
<1>1. DumperSpecInit => LineInv
  <2> SUFFICES ASSUME DumperSpecInit PROVE LineInv
    OBVIOUS
  <2>1. /\ lastFrameLine = 0 /\ linesBefore = 0 /\ DOMAIN lines = {}
        /\ dumper = "off"
    BY NothingMap DEF DumperSpecInit, DumperInit
  <2>2. QED
    BY <2>1 DEF LineInv, LinesApart, LinesOfPoll, ValuesBelow, OneMode, ValuesInMode
<1>2. DumperSpec => []TypeOK
  BY DumperKeepsDatabase, TypeCorrect, PTL
<1>3. QED
  BY <1>1, <1>2, LineStep, DumperInvariant, PTL DEF DumperSpec

-----------------------------------------------------------------------------
(* The screen follows the polls.                                           *)

\* The row a frame with a line was last drawn on: a line given in the last poll was
\* drawn one row further down.
Tag(f) == makeFrameTag(f[1], f[2])
RowOf(tag) == lines[tag] + TopOffset + (IF lines[tag] < linesBefore THEN 0 ELSE 1)

\* A frame that was due in the last poll; it stands on its row as it now is; its
\* refnum is still to be drawn; or its row has been erased.
Due(f)     == Wanted(f) /\ Here(f) /\ EtagOf(f) <= polled
Current(f) == Tag(f) \in DOMAIN lines /\ Shows(RowOf(Tag(f)), f, DataOf(f))
Pending(f) == dumper = "frames" /\ Tag(f) \in newTags
Erased(f)  == dumper # "frames" /\ LastAdded(f)

\* The strengthening that is inductive: a frame that was due is drawn or its refnum
\* is still to be drawn, or it was the last added.  What is saved later comes after
\* the poll, for the counter never falls below it.
Counted  == polled <= lastEtag /\ \A f \in All : Here(f) => EtagOf(f) >= 1
Followed == ShowsFrames(lastmode) => \A f \in All : Due(f) => Current(f) \/ Pending(f) \/ Erased(f)
FollowInv == Counted /\ Followed

LEMMA RowsAre ==
  ASSUME ScreenType, LineInv, NEW tag \in DOMAIN lines
  PROVE  /\ lines[tag] \in Nat /\ lines[tag] < lastFrameLine
         /\ linesBefore \in Nat /\ lastFrameLine \in Nat /\ linesBefore <= lastFrameLine
         /\ RowOf(tag) = IF lines[tag] < linesBefore THEN lines[tag] + 3 ELSE lines[tag] + 4
         /\ RowOf(tag) \in Nat /\ RowOf(tag) > 1 /\ RowOf(tag) <= lastFrameLine + 3
BY DEF ScreenType, MapOf, LineInv, LinesApart, RowOf, TopOffset

\* A step outside the dumper's: each frame is as it was, has gone, or has an eTag
\* beyond the poll.
LEMMA OutsidePoll ==
  ASSUME FollowInv, polled' \in Nat, polled' <= polled, polled' <= lastEtag',
         \A f \in All : Here(f)' =>
            \/ EtagOf(f)' >= 1 /\ ~(EtagOf(f)' <= polled')
            \/ /\ Here(f) /\ EtagOf(f)' = EtagOf(f) /\ EtagOf(f) \in Nat
               /\ DataOf(f)' = DataOf(f) /\ ifTag'[f[1]] = ifTag[f[1]],
         polled \in Nat,
         UNCHANGED <<ifName, dumper, lastmode, newTags, frameLines, linesBefore, rows>>
  PROVE  FollowInv'
<1>1. Counted'
  BY DEF FollowInv, Counted
<1>2. ASSUME NEW f \in All, ShowsFrames(lastmode), Due(f)'
      PROVE  Current(f)' \/ Pending(f)' \/ Erased(f)'
  <2>1. /\ Here(f) /\ EtagOf(f)' = EtagOf(f) /\ EtagOf(f) \in Nat
        /\ DataOf(f)' = DataOf(f) /\ ifTag'[f[1]] = ifTag[f[1]]
    BY <1>2 DEF Due
  <2>2. Due(f)
    BY <1>2, <2>1 DEF Due, Wanted
  <2>3. Current(f) \/ Pending(f) \/ Erased(f)
    BY <1>2, <2>2 DEF FollowInv, Followed
  <2>4. Tag(f)' = Tag(f)
    BY <2>1 DEF Tag, makeFrameTag
  <2>5. (Current(f) => Current(f)') /\ (Pending(f) => Pending(f)')
    BY <2>1, <2>4 DEF Current, Pending, RowOf, Shows, frameLines
  <2>6. Erased(f) => Erased(f)'
    BY <2>4 DEF Erased, LastAdded, Tag, addedLines, frameLines
  <2>7. QED
    BY <2>3, <2>5, <2>6
<1>3. Followed'
  BY <1>2 DEF Followed
<1>4. QED
  BY <1>1, <1>3 DEF FollowInv

LEMMA StoredType == ASSUME TypeOK, NEW f \in All PROVE EtagOf(f) \in Nat
BY DEF TypeOK, Entry, EtagOf, All

\* A save stores at an eTag beyond the counter, so beyond the poll.
LEMMA SavesFollow ==
  ASSUME TypeOK, DumperInv, FollowInv, Saves
  PROVE  FollowInv'
<1>1. UNCHANGED <<ifName, dumper, lastmode, newTags, frameLines, linesBefore, rows, polled>>
  BY DEF Saves, dumperVars, settings, poll, screen, history
<1>2. polled \in Nat /\ lastEtag \in Nat /\ polled <= lastEtag
  BY DEF DumperInv, PollType, TypeOK, FollowInv, Counted
<1>3. \A f \in All : Here(f) => ifTag'[f[1]] = ifTag[f[1]]
  <2>1. \A i \in Interfaces : ifTag[i] # Absent => ifTag'[i] = ifTag[i]
    BY TagsStay DEF Saves, Next, DumperInv
  <2>2. QED
    BY <2>1 DEF All, Here, DumperInv, FramesAreTagged
<1>4. CASE UNCHANGED frames /\ lastEtag' \in {lastEtag, lastEtag + 1}
  <2>1. \A f \in All : Here(f)' => /\ Here(f) /\ EtagOf(f)' = EtagOf(f) /\ EtagOf(f) \in Nat
                                   /\ DataOf(f)' = DataOf(f)
    BY <1>4, StoredType DEF Here, Present, EtagOf, DataOf
  <2>2. polled' \in Nat /\ polled' <= polled /\ polled' <= lastEtag'
    BY <1>1, <1>2, <1>4
  <2>3. QED
    BY <1>1, <1>2, <1>3, <2>1, <2>2, OutsidePoll
<1>5. ASSUME NEW i \in Interfaces, NEW c \in CanIds, NEW x \in Payloads,
             StoreChange(i, c, x), lastEtag' = lastEtag + 1
      PROVE  FollowInv'
  <2>1. ASSUME NEW f \in All
        PROVE  IF f = <<i, c>>
                 THEN EtagOf(f)' = lastEtag + 1
                 ELSE /\ Here(f)' = Here(f) /\ EtagOf(f)' = EtagOf(f) /\ EtagOf(f) \in Nat
                      /\ DataOf(f)' = DataOf(f)
    BY <1>5, StoredEntries, StoredType
  <2>2. polled' \in Nat /\ polled' <= polled /\ polled' <= lastEtag'
    BY <1>1, <1>2, <1>5
  <2>3. lastEtag + 1 >= 1 /\ ~(lastEtag + 1 <= polled')
    BY <1>1, <1>2
  <2>4. QED
    BY <1>1, <1>2, <1>3, <2>1, <2>2, <2>3, OutsidePoll
<1>6. QED
  BY <1>4, <1>5 DEF Saves, SaveFrame, RegisterProtocol

\* A clear empties frames or leaves them, and takes the poll back with the counter;
\* a new dumper has polled nothing.
LEMMA ClearsFollow ==
  ASSUME TypeOK, TypeOK', DumperInv, FollowInv, ClearAssignment
  PROVE  FollowInv'
<1>1. polled \in Nat /\ lastEtag \in Nat /\ lastEtag' \in Nat /\ polled <= lastEtag
  BY DEF DumperInv, PollType, TypeOK, FollowInv, Counted
<1>2. /\ ifTag' = ifTag
      /\ frames' = frames \/ frames' = NoFrames
      /\ \/ lastEtag' = lastEtag
         \/ ClearScript[clearing] = "etag"
  BY DEF ClearAssignment, ClearTheFrames, ClearTheValues, ResetEtag, ResetValueEtag, StepClear,
         interfaces
<1>3. \A f \in All : Here(f)' => /\ Here(f) /\ EtagOf(f)' = EtagOf(f) /\ EtagOf(f) \in Nat
                                 /\ DataOf(f)' = DataOf(f)
  BY <1>2, StoredType DEF Here, Present, EtagOf, DataOf, NoFrames, NoEntry, All
<1>4. CASE StartDumper
  <2>1. polled' = 0
    BY <1>4 DEF StartDumper
  <2>2. \A f \in All : Here(f)' => EtagOf(f)' >= 1 /\ EtagOf(f)' \in Nat
    BY <1>3 DEF FollowInv, Counted
  <2>3. Counted' /\ \A f \in All : ~Due(f)'
    BY <1>1, <2>1, <2>2 DEF Counted, Due
  <2>4. QED
    BY <2>1, <2>3 DEF FollowInv, Followed
<1>5. CASE ~StartDumper
  <2>1. /\ UNCHANGED <<ifName, dumper, lastmode, newTags, frameLines, linesBefore, rows>>
        /\ polled' = IF ClearScript[clearing] = "etag" THEN 0 ELSE polled
    BY <1>5 DEF ClearAssignment, settings, poll, screen
  <2>2. polled' \in Nat /\ polled' <= polled /\ polled' <= lastEtag'
    BY <1>1, <1>2, <2>1
  <2>3. QED
    BY <1>1, <1>2, <1>3, <2>1, <2>2, OutsidePoll
<1>6. QED
  BY <1>4, <1>5

\* A poll takes along the refnum of every frame that is due by it.
LEMMA PollFollows ==
  ASSUME TypeOK, DumperInv, FollowInv, Poll
  PROVE  FollowInv'
<1> DEFINE since == IF ~running \/ lastmode # mode THEN 0 ELSE dumperEtag
<1>1. /\ newTags' = {makeFrameTag(f[1], f[2]) : f \in {g \in FramesUpdateSinceEtag(since) : Wanted(g)}}
      /\ polled' = Least(since, lastEtag) /\ lastmode' = mode /\ dumper' = "frames"
      /\ UNCHANGED <<mode, ifName, frames, ifTag, lastEtag>>
  BY DEF Poll, dbVars, vars, interfaces, settings
<1>2. since \in Nat /\ lastEtag \in Nat
  BY DEF DumperInv, PollType, TypeOK
<1> HIDE DEF since
<1>3. polled' \in Nat /\ polled' <= since /\ polled' <= lastEtag
  BY <1>1, <1>2 DEF Least
<1>4. Counted'
  BY <1>1, <1>3 DEF FollowInv, Counted, Here, Present, EtagOf
<1>5. ASSUME NEW f \in All, Due(f)'
      PROVE  Pending(f)'
  <2>1. Wanted(f) /\ Here(f) /\ EtagOf(f) <= polled' /\ EtagOf(f) \in Nat
    BY <1>1, <1>5, StoredType DEF Due, Wanted, Here, Present, EtagOf
  <2>2. EtagOf(f) <= since
    BY <1>2, <1>3, <2>1
  <2>3. f \in FramesUpdateSinceEtag(since)
    BY <2>1, <2>2 DEF FramesUpdateSinceEtag, All, Here, EtagOf
  <2>4. QED
    BY <1>1, <2>1, <2>3 DEF Pending, Tag, makeFrameTag
<1>6. QED
  BY <1>4, <1>5 DEF FollowInv, Followed

\* A refnum that is taken off the list was the frame's own, and the frame is drawn on
\* a row on which no other stands.
LEMMA DrawFollows ==
  ASSUME TypeOK, DumperInv, LineInv, RefnumsUnique, Cardinality(Interfaces) <= TagLimit, FollowInv,
         NEW tag \in newTags, DrawFrame(tag)
  PROVE  FollowInv'
<1>1. /\ newTags' = newTags \ {tag} /\ dumper = "frames" /\ tag \in Refnums
      /\ UNCHANGED <<ifName, dumper, lastmode, polled, linesBefore, frames, ifTag, lastEtag>>
  BY DrawFacts DEF dbVars, vars, interfaces, settings, history
<1>2. PICK i \in Interfaces :
        /\ ifTag[i] = tag[1] /\ <<i, tag[2]>> \in FrameCells
        /\ \/ Present(i, tag[2]) /\ PutFrame(tag, <<i, tag[2]>>, frames[i][tag[2]].data)
           \/ ~Present(i, tag[2]) /\ UNCHANGED <<frameLines, rows>>
  BY DrawFacts
<1> DEFINE drawn == <<i, tag[2]>>
<1>3. Counted'
  BY <1>1 DEF FollowInv, Counted, Here, Present, EtagOf
<1>4. \A f \in All : (Due(f)' <=> Due(f)) /\ Tag(f)' = Tag(f) /\ DataOf(f)' = DataOf(f)
  BY <1>1 DEF Due, Wanted, Here, Present, EtagOf, Tag, makeFrameTag, DataOf
<1>5. drawn \in All /\ Tag(drawn) = tag
  BY <1>1, <1>2 DEF All, FrameCells, Tag, makeFrameTag, Refnums
<1>6. ASSUME NEW f \in All, f # drawn PROVE Tag(f) # tag
  <2>1. ASSUME Tag(f) = tag PROVE FALSE
    <3>1. ifTag[f[1]] = ifTag[i] /\ ifTag[i] # Absent /\ f[2] = tag[2]
      BY <1>1, <1>2, <2>1 DEF Tag, makeFrameTag, Absent, Refnums
    <3>2. f[1] = i
      BY <1>2, <3>1 DEF RefnumsUnique, All
    <3>3. QED
      BY <1>6, <3>1, <3>2 DEF All
  <2>2. QED
    BY <2>1
<1>7. MapOf(lines, Refnums, Nat) /\ MapOf(rows, Nat, OnScreen) /\ ScreenType
      /\ lastFrameLine \in Nat /\ linesBefore \in Nat /\ linesBefore <= lastFrameLine
  BY DEF DumperInv, ScreenType, LineInv, LinesApart
<1> HIDE DEF drawn
<1>8. CASE ~Present(i, tag[2]) /\ UNCHANGED <<frameLines, rows>>
  <2>1. ~Due(drawn)
    BY <1>8 DEF drawn, Due, Here
  <2>2. ASSUME NEW f \in All, ShowsFrames(lastmode), Due(f)
        PROVE  Current(f)' \/ Pending(f)'
    <3>1. Tag(f) # tag /\ (Current(f) \/ Pending(f))
      BY <1>1, <1>6, <2>1, <2>2 DEF FollowInv, Followed, Erased
    <3>2. QED
      BY <1>1, <1>4, <1>8, <3>1 DEF Current, Pending, RowOf, Shows, frameLines
  <2>3. QED
    BY <1>1, <1>3, <1>4, <2>2 DEF FollowInv, Followed
<1>9. ASSUME NEW row \in Nat, NEW x, x = DataOf(drawn), Present(i, tag[2]),
             rows' = With(rows, row, <<drawn, x>>), tag \in DOMAIN lines', RowOf(tag)' = row,
             \A t \in DOMAIN lines :
               t # tag => t \in DOMAIN lines' /\ RowOf(t)' = RowOf(t) /\ RowOf(t) # row
      PROVE  FollowInv'
  <2>1. x \in Payloads \cup {None} /\ <<drawn, x>> \in OnScreen
    BY <1>5, <1>9 DEF OnScreen, DataOf, All, FrameCells, TypeOK, Entry
  <2>2. /\ DOMAIN rows' = DOMAIN rows \cup {row} /\ rows'[row] = <<drawn, x>>
        /\ \A r \in DOMAIN rows : r # row => rows'[r] = rows[r]
    BY <1>9 DEF With
  <2>3. Current(drawn)'
    BY <1>4, <1>5, <1>9, <2>2 DEF Current, Shows
  <2>4. ASSUME NEW f \in All, ShowsFrames(lastmode), Due(f)
        PROVE  Current(f)' \/ Pending(f)'
    <3>1. CASE f = drawn
      BY <2>3, <3>1
    <3>2. CASE f # drawn
      <4>1. Tag(f) # tag /\ (Current(f) \/ Pending(f))
        BY <1>1, <1>6, <2>4, <3>2 DEF FollowInv, Followed, Erased
      <4>2. Pending(f) => Pending(f)'
        BY <1>1, <1>4, <4>1 DEF Pending
      <4>3. Current(f) => Current(f)'
        BY <1>4, <1>9, <2>2, <4>1 DEF Current, Shows
      <4>4. QED
        BY <4>1, <4>2, <4>3
    <3>3. QED
      BY <3>1, <3>2
  <2>5. QED
    BY <1>1, <1>3, <1>4, <2>4 DEF FollowInv, Followed
<1>10. CASE /\ Present(i, tag[2]) /\ tag \in DOMAIN lines /\ UNCHANGED frameLines
            /\ rows' = With(rows, lines[tag] + TopOffset, <<drawn, DataOf(drawn)>>)
  <2>1. lines[tag] \in Nat /\ lines[tag] < linesBefore
    BY <1>1, <1>7, <1>10 DEF MapOf, LineInv, LinesOfPoll
  <2>2. \A t \in DOMAIN lines : RowOf(t)' = RowOf(t)
    BY <1>1, <1>10 DEF RowOf, frameLines
  <2>3. RowOf(tag) = lines[tag] + TopOffset /\ lines[tag] + TopOffset \in Nat
    BY <2>1 DEF RowOf, TopOffset
  <2>4. ASSUME NEW t \in DOMAIN lines, t # tag PROVE RowOf(t) # RowOf(tag)
    <3>1. lines[t] # lines[tag]
      BY <1>10, <2>4 DEF LineInv, LinesApart
    <3>2. lines[t] \in Nat
      BY <1>7 DEF MapOf
    <3>3. QED
      BY <1>7, <2>1, <3>1, <3>2 DEF RowOf, TopOffset
  <2>5. QED
    BY <1>9, <1>10, <2>2, <2>3, <2>4 DEF frameLines
<1>11. CASE /\ Present(i, tag[2]) /\ tag \notin DOMAIN lines
            /\ lines' = With(lines, tag, lastFrameLine) /\ lastFrameLine' = lastFrameLine + 1
            /\ rows' = With(rows, lastFrameLine + 1 + TopOffset, <<drawn, DataOf(drawn)>>)
  <2>1. /\ DOMAIN lines' = DOMAIN lines \cup {tag} /\ lines'[tag] = lastFrameLine
        /\ \A t \in DOMAIN lines : lines'[t] = lines[t]
    BY <1>11 DEF With
  <2>2. RowOf(tag)' = lastFrameLine + 1 + TopOffset /\ lastFrameLine + 1 + TopOffset \in Nat
    BY <1>1, <1>7, <2>1 DEF RowOf, TopOffset
  <2>3. ASSUME NEW t \in DOMAIN lines, t # tag
        PROVE  RowOf(t)' = RowOf(t) /\ RowOf(t) # lastFrameLine + 1 + TopOffset
    <3>1. RowOf(t)' = RowOf(t)
      BY <1>1, <2>1 DEF RowOf
    <3>2. RowOf(t) \in Nat /\ RowOf(t) <= lastFrameLine + 3
      BY <1>7, RowsAre
    <3>3. QED
      BY <1>7, <3>1, <3>2 DEF TopOffset
  <2>4. QED
    BY <1>9, <1>11, <2>1, <2>2, <2>3
<1>12. QED
  <2>1. drawn = <<i, tag[2]>> /\ DataOf(drawn) = frames[i][tag[2]].data
    BY DEF drawn, DataOf
  <2>2. QED
    BY <1>2, <1>8, <1>10, <1>11, <2>1 DEF PutFrame

\* With no refnum left to draw a poll goes on, to erase the row of the last line added,
\* to draw the values below the frames' rows, and to draw the header above them.
LEMMA RestFollows ==
  ASSUME TypeOK, DumperInv, LineInv, FollowInv,
         \/ FramesDrawn \/ AllValueKeys \/ ValuesUpdateSinceEtag \/ EndPoll
         \/ \E k \in newKeys : DrawValue(k)
  PROVE  FollowInv'
<1>1. /\ UNCHANGED <<ifName, lastmode, polled, linesBefore, frameLines, frames, ifTag, lastEtag>>
      /\ dumper' # "frames"
      /\ dumper = "frames" => FramesDrawn
  BY DEF FramesDrawn, AllValueKeys, ValuesUpdateSinceEtag, EndPoll, DrawValue, dbVars, vars,
         interfaces, settings, screen, history
<1>2. Counted'
  BY <1>1 DEF FollowInv, Counted, Here, Present, EtagOf
<1>3. \A f \in All : /\ Due(f)' <=> Due(f)
                     /\ Tag(f)' = Tag(f) /\ DataOf(f)' = DataOf(f)
                     /\ LastAdded(f)' <=> LastAdded(f)
  BY <1>1 DEF Due, Wanted, Here, Present, EtagOf, Tag, makeFrameTag, DataOf, LastAdded, addedLines,
              frameLines
<1>4. \A t : RowOf(t)' = RowOf(t)
  BY <1>1 DEF RowOf, frameLines
<1>5. MapOf(rows, Nat, OnScreen) /\ ScreenType
  BY DEF DumperInv, ScreenType
<1>6. ASSUME NEW f \in All, ShowsFrames(lastmode), Due(f)
      PROVE  Current(f) \/ LastAdded(f)
  <2>1. ~Pending(f)
    BY <1>1, <1>6 DEF FramesDrawn, Pending, LineInv, OneMode
  <2>2. QED
    BY <1>6, <2>1 DEF FollowInv, Followed, Erased
<1>7. ASSUME \A f \in All : ShowsFrames(lastmode) /\ Current(f) /\ ~LastAdded(f) =>
               /\ RowOf(Tag(f)) \in DOMAIN rows' /\ rows'[RowOf(Tag(f))] = rows[RowOf(Tag(f))]
      PROVE  FollowInv'
  <2>1. ASSUME NEW f \in All, ShowsFrames(lastmode), Due(f) PROVE Current(f)' \/ Erased(f)'
    <3>1. CASE LastAdded(f)
      BY <1>1, <1>3, <3>1 DEF Erased
    <3>2. CASE Current(f) /\ ~LastAdded(f)
      BY <1>1, <1>3, <1>4, <1>7, <2>1, <3>2 DEF Current, Shows, frameLines
    <3>3. QED
      BY <1>6, <2>1, <3>1, <3>2
  <2>2. QED
    BY <1>1, <1>2, <1>3, <2>1 DEF FollowInv, Followed
<1>8. CASE rows' = rows
  BY <1>7, <1>8 DEF Current, Shows
<1>9. CASE FramesDrawn
  <2>1. CASE addedLines
    <3>1. rows' = Without(rows, lastFrameLine + TopOffset)
      BY <1>9, <2>1 DEF FramesDrawn
    <3>2. ASSUME NEW f \in All, Current(f), ~LastAdded(f)
          PROVE  RowOf(Tag(f)) \in DOMAIN rows \ {lastFrameLine + TopOffset}
      <4>1. Tag(f) \in DOMAIN lines /\ RowOf(Tag(f)) \in DOMAIN rows
        BY <3>2 DEF Current, Shows
      <4>2. lines[Tag(f)] # lastFrameLine - 1
        BY <2>1, <3>2, <4>1 DEF LastAdded, Tag
      <4>3. RowOf(Tag(f)) # lastFrameLine + TopOffset
        BY <1>5, <2>1, <4>1, <4>2, RowsAre DEF addedLines, TopOffset
      <4>4. QED
        BY <4>1, <4>3
    <3>3. QED
      BY <1>7, <3>1, <3>2 DEF Without
  <2>2. QED
    BY <1>8, <1>9, <2>1 DEF FramesDrawn
<1>10. ASSUME NEW k \in newKeys, DrawValue(k) PROVE FollowInv'
  <2>1. PICK line \in Nat :
          /\ k \in Keys /\ (line = lastValueLine \/ \E l \in DOMAIN valueLines : line = valueLines[l])
          /\ Row(line) \in Nat /\ (line > 0 => Row(line) = line)
          /\ \/ rows' = rows
             \/ rows' = With(rows, Row(line), <<k, values[k].data>>)
    BY <1>10, ValueFacts
  <2>3. /\ Row(line) \in DOMAIN With(rows, Row(line), <<k, values[k].data>>)
        /\ \A r \in DOMAIN rows : r # Row(line) =>
             /\ r \in DOMAIN With(rows, Row(line), <<k, values[k].data>>)
             /\ With(rows, Row(line), <<k, values[k].data>>)[r] = rows[r]
    BY DEF With
  <2>4. ASSUME NEW f \in All, ShowsFrames(lastmode), Current(f)
        PROVE  RowOf(Tag(f)) \in DOMAIN rows /\ RowOf(Tag(f)) # Row(line)
    <3>1. Tag(f) \in DOMAIN lines /\ RowOf(Tag(f)) \in DOMAIN rows
      BY <2>4 DEF Current, Shows
    <3>2. /\ lastFrameLine \in Nat /\ lastFrameLine > 0
          /\ RowOf(Tag(f)) \in Nat /\ RowOf(Tag(f)) <= lastFrameLine + 3
      BY <1>5, <3>1, RowsAre
    <3>3. lastmode = "both"
      BY <1>10, <2>4 DEF LineInv, ValuesInMode, DrawValue, ShowsFrames, ShowsValues
    <3>4. line > lastFrameLine + 3
      BY <1>10, <2>1, <3>2, <3>3 DEF DrawValue, LineInv, ValuesBelow, TopOffset
    <3>5. QED
      BY <2>1, <3>1, <3>2, <3>4
  <2>5. QED
    BY <1>7, <1>8, <2>1, <2>3, <2>4
<1>11. CASE EndPoll
  <2>1. (rows' = rows \/ rows' = Without(rows, HeaderRow))
    BY <1>11 DEF EndPoll, PrintHeaderLine
  <2>2. ASSUME NEW f \in All, Current(f)
        PROVE  RowOf(Tag(f)) \in DOMAIN rows \ {HeaderRow}
    BY <1>5, <2>2, RowsAre DEF Current, Shows, HeaderRow, Row
  <2>3. QED
    BY <1>7, <1>8, <2>1, <2>2 DEF Without
<1>12. QED
  BY <1>8, <1>9, <1>10, <1>11 DEF AllValueKeys, ValuesUpdateSinceEtag, screen

LEMMA FollowStep ==
  ASSUME TypeOK, TypeOK', DumperInv, LineInv, RefnumsUnique, Cardinality(Interfaces) <= TagLimit,
         FollowInv, [DumperNext]_allVars
  PROVE  FollowInv'
<1>1. ASSUME UNCHANGED <<frames, ifTag, lastEtag, ifName, dumper, lastmode, newTags, frameLines,
                         rows, history>>
      PROVE  FollowInv'
  <2>1. \A f \in All : /\ Due(f)' <=> Due(f)
                       /\ Current(f)' <=> Current(f)
                       /\ Pending(f)' <=> Pending(f)
                       /\ Erased(f)' <=> Erased(f)
    BY <1>1 DEF Due, Wanted, Here, Present, EtagOf, Current, Pending, Erased, LastAdded, addedLines,
                Tag, makeFrameTag, RowOf, Shows, DataOf, frameLines, history
  <2>2. Counted'
    BY <1>1 DEF FollowInv, Counted, Here, Present, EtagOf, history
  <2>3. QED
    BY <1>1, <2>1, <2>2 DEF FollowInv, Followed
<1>2. CASE DumperRuns
  BY <1>2, PollFollows, DrawFollows, RestFollows DEF DumperRuns
<1>3. CASE StopDumper \/ \E m \in Modes : SetDumpMode(m)
  BY <1>1, <1>3 DEF StopDumper, SetDumpMode, poll, screen, dbVars, vars, interfaces
<1>4. CASE BeginCommand
  BY <1>1, <1>4 DEF BeginCommand, BeginClear, interfaces, dumperVars, settings, poll, screen
<1>5. CASE UNCHANGED allVars
  BY <1>1, <1>5 DEF allVars, dbVars, vars, interfaces, dumperVars, settings, poll, screen
<1>6. QED
  BY <1>2, <1>3, <1>4, <1>5, SavesFollow, ClearsFollow DEF DumperNext

\* Between two polls a row of the screen shows the current payload of every frame that
\* was due in the last one, but for the last that it gave a line, whatever was saved and
\* cleared while it was drawn; as long as an ifTag can count the interfaces, so that a
\* refnum draws the frame it names.
THEOREM ScreenFollows ==
  Cardinality(Interfaces) <= TagLimit => (DumperSpec => []ScreenFollowsPoll)
<1> SUFFICES ASSUME Cardinality(Interfaces) <= TagLimit PROVE DumperSpec => []ScreenFollowsPoll
  OBVIOUS
<1>1. DumperSpecInit => FollowInv
  BY DEF DumperSpecInit, Init, DumperInit, NoFrames, NoEntry, FollowInv, Counted, Followed, Due, Here,
         Present, All
<1>2. DumperSpec => []TypeOK /\ []RefnumsUnique
  BY DumperKeepsDatabase, TypeCorrect, RefnumsNameOne, PTL
<1>3. FollowInv => ScreenFollowsPoll
  BY DEF FollowInv, Followed, ScreenFollowsPoll, Due, Pending, Current, Erased, Shows, Here, EtagOf,
         DataOf, All, FrameCells
<1>4. TypeOK /\ TypeOK' /\ DumperInv /\ LineInv /\ RefnumsUnique /\ FollowInv /\ [DumperNext]_allVars
        => FollowInv'
  BY FollowStep
<1>5. QED
  BY <1>1, <1>2, <1>3, <1>4, DumperInvariant, LineInvariant, PTL DEF DumperSpec
=============================================================================
