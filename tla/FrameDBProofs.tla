--------------------------- MODULE FrameDBProofs ---------------------------
(* What holds of the frame database for any interfaces, CAN ids, payloads, *)
(* protocols and values, and for every interleaving of saves and clears.   *)
EXTENDS FrameDB, FiniteSetTheorems, TLAPS

-----------------------------------------------------------------------------
(* Typing.                                                                 *)

\* Decoded values are values of the schema.
LEMMA DecodedKeys ==
  ASSUME TypeOK, NEW i \in Interfaces, NEW c \in CanIds
  PROVE  Decoded(i, c) \subseteq Keys
<1>1. ASSUME NEW p \in protocols[i] PROVE KeyOf[<<p, c>>] \in Keys \cup {None}
  <2>1. <<p, c>> \in Protocols \X CanIds
    BY <1>1 DEF TypeOK
  <2>2. QED
    BY <2>1, KeyOfAssumption
<1>2. QED
  BY <1>1 DEF Decoded

\* Telling the protocols gives every decoded value the payload, under a counter
\* that stays a number, and leaves the other values alone.
LEMMA UpdateValuesEffect ==
  ASSUME TypeOK, NEW keys \in SUBSET Keys, NEW x \in Payloads, UpdateValues(keys, x)
  PROVE  /\ values' \in [Keys -> Entry] /\ lastValueEtag' \in Nat
         /\ \A k \in keys : values'[k].data = x
         /\ \A k \in Keys \ keys : values'[k] = values[k]
<1> DEFINE changed == {k \in keys : values[k].data # x}
<1>1. IsFiniteSet(changed)
  BY KeysAssumption, FS_Subset
<1>2. Cardinality(changed) \in Nat
  BY <1>1, FS_CardinalityType
<1>3. PICK number \in [changed -> lastValueEtag .. lastValueEtag + Cardinality(changed) - 1] :
        /\ values' = [k \in Keys |->
                        IF k \in changed THEN [data |-> x, eTag |-> number[k]] ELSE values[k]]
        /\ lastValueEtag' = lastValueEtag + Cardinality(changed)
  BY Zenon DEF UpdateValues
<1>4. \A k \in changed : number[k] \in Nat
  BY <1>2, <1>3 DEF TypeOK
<1> HIDE DEF changed
<1>5. \A k \in changed : [data |-> x, eTag |-> number[k]] \in Entry
  BY <1>4 DEF Entry
<1>6. values' \in [Keys -> Entry]
  BY <1>3, <1>5 DEF TypeOK
<1>7. \A k \in keys : values'[k].data = x
  BY <1>3 DEF changed
<1>8. \A k \in Keys \ keys : values'[k] = values[k]
  BY <1>3 DEF changed
<1>9. lastValueEtag' \in Nat
  BY <1>2, <1>3 DEF TypeOK
<1>10. QED
  BY <1>6, <1>7, <1>8, <1>9

\* A new interface gets a tag within ifTag_t.
LEMMA CreateInterfaceType ==
  ASSUME TypeOK, NEW i \in Interfaces, CreateInterface(i)
  PROVE  /\ ifTag' \in [Interfaces -> (0 .. TagLimit - 1) \cup {Absent}]
         /\ lastInterfaceTag' \in 0 .. TagLimit - 1
<1>1. (lastInterfaceTag + 1) % TagLimit \in 0 .. TagLimit - 1
  <2>1. lastInterfaceTag + 1 \in Int /\ TagLimit \in Nat \ {0}
    BY TagLimitAssumption DEF TypeOK
  <2>2. QED
    BY <2>1, SMT
<1>2. QED
  BY <1>1 DEF CreateInterface, TypeOK

\* A step of the clearing script ends inside it.
LEMMA StepClearType ==
  ASSUME TypeOK, NEW assignment, StepClear(assignment)
  PROVE  clearing' \in 0 .. ScriptEnds
BY DEF StepClear, TypeOK, StartEnds, SniffStart, ScriptEnds

\* Every step leaves the database well typed.
LEMMA TypeStep == ASSUME TypeOK, [Next]_vars PROVE TypeOK'
<1>1. ASSUME NEW i \in Interfaces, NEW p \in Protocols, RegisterProtocol(i, p)
      PROVE  TypeOK'
  BY <1>1, CreateInterfaceType DEF RegisterProtocol, TypeOK
<1>2. ASSUME NEW i \in Interfaces, NEW c \in CanIds, NEW x \in Payloads, SaveFrame(i, c, x)
      PROVE  TypeOK'
  <2>1. /\ ifTag' \in [Interfaces -> (0 .. TagLimit - 1) \cup {Absent}]
        /\ lastInterfaceTag' \in 0 .. TagLimit - 1
    BY <1>2, CreateInterfaceType DEF SaveFrame
  <2>2. lastEtag' \in Nat /\ UNCHANGED <<toRegister, protocols, clearing>>
    BY <1>2 DEF SaveFrame, TypeOK
  <2>3. CASE StoreChange(i, c, x)
    <3>1. [data |-> x, eTag |-> lastEtag + 1] \in Entry
      BY DEF Entry, TypeOK
    <3>2. frames' \in [Interfaces -> [CanIds -> Entry]] /\ racy' \subseteq Interfaces \X CanIds
      BY <2>3, <3>1 DEF StoreChange, TypeOK
    <3>3. values' \in [Keys -> Entry] /\ lastValueEtag' \in Nat
      BY <2>3, UpdateValuesEffect, DecodedKeys DEF StoreChange, TypeOK
    <3>4. QED
      BY <2>1, <2>2, <3>2, <3>3 DEF TypeOK
  <2>4. CASE UNCHANGED <<frames, values, lastValueEtag, racy>>
    BY <2>1, <2>2, <2>4 DEF TypeOK
  <2>5. QED
    BY <1>2, <2>3, <2>4 DEF SaveFrame
<1>3. ASSUME Clear PROVE TypeOK'
  <2> USE DEF TypeOK, interfaces
  <2>1. CASE BeginClear
    BY <2>1 DEF BeginClear, ReadStart, SniffStart, ScriptEnds
  <2>2. CASE ClearTheFrames
    <3>1. NoFrames \in [Interfaces -> [CanIds -> Entry]]
      BY DEF NoFrames, NoEntry, Entry
    <3>2. QED
      BY <2>2, <3>1, StepClearType DEF ClearTheFrames
  <2>3. CASE ClearTheValues
    <3>1. NoValues \in [Keys -> Entry]
      BY DEF NoValues, NoEntry, Entry
    <3>2. QED
      BY <2>3, <3>1, StepClearType DEF ClearTheValues
  <2>4. CASE ResetEtag
    BY <2>4, StepClearType DEF ResetEtag
  <2>5. CASE ResetValueEtag
    BY <2>5, StepClearType DEF ResetValueEtag
  <2>6. QED
    BY <1>3, <2>1, <2>2, <2>3, <2>4, <2>5 DEF Clear
<1>4. CASE UNCHANGED vars
  BY <1>4 DEF vars, interfaces, TypeOK
<1>5. QED
  BY <1>1, <1>2, <1>3, <1>4 DEF Next

LEMMA TypeInit == Init => TypeOK
<1>1. NoFrames \in [Interfaces -> [CanIds -> Entry]] /\ NoValues \in [Keys -> Entry]
  BY DEF NoFrames, NoValues, NoEntry, Entry
<1>2. QED
  BY <1>1, TagLimitAssumption DEF Init, TypeOK, Absent, ScriptEnds

\* Type correctness of the frame database.
THEOREM TypeCorrect == Spec => []TypeOK
BY TypeInit, TypeStep, PTL DEF Spec

-----------------------------------------------------------------------------
(* Refnums.                                                                *)

Known == {i \in Interfaces : ifTag[i] # Absent}

\* The interfaces seen so far, fewer than ifTag_t can count, hold the tags below
\* _lastInterfaceTag, each one once.
TagsInv ==
  Cardinality(Interfaces) <= TagLimit =>
    /\ lastInterfaceTag = Cardinality(Known) % TagLimit
    /\ \A i \in Known : ifTag[i] \in 0 .. Cardinality(Known) - 1
    /\ \A i, j \in Known : ifTag[i] = ifTag[j] => i = j

\* A new interface gets the tag no other has.
LEMMA TagsCreate ==
  ASSUME TypeOK, TagsInv, NEW i \in Interfaces, CreateInterface(i)
  PROVE  TagsInv'
<1> SUFFICES ASSUME Cardinality(Interfaces) <= TagLimit
             PROVE  TagsInv'
  BY DEF TagsInv
<1>1. IsFiniteSet(Known) /\ Cardinality(Known) \in Nat
  BY InterfacesAssumption, FS_Subset, FS_CardinalityType DEF Known
<1>2. CASE ifTag[i] # Absent
  BY <1>2 DEF CreateInterface, TagsInv, Known
<1>3. CASE ifTag[i] = Absent
  <2>1. Known \cup {i} \subseteq Interfaces /\ i \notin Known
    BY <1>3 DEF Known
  <2>2. Cardinality(Known \cup {i}) = Cardinality(Known) + 1
    BY <1>1, <2>1, FS_AddElement
  <2>3. Cardinality(Known \cup {i}) <= Cardinality(Interfaces)
    BY <2>1, InterfacesAssumption, FS_Subset
  <2>4. /\ Cardinality(Interfaces) \in Nat
        /\ Cardinality(Known) + 1 <= TagLimit
    BY <1>1, <2>2, <2>3, InterfacesAssumption, FS_CardinalityType, TagLimitAssumption
  <2>5. lastInterfaceTag = Cardinality(Known)
    BY <1>1, <2>4, TagLimitAssumption DEF TagsInv
  <2>6. ifTag' = [ifTag EXCEPT ![i] = lastInterfaceTag]
        /\ lastInterfaceTag' = (lastInterfaceTag + 1) % TagLimit
    BY <1>3 DEF CreateInterface
  <2>7. Known' = Known \cup {i}
    <3>1. lastInterfaceTag # Absent
      BY DEF TypeOK, Absent
    <3>2. \A j \in Interfaces : ifTag'[j] = IF j = i THEN lastInterfaceTag ELSE ifTag[j]
      BY <2>6 DEF TypeOK
    <3>3. QED
      BY <3>1, <3>2 DEF Known
  <2>8. lastInterfaceTag' = Cardinality(Known') % TagLimit
    BY <2>2, <2>5, <2>6, <2>7
  <2>9. \A j \in Known' : ifTag'[j] \in 0 .. Cardinality(Known') - 1
    <3> TAKE j \in Known'
    <3>1. CASE j = i
      BY <1>1, <2>2, <2>5, <2>6, <2>7, <3>1 DEF TypeOK
    <3>2. CASE j # i
      BY <1>1, <2>2, <2>6, <2>7, <3>2 DEF TypeOK, TagsInv
    <3>3. QED
      BY <3>1, <3>2
  <2>10. \A j, k \in Known' : ifTag'[j] = ifTag'[k] => j = k
    BY <1>1, <2>1, <2>5, <2>6, <2>7 DEF TypeOK, TagsInv
  <2>11. QED
    BY <2>8, <2>9, <2>10 DEF TagsInv
<1>4. QED
  BY <1>2, <1>3

LEMMA TagsStep == ASSUME TypeOK, TagsInv, [Next]_vars PROVE TagsInv'
<1>1. ASSUME NEW i \in Interfaces, NEW p \in Protocols, RegisterProtocol(i, p)
      PROVE  TagsInv'
  BY <1>1, TagsCreate DEF RegisterProtocol
<1>2. ASSUME NEW i \in Interfaces, NEW c \in CanIds, NEW x \in Payloads, SaveFrame(i, c, x)
      PROVE  TagsInv'
  BY <1>2, TagsCreate DEF SaveFrame
<1>3. CASE Clear \/ UNCHANGED vars
  BY <1>3 DEF Clear, BeginClear, ClearTheFrames, ClearTheValues, ResetEtag, ResetValueEtag,
              interfaces, vars, TagsInv, Known
<1>4. QED
  BY <1>1, <1>2, <1>3 DEF Next

\* While no more interfaces appear than an ifTag can count, a refnum names one.
THEOREM RefnumsNameOne == Spec => []RefnumsUnique
<1>1. Init => TagsInv
  <2> SUFFICES ASSUME Init PROVE TagsInv
    OBVIOUS
  <2>1. Known = {}
    BY DEF Init, Known
  <2>2. QED
    BY <2>1, FS_EmptySet, TagLimitAssumption DEF Init, TagsInv
<1>2. TagsInv => RefnumsUnique
  BY DEF TagsInv, RefnumsUnique, Known
<1>3. QED
  BY <1>1, <1>2, TagsStep, TypeCorrect, PTL DEF Spec

-----------------------------------------------------------------------------
(* The counter and the values, whatever is saved inside a clear.           *)

Here(f) == Present(f[1], f[2])
EtagOf(f) == frames[f[1]][f[2]].eTag
DataOf(f) == frames[f[1]][f[2]].data
All == Interfaces \X CanIds

\* Where the console is past a frames.clear() and before the end of its script.
AfterFrames == (11 .. 19) \cup (23 .. 26)

\* The strengthening that is inductive: inside the tail of a clear every frame
\* present was saved there, so when the clear ends nothing is claimed of it; and
\* no frame comes before the last registerProtocol.
NothingEarly == toRegister # {} => clearing = 0 /\ \A f \in All : ~Here(f)
ClearsLeaveRacy == clearing \in AfterFrames => \A f \in All : Here(f) => f \in racy
StoreInv ==
  NothingEarly /\ ClearsLeaveRacy /\ EtagsBehindCounter /\ EtagsDistinct /\ ValuesFollowFrames

\* What storing a change does to each entry.
LEMMA StoredEntries ==
  ASSUME TypeOK, NEW i \in Interfaces, NEW c \in CanIds, NEW x \in Payloads,
         StoreChange(i, c, x), NEW f \in All
  PROVE  IF f = <<i, c>>
           THEN Here(f)' /\ EtagOf(f)' = lastEtag + 1 /\ DataOf(f)' = x
           ELSE Here(f)' = Here(f) /\ EtagOf(f)' = EtagOf(f) /\ DataOf(f)' = DataOf(f)
<1>1. frames' = [frames EXCEPT ![i][c] = [data |-> x, eTag |-> lastEtag + 1]]
  BY DEF StoreChange
<1>2. CASE f = <<i, c>>
  BY <1>1, <1>2, NoneAssumption DEF TypeOK, Here, Present, EtagOf, DataOf
<1>3. CASE f # <<i, c>>
  <2>1. PICK j \in Interfaces, d \in CanIds : f = <<j, d>> /\ (j # i \/ d # c)
    BY <1>3 DEF All
  <2>2. frames'[j][d] = frames[j][d]
    BY <1>1, <2>1 DEF TypeOK
  <2>3. QED
    BY <1>3, <2>1, <2>2 DEF Here, Present, EtagOf, DataOf
<1>4. QED
  BY <1>2, <1>3

\* A save that stores a change.
LEMMA SaveChangeStep ==
  ASSUME TypeOK, StoreInv, NEW i \in Interfaces, NEW c \in CanIds, NEW x \in Payloads,
         SaveFrame(i, c, x), StoreChange(i, c, x)
  PROVE  StoreInv'
<1> DEFINE g == <<i, c>>
<1>1. /\ toRegister = {} /\ toRegister' = {} /\ clearing' = clearing /\ protocols' = protocols
      /\ lastEtag' = lastEtag + 1 /\ lastEtag \in Nat
  BY DEF SaveFrame, TypeOK
<1>2. NothingEarly'
  BY <1>1 DEF NothingEarly
<1>3. ClearsLeaveRacy'
  <2>1. ASSUME clearing \in AfterFrames, NEW f \in All, Here(f)'
        PROVE  f \in racy'
    <3>1. racy' = racy \cup {g}
      BY <2>1 DEF StoreChange, AfterFrames
    <3>2. f = g \/ Here(f)
      BY <2>1, StoredEntries
    <3>3. QED
      BY <2>1, <3>1, <3>2 DEF StoreInv, ClearsLeaveRacy
  <2>2. QED
    BY <1>1, <2>1 DEF ClearsLeaveRacy, AfterFrames
<1>4. ASSUME clearing = 0
      PROVE  racy' = racy \ {g}
  BY <1>4 DEF StoreChange
<1>5. EtagsBehindCounter'
  <2>1. ASSUME clearing = 0, NEW f \in All, Here(f)', f \notin racy'
        PROVE  EtagOf(f)' \in 1 .. lastEtag'
    <3>1. CASE f = g
      BY <1>1, <3>1, StoredEntries
    <3>2. CASE f # g
      <4>1. Here(f) /\ f \notin racy /\ EtagOf(f)' = EtagOf(f)
        BY <1>4, <2>1, <3>2, StoredEntries
      <4>2. EtagOf(f) \in 1 .. lastEtag
        BY <2>1, <4>1 DEF StoreInv, EtagsBehindCounter, Here, EtagOf, All
      <4>3. QED
        BY <1>1, <4>1, <4>2
    <3>3. QED
      BY <3>1, <3>2
  <2>2. QED
    BY <1>1, <2>1 DEF EtagsBehindCounter, Here, EtagOf, All
<1>6. EtagsDistinct'
  <2>1. ASSUME clearing = 0, NEW f \in All, NEW h \in All, f \notin racy', h \notin racy',
               Here(f)', Here(h)', EtagOf(f)' = EtagOf(h)'
        PROVE  f = h
    <3>1. ASSUME NEW e \in All, e # g, e \notin racy', Here(e)'
          PROVE  Here(e) /\ e \notin racy /\ EtagOf(e)' = EtagOf(e) /\ EtagOf(e) \in 1 .. lastEtag
      <4>1. Here(e) /\ e \notin racy /\ EtagOf(e)' = EtagOf(e)
        BY <1>4, <2>1, <3>1, StoredEntries
      <4>2. QED
        BY <2>1, <4>1 DEF StoreInv, EtagsBehindCounter, Here, EtagOf, All
    <3>2. CASE f # g /\ h # g
      <4>1. EtagOf(f) = EtagOf(h) /\ f \in All \ racy /\ h \in All \ racy /\ Here(f) /\ Here(h)
        BY <2>1, <3>1, <3>2
      <4>2. QED
        BY <2>1, <4>1 DEF StoreInv, EtagsDistinct, Here, EtagOf, All
    <3>3. CASE f = g \/ h = g
      BY <1>1, <2>1, <3>1, <3>3, StoredEntries
    <3>4. QED
      BY <3>2, <3>3
  <2>2. QED
    BY <1>1, <2>1 DEF EtagsDistinct, Here, EtagOf, All
<1>7. ValuesFollowFrames'
  <2>1. ASSUME clearing = 0, NEW k \in Keys, NEW f \in All, f \notin racy',
               Sources(k) = {f}, Here(f)', DataOf(f)' # Empty
        PROVE  values'[k].data = DataOf(f)'
    <3>1. \A e \in All : k \in Decoded(e[1], e[2]) <=> e = f
      BY <2>1 DEF Sources, All
    <3>2. CASE f = g
      <4>1. k \in Decoded(i, c) /\ DataOf(f)' = x
        BY <3>1, <3>2, StoredEntries
      <4>2. UpdateValues(Decoded(i, c), x)
        BY <2>1, <4>1 DEF StoreChange
      <4>3. \A l \in Decoded(i, c) : values'[l].data = x
        BY <4>2, UpdateValuesEffect, DecodedKeys
      <4>4. QED
        BY <3>2, <4>1, <4>3
    <3>3. CASE f # g
      <4>1. Here(f) /\ f \notin racy /\ DataOf(f)' = DataOf(f)
        BY <1>4, <2>1, <3>3, StoredEntries
      <4>2. values[k].data = DataOf(f)
        BY <2>1, <4>1 DEF StoreInv, ValuesFollowFrames, Here, DataOf, All
      <4>3. k \notin Decoded(i, c)
        BY <3>1, <3>3 DEF All
      <4>4. values'[k] = values[k]
        BY <4>3, UpdateValuesEffect, DecodedKeys DEF StoreChange
      <4>5. QED
        BY <4>1, <4>2, <4>4
    <3>4. QED
      BY <3>2, <3>3
  <2>2. \A k \in Keys : Sources(k)' = Sources(k)
    BY <1>1 DEF Sources, Decoded
  <2>3. QED
    BY <1>1, <2>1, <2>2 DEF ValuesFollowFrames, Here, DataOf, All
<1>8. QED
  BY <1>2, <1>3, <1>5, <1>6, <1>7 DEF StoreInv

\* A database with no frame that claims anything satisfies every clause.
LEMMA AllRacy ==
  ASSUME \A f \in All : Here(f) => f \in racy
  PROVE  EtagsBehindCounter /\ EtagsDistinct /\ ValuesFollowFrames
BY DEF EtagsBehindCounter, EtagsDistinct, ValuesFollowFrames, Here, All

\* A step that touches neither frames nor values outside a clear: the counter may
\* only grow.
LEMMA KeepsStore ==
  ASSUME StoreInv, TypeOK, clearing = 0, clearing' = 0, toRegister' = toRegister,
         UNCHANGED <<protocols, frames, values, racy>>, lastEtag' \in {lastEtag, lastEtag + 1}
  PROVE  StoreInv'
<1>1. NothingEarly' /\ ClearsLeaveRacy'
  BY DEF StoreInv, NothingEarly, ClearsLeaveRacy, AfterFrames, Here, Present
<1>2. EtagsBehindCounter'
  <2>1. \A n \in 1 .. lastEtag : n \in 1 .. lastEtag'
    BY DEF TypeOK
  <2>2. QED
    BY <2>1 DEF StoreInv, EtagsBehindCounter, Present
<1>3. EtagsDistinct'
  BY DEF StoreInv, EtagsDistinct, Present
<1>4. ValuesFollowFrames'
  <2>1. \A k \in Keys : Sources(k)' = Sources(k)
    BY DEF Sources, Decoded
  <2>2. \A f \in All : Present(f[1], f[2])' = Present(f[1], f[2])
    BY DEF Present
  <2>3. QED
    BY <2>1, <2>2 DEF StoreInv, ValuesFollowFrames, All
<1>5. QED
  BY <1>1, <1>2, <1>3, <1>4 DEF StoreInv

\* A step of the script other than a frames.clear(), whether or not it ends the
\* script.
LEMMA ScriptStep ==
  ASSUME TypeOK, StoreInv, NEW assignment, assignment # "frames", StepClear(assignment),
         UNCHANGED <<toRegister, frames, racy>>
  PROVE  StoreInv'
<1>1. toRegister = {} /\ clearing \in 1 .. ScriptEnds
  BY DEF StoreInv, NothingEarly, StepClear, TypeOK
<1>2. NothingEarly'
  BY <1>1 DEF NothingEarly
<1>3. CASE clearing \in AfterFrames
  <2>1. \A f \in All : Here(f)' => f \in racy'
    BY <1>3 DEF StoreInv, ClearsLeaveRacy, Here, Present
  <2>2. EtagsBehindCounter' /\ EtagsDistinct' /\ ValuesFollowFrames'
    BY <2>1 DEF EtagsBehindCounter, EtagsDistinct, ValuesFollowFrames, Here, All
  <2>3. QED
    BY <1>2, <2>1, <2>2 DEF StoreInv, ClearsLeaveRacy
<1>4. CASE clearing \notin AfterFrames
  <2>1. clearing' \notin AfterFrames /\ clearing' # 0
    BY <1>1, <1>4 DEF StepClear, ClearScript, AfterFrames, StartEnds, SniffStart, ScriptEnds
  <2>2. QED
    BY <1>2, <2>1 DEF StoreInv, ClearsLeaveRacy, EtagsBehindCounter, EtagsDistinct, ValuesFollowFrames
<1>5. QED
  BY <1>3, <1>4

LEMMA ClearStep == ASSUME TypeOK, StoreInv, Clear PROVE StoreInv'
<1>1. CASE BeginClear
  <2>1. toRegister' = {} /\ clearing' \in {1, 20}
    BY <1>1 DEF BeginClear, interfaces, ReadStart, SniffStart
  <2>2. QED
    BY <2>1 DEF StoreInv, NothingEarly, ClearsLeaveRacy, AfterFrames,
                EtagsBehindCounter, EtagsDistinct, ValuesFollowFrames
<1>2. CASE ClearTheFrames
  <2>1. \A f \in All : ~Here(f)'
    BY <1>2 DEF ClearTheFrames, NoFrames, NoEntry, Here, Present, All
  <2>2. toRegister' = {}
    BY <1>2 DEF ClearTheFrames, StepClear, interfaces, StoreInv, NothingEarly
  <2>3. EtagsBehindCounter' /\ EtagsDistinct' /\ ValuesFollowFrames'
    BY <2>1 DEF EtagsBehindCounter, EtagsDistinct, ValuesFollowFrames, Here, All
  <2>4. QED
    BY <2>1, <2>2, <2>3 DEF StoreInv, NothingEarly, ClearsLeaveRacy
<1>3. CASE ClearTheValues
  BY <1>3, ScriptStep DEF ClearTheValues, interfaces
<1>4. CASE ResetEtag
  BY <1>4, ScriptStep DEF ResetEtag, interfaces
<1>5. CASE ResetValueEtag
  BY <1>5, ScriptStep DEF ResetValueEtag, interfaces
<1>6. QED
  BY <1>1, <1>2, <1>3, <1>4, <1>5 DEF Clear

LEMMA StoreStep == ASSUME TypeOK, StoreInv, [Next]_vars PROVE StoreInv'
<1>1. ASSUME NEW i \in Interfaces, NEW p \in Protocols, RegisterProtocol(i, p)
      PROVE  StoreInv'
  <2>1. clearing = 0 /\ \A f \in All : ~Here(f)
    BY <1>1 DEF RegisterProtocol, StoreInv, NothingEarly
  <2>2. clearing' = 0 /\ \A f \in All : ~Here(f)'
    BY <1>1, <2>1 DEF RegisterProtocol, Here, Present
  <2>3. EtagsBehindCounter' /\ EtagsDistinct' /\ ValuesFollowFrames'
    BY <2>2 DEF EtagsBehindCounter, EtagsDistinct, ValuesFollowFrames, Here, All
  <2>4. QED
    BY <2>2, <2>3 DEF StoreInv, NothingEarly, ClearsLeaveRacy, AfterFrames
<1>2. ASSUME NEW i \in Interfaces, NEW c \in CanIds, NEW x \in Payloads, SaveFrame(i, c, x)
      PROVE  StoreInv'
  <2>1. CASE StoreChange(i, c, x)
    BY <1>2, <2>1, SaveChangeStep
  <2>2. CASE UNCHANGED <<frames, values, lastValueEtag, racy>>
    <3>1. toRegister = {} /\ UNCHANGED <<toRegister, protocols, clearing>> /\ lastEtag' = lastEtag + 1
      BY <1>2 DEF SaveFrame
    <3>2. CASE clearing = 0
      BY <2>2, <3>1, <3>2, KeepsStore
    <3>3. CASE clearing # 0
      BY <2>2, <3>1, <3>3 DEF StoreInv, NothingEarly, ClearsLeaveRacy, Here, Present,
         EtagsBehindCounter, EtagsDistinct, ValuesFollowFrames
    <3>4. QED
      BY <3>2, <3>3
  <2>3. QED
    BY <1>2, <2>1, <2>2 DEF SaveFrame
<1>3. CASE UNCHANGED vars
  <2>1. CASE clearing = 0
    BY <1>3, <2>1, KeepsStore DEF vars, interfaces
  <2>2. CASE clearing # 0
    BY <1>3, <2>2 DEF vars, interfaces, StoreInv, NothingEarly, ClearsLeaveRacy, Here, Present,
       EtagsBehindCounter, EtagsDistinct, ValuesFollowFrames
  <2>3. QED
    BY <2>1, <2>2
<1>4. QED
  BY <1>1, <1>2, <1>3, ClearStep DEF Next

LEMMA StoreInvariant == Spec => []StoreInv
<1>1. Init => StoreInv
  <2> SUFFICES ASSUME Init PROVE StoreInv
    OBVIOUS
  <2>1. \A f \in All : ~Here(f)
    BY DEF Init, NoFrames, NoEntry, Here, Present, All
  <2>2. QED
    BY <2>1, AllRacy DEF Init, StoreInv, NothingEarly, ClearsLeaveRacy
<1>2. QED
  BY <1>1, StoreStep, TypeCorrect, PTL DEF Spec

\* A frame whose last change was not inside a clear is behind the counter.
THEOREM CounterCovers == Spec => []EtagsBehindCounter
BY StoreInvariant, PTL DEF StoreInv

\* No two such frames share an eTag.
THEOREM ChangesHaveOwnEtag == Spec => []EtagsDistinct
BY StoreInvariant, PTL DEF StoreInv

\* The value fed by such a frame alone is what the frame carries.
THEOREM ValuesAgree == Spec => []ValuesFollowFrames
BY StoreInvariant, PTL DEF StoreInv
=============================================================================
