------------------------------ MODULE FrameDB ------------------------------
(***************************************************************************)
(* The frame database shared by every thread: the last frame seen for each *)
(* (interface, CAN id), the values the protocols decode from the frames,   *)
(* and the eTag counters a reader of the database polls with.              *)
(*                                                                         *)
(* saveFrame holds FrameDB::_mutex from its first line to its last, so it  *)
(* is one step.  clearFrames and clearValues take no lock: each of their   *)
(* assignments is a step, and frames go on being saved between them.       *)
(*                                                                         *)
(* A frame's length and bytes are one payload.  What the protocols keep    *)
(* between frames is not part of this module.                              *)
(***************************************************************************)
EXTENDS FiniteSets, Integers

CONSTANTS
  Interfaces,   \* interface names, those of main() and those of log lines
  CanIds,       \* CAN ids, after & CAN_ERR_MASK
  Payloads,     \* what a frame can carry
  Empty,        \* the payload of a frame with can_dlc = 0
  None,         \* no entry
  Protocols,
  Registrations,\* main()'s registerProtocol calls: interface and protocol
  Keys,         \* value names
  KeyOf,        \* the value a protocol decodes from a CAN id, or None
  Commands,     \* the commands the user gives: read, sniff
  TagLimit,     \* ifTag_t is uint8_t: 256
  MaxEtag       \* bound: no frame is saved once _lastEtag is this large

ASSUME TagLimitAssumption == TagLimit \in Nat \ {0}
ASSUME NoneAssumption     == None \notin Payloads \cup Keys
ASSUME RegistrationsAssumption == Registrations \subseteq Interfaces \X Protocols
ASSUME KeyOfAssumption    == KeyOf \in [Protocols \X CanIds -> Keys \cup {None}]
ASSUME CommandsAssumption == Commands \subseteq {"read", "sniff"}
ASSUME InterfacesAssumption == IsFiniteSet(Interfaces)
ASSUME KeysAssumption     == IsFiniteSet(Keys)

VARIABLES
  toRegister,        \* registrations main() has still to make
  ifTag,             \* interfaceInfo_t::ifTag, or Absent
  protocols,         \* interfaceInfo_t::protocols
  frames,            \* interfaceInfo_t::frames
  values,            \* _values
  lastEtag,          \* _lastEtag
  lastValueEtag,     \* _lastValueEtag
  lastInterfaceTag,  \* _lastInterfaceTag
  clearing,          \* the console's place in ClearScript, 0 when not in it
  racy               \* history: frames whose last change fell inside a clear

interfaces == <<toRegister, ifTag, protocols, lastInterfaceTag>>
vars == <<interfaces, frames, values, lastEtag, lastValueEtag, clearing, racy>>

Absent   == -1
NoEntry  == [data |-> None, eTag |-> 0]
NoFrames == [i \in Interfaces |-> [c \in CanIds |-> NoEntry]]
NoValues == [k \in Keys |-> NoEntry]

Present(i, c) == frames[i][c].data # None

\* The values the protocols of an interface decode from a CAN id.
Decoded(i, c) == {KeyOf[<<p, c>>] : p \in protocols[i]} \ {None}

Init ==
  /\ toRegister = Registrations
  /\ ifTag = [i \in Interfaces |-> Absent]
  /\ protocols = [i \in Interfaces |-> {}]
  /\ frames = NoFrames /\ values = NoValues
  /\ lastEtag = 0 /\ lastValueEtag = 0 /\ lastInterfaceTag = 0
  /\ clearing = 0 /\ racy = {}

-----------------------------------------------------------------------------

\* Mutants of CreateInterface: a tag wider than ifTag_t; the counter forgotten.
CreateInterfaceWide(i) ==
  IF ifTag[i] = Absent
    THEN ifTag' = [ifTag EXCEPT ![i] = lastInterfaceTag] /\ lastInterfaceTag' = lastInterfaceTag + 1
    ELSE UNCHANGED <<ifTag, lastInterfaceTag>>
CreateInterfaceSameTag(i) ==
  /\ ifTag' = IF ifTag[i] = Absent THEN [ifTag EXCEPT ![i] = lastInterfaceTag] ELSE ifTag
  /\ UNCHANGED lastInterfaceTag

\* "create the interface if it doesnt already exist"
CreateInterface(i) ==
  IF ifTag[i] = Absent
    THEN /\ ifTag' = [ifTag EXCEPT ![i] = lastInterfaceTag]
         /\ lastInterfaceTag' = (lastInterfaceTag + 1) % TagLimit
    ELSE UNCHANGED <<ifTag, lastInterfaceTag>>

RegisterProtocol(i, p) ==
  /\ <<i, p>> \in toRegister
  /\ toRegister' = toRegister \ {<<i, p>>}
  /\ CreateInterface(i)
  /\ protocols' = [protocols EXCEPT ![i] = @ \cup {p}]
  /\ UNCHANGED <<frames, values, lastEtag, lastValueEtag, clearing, racy>>

\* updateValue for each decoded value: one that differs is stored under the next
\* eTag, in whatever order the protocols come.
UpdateValues(keys, x) ==
  LET changed == {k \in keys : values[k].data # x} IN
  \E number \in [changed -> lastValueEtag .. lastValueEtag + Cardinality(changed) - 1] :
    /\ \A k, l \in changed : number[k] = number[l] => k = l
    /\ values' = [k \in Keys |->
                    IF k \in changed THEN [data |-> x, eTag |-> number[k]] ELSE values[k]]
    /\ lastValueEtag' = lastValueEtag + Cardinality(changed)

\* Mutant of StoreChange: the protocols are told of new frames only.
StoreChangeNewOnly(i, c, x) ==
  /\ frames' = [frames EXCEPT ![i][c] = [data |-> x, eTag |-> lastEtag + 1]]
  /\ racy' = IF clearing = 0 THEN racy \ {<<i, c>>} ELSE racy \cup {<<i, c>>}
  /\ IF Present(i, c)
       THEN UNCHANGED <<values, lastValueEtag>>
       ELSE UpdateValues(Decoded(i, c), x)

\* The entry is new, or its payload changed.  A change to a frame of no bytes
\* sets no bit of `changed`, so the protocols are not told of it.
StoreChange(i, c, x) ==
  /\ frames' = [frames EXCEPT ![i][c] = [data |-> x, eTag |-> lastEtag + 1]]
  /\ racy' = IF clearing = 0 THEN racy \ {<<i, c>>} ELSE racy \cup {<<i, c>>}
  /\ IF ~Present(i, c) \/ x # Empty
       THEN UpdateValues(Decoded(i, c), x)
       ELSE UNCHANGED <<values, lastValueEtag>>

\* Mutant of SaveFrame: a new frame does not advance the counter.
SaveFrameCountsOld(i, c, x) ==
  /\ toRegister = {} /\ lastEtag < MaxEtag
  /\ lastEtag' = IF Present(i, c) THEN lastEtag + 1 ELSE lastEtag
  /\ CreateInterface(i)
  /\ \/ frames[i][c].data # x /\ StoreChange(i, c, x)
     \/ frames[i][c].data = x /\ UNCHANGED <<frames, values, lastValueEtag, racy>>
  /\ UNCHANGED <<toRegister, protocols, clearing>>

SaveFrame(i, c, x) ==
  /\ toRegister = {} /\ lastEtag < MaxEtag
  /\ lastEtag' = lastEtag + 1
  /\ CreateInterface(i)
  /\ \/ frames[i][c].data # x /\ StoreChange(i, c, x)
     \/ frames[i][c].data = x /\ UNCHANGED <<frames, values, lastValueEtag, racy>>
  /\ UNCHANGED <<toRegister, protocols, clearing>>

-----------------------------------------------------------------------------
(* The console's clears: the assignments of clearFrames() and clearValues()*)
(* in the order the `read` and `sniff` commands run them.                  *)

\*   1..7    READCmdHandler: clearFrames, clearValues
\*   8..14   dumper.start(): clearValues, clearFrames
\*   15..19  readFramesFromFile, unless busy or without a path: clearFrames
\*   20..26  SNIFFCmdHandler's dumper.start(): clearValues, clearFrames
ReadStart    == 1
ClearInStart == 8
StartEnds    == 14
SniffStart   == 20
ScriptEnds   == 26
ClearScript ==
  << "frames", "values", "etag", "etag", "valueEtag",   "values", "etag",
     "values", "etag",   "frames", "values", "etag", "etag", "valueEtag",
     "frames", "values", "etag", "etag", "valueEtag",
     "values", "etag",   "frames", "values", "etag", "etag", "valueEtag" >>

BeginClear ==
  /\ toRegister = {} /\ clearing = 0
  /\ \/ "read" \in Commands /\ clearing' = ReadStart
     \/ "sniff" \in Commands /\ clearing' = SniffStart
  /\ UNCHANGED <<interfaces, frames, values, lastEtag, lastValueEtag, racy>>

\* Where the console is after a step of its script.
StepClear(assignment) ==
  /\ clearing # 0 /\ ClearScript[clearing] = assignment
  /\ clearing' \in CASE clearing = StartEnds -> {0, StartEnds + 1}
                     [] clearing \in {SniffStart - 1, ScriptEnds} -> {0}
                     [] OTHER -> {clearing + 1}

\* Mutant of ClearTheFrames: one interface keeps its frames, as under a clear by
\* name that still resets the counter.
ClearTheFramesOfOthers ==
  /\ StepClear("frames")
  /\ \E i \in Interfaces :
       frames' = [NoFrames EXCEPT ![i] = frames[i]] /\ racy' = {f \in racy : f[1] = i}
  /\ UNCHANGED <<interfaces, values, lastEtag, lastValueEtag>>

\* Each interface's frames.clear(); what was left of an earlier race goes too.
ClearTheFrames ==
  /\ StepClear("frames")
  /\ frames' = NoFrames /\ racy' = {}
  /\ UNCHANGED <<interfaces, values, lastEtag, lastValueEtag>>

ClearTheValues ==
  /\ StepClear("values")
  /\ values' = NoValues
  /\ UNCHANGED <<interfaces, frames, lastEtag, lastValueEtag, racy>>

ResetEtag ==
  /\ StepClear("etag")
  /\ lastEtag' = 0
  /\ UNCHANGED <<interfaces, frames, values, lastValueEtag, racy>>

ResetValueEtag ==
  /\ StepClear("valueEtag")
  /\ lastValueEtag' = 0
  /\ UNCHANGED <<interfaces, frames, values, lastEtag, racy>>

Clear == BeginClear \/ ClearTheFrames \/ ClearTheValues \/ ResetEtag \/ ResetValueEtag

Next ==
  \/ \E i \in Interfaces, p \in Protocols : RegisterProtocol(i, p)
  \/ \E i \in Interfaces, c \in CanIds, x \in Payloads : SaveFrame(i, c, x)
  \/ Clear

Spec == Init /\ [][Next]_vars

-----------------------------------------------------------------------------
(* Queries, each made under the lock.                                      *)

\* A refnum: the interface's tag and the CAN id.
makeFrameTag(i, c) == <<ifTag[i], c>>

\* The (interface, CAN id) a refnum names for frameWithTag: the first interface,
\* in any order, that carries the tag.
Owners(tag) == {i \in Interfaces : ifTag[i] = tag[1]}

\* Mutant of FramesUpdateSinceEtag: "before" for "up to".
FramesBeforeEtag(eTag) ==
  {f \in Interfaces \X CanIds : Present(f[1], f[2]) /\ frames[f[1]][f[2]].eTag < eTag}

\* framesUpdateSinceEtag: the frames whose eTag is at most the one given.
FramesUpdateSinceEtag(eTag) ==
  {f \in Interfaces \X CanIds : Present(f[1], f[2]) /\ frames[f[1]][f[2]].eTag <= eTag}

-----------------------------------------------------------------------------
(* Properties.                                                             *)

Entry == [data : Payloads \cup {None}, eTag : Nat]

\* Every entry of the database has the type its declaration gives it.
TypeOK ==
  /\ toRegister \subseteq Registrations
  /\ ifTag \in [Interfaces -> (0 .. TagLimit - 1) \cup {Absent}]
  /\ protocols \in [Interfaces -> SUBSET Protocols]
  /\ frames \in [Interfaces -> [CanIds -> Entry]]
  /\ values \in [Keys -> Entry]
  /\ lastEtag \in Nat /\ lastValueEtag \in Nat
  /\ lastInterfaceTag \in 0 .. TagLimit - 1
  /\ clearing \in 0 .. ScriptEnds
  /\ racy \subseteq Interfaces \X CanIds

\* A refnum names one interface: as long as no more interfaces have appeared than
\* an ifTag can count, no two of them share a tag.
RefnumsUnique ==
  Cardinality(Interfaces) <= TagLimit =>
    \A i, j \in Interfaces : ifTag[i] = ifTag[j] /\ ifTag[i] # Absent => i = j

\* A frame that was not changed inside a clear is never ahead of the counter, so
\* a poll that hands _lastEtag back finds it: only a frame saved between two
\* assignments of an unlocked clear can be hidden, and the next clear or the
\* next change of the frame cures it.
EtagsBehindCounter ==
  clearing = 0 =>
    \A f \in Interfaces \X CanIds :
      Present(f[1], f[2]) /\ f \notin racy => frames[f[1]][f[2]].eTag \in 1 .. lastEtag

\* Nor do two such frames ever share an eTag: each change has its own.
EtagsDistinct ==
  clearing = 0 =>
    \A f, g \in (Interfaces \X CanIds) \ racy :
      /\ Present(f[1], f[2]) /\ Present(g[1], g[2])
      /\ frames[f[1]][f[2]].eTag = frames[g[1]][g[2]].eTag
      => f = g

\* The frames a value is decoded from.
Sources(k) == {f \in Interfaces \X CanIds : k \in Decoded(f[1], f[2])}

\* The value table agrees with the frame table: the value of a frame that alone
\* feeds it is what the frame now carries, unless the frame changed inside a
\* clear or carries no byte.
ValuesFollowFrames ==
  clearing = 0 =>
    \A k \in Keys, f \in (Interfaces \X CanIds) \ racy :
      Sources(k) = {f} /\ Present(f[1], f[2]) /\ frames[f[1]][f[2]].data # Empty
        => values[k].data = frames[f[1]][f[2]].data
=============================================================================
