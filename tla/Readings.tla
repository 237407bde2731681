------------------------------ MODULE Readings ------------------------------
(***************************************************************************)
(* From the car's frames to what the user reads: saveFrame with the frame  *)
(* decoders, the protocols and the times that FrameDB leaves out, and      *)
(* printValue on the value table.  The threads are FrameDB's concern: here *)
(* a save or a clear is one step.                                          *)
(*                                                                         *)
(* A signal is what one frame or answer of the car says about one key: for *)
(* each content, the bytes sent and what the user should read.  A traffic  *)
(* is a few signals, of which those of one quantity have equal contents.   *)
(***************************************************************************)
EXTENDS FiniteSets, GMLAN, OBD2Values, JeepValues

CONSTANTS
  Traffics,   \* what the car may send: signals, stamps and how many seconds
  OldAfter,   \* seconds after which a value is drawn as old: 5
  Wrap,       \* an unsigned long counts modulo this: 2^64
  Stray       \* what may lie in memory after a frame

ASSUME OldAfterAssumption == OldAfter \in Nat
ASSUME WrapAssumption     == Wrap \in Nat \ {0}
ASSUME StampsAssumption   ==
  \A t \in Traffics : t.stamps \subseteq 0 .. (Wrap - 1) \div 2
ASSUME StrayAssumption    == Stray # {}
ASSUME SecondsAssumption  == \A t \in Traffics : t.seconds \in Nat

VARIABLES
  traffic,  \* what this car sends
  now,      \* time(NULL)
  frames,   \* the entries of the interfaces' frames, with their pace as a history
  values,   \* _values
  told      \* history: for each signal its last valid content, and since when

vars == <<traffic, now, frames, values, told>>

Empty   == [k \in {} |-> 0]
Invalid == -1000      \* the content of a frame that says it is not valid
Untold  == [content |-> Invalid, since |-> 0]
Signals == DOMAIN traffic.signals

Init ==
  /\ traffic \in Traffics
  /\ now = 0 /\ frames = Empty /\ values = Empty
  /\ told = [i \in Signals |-> Untold]

-----------------------------------------------------------------------------
(* saveFrame.                                                              *)

\* What the radio and the amplifier say in a frame of can0, with a byte that lies
\* after it: the frame decoders are asked for every frame of their ids.
Heard(s) == s.bus = "can0" /\ s.id \in Decoded
UnitSays(s, data, stray) ==
  IF s.long
    THEN LongUnitAnswer(s.id, data, s.length)
    ELSE UnitFrame(s.id, [i \in 0 .. 8 |-> IF i < 8 THEN data[i] ELSE stray])

\* What the protocols say of a frame: gmlan is registered for can1, jeep for can0,
\* obdii for both.
ProtocolSays(s, data) ==
  When(IsOBD(s.id), IF s.long THEN LongAnswer(s.id, data, s.length) ELSE SingleFrame(s.id, data))
  \cup
  When(~s.long, IF s.bus = "can0" THEN JeepUpdates(s.id, data) ELSE GMUpdates(s.id, data))

Dated(said, date) == {<<u[1], u[2], date>> : u \in said}

\* Mutant of DecoderUpdates: the decoders are asked for new frames only.
DecoderUpdatesOnce(s, data, stamp) ==
  {Dated(UnitSays(s, data, stray), IF stamp = 0 THEN now ELSE stamp) :
     stray \in IF Heard(s) /\ <<s.bus, s.id>> \notin DOMAIN frames THEN Stray ELSE {}}

\* The decoders' updates, one set for each byte there may be, dated with the frame's
\* stamp (0 stands for now); and the protocols', for new and changed frames.
DecoderUpdates(s, data, stamp) ==
  {Dated(UnitSays(s, data, stray), IF stamp = 0 THEN now ELSE stamp) :
     stray \in IF Heard(s) THEN Stray ELSE {}}
ProtocolUpdates(s, data) == Dated(ProtocolSays(s, data), now)

\* updateValue for each: a value that is there already keeps its date.
UpdateValues(updates) ==
  LET changed == {u \in updates : u[1] \in DOMAIN values => values[u[1]].value # u[2]}
  IN values' = [k \in DOMAIN values \cup {u[1] : u \in changed} |->
       IF \E u \in changed : u[1] = k
         THEN LET u == CHOOSE w \in changed : w[1] = k IN [value |-> u[2], lastUpdate |-> u[3]]
         ELSE values[k]]

\* Mutants of NewAverage: not halved; without the stamp of the last frame.
NewAverageWhole(stamp, entry) == (((stamp - entry.timeStamp) % Wrap) + entry.avgTime) % Wrap
NewAverageFromStart(stamp, entry) == ((stamp + entry.avgTime) % Wrap) \div 2

\* The average time between frames of an id, in unsigned arithmetic.
NewAverage(stamp, entry) ==
  ((((stamp - entry.timeStamp) % Wrap) + entry.avgTime) % Wrap) \div 2

\* History: the longest gap between two frames of the id, and what a step back of
\* the stamps may still add to the average.
Larger(a, b) == IF a > b THEN a ELSE b
NewGap(stamp, entry) == Larger(entry.gap, stamp - entry.timeStamp)
NewExcess(stamp, entry) ==
  IF stamp < entry.timeStamp THEN Wrap \div 2 ELSE entry.excess \div 2

Entry(at, data, stamp) ==
  IF at \in DOMAIN frames
    THEN [data |-> data, timeStamp |-> stamp, avgTime |-> NewAverage(stamp, frames[at]),
          gap |-> NewGap(stamp, frames[at]), excess |-> NewExcess(stamp, frames[at])]
    ELSE [data |-> data, timeStamp |-> stamp, avgTime |-> 0, gap |-> 0, excess |-> 0]

StoreFrame(at, data, stamp) ==
  frames' = [a \in DOMAIN frames \cup {at} |-> IF a = at THEN Entry(at, data, stamp) ELSE frames[a]]

\* Mutant of Changed: every interface's frames of an id count as one.
ChangedAnywhere(at, data) ==
  \A a \in DOMAIN frames : a[2] = at[2] => frames[a].data # data

Changed(at, data) == at \in DOMAIN frames => frames[at].data # data

\* The car sends content c of its signal i.
SaveFrame(i, c, stamp) ==
  LET s    == traffic.signals[i]
      at   == <<s.bus, s.id>>
      data == s.data[c]
      fromProtocols == When(Changed(at, data), ProtocolUpdates(s, data))
      fromDecoders  == DecoderUpdates(s, data, stamp)
  IN
  /\ StoreFrame(at, data, stamp)
  /\ IF fromDecoders = {}
       THEN UpdateValues(fromProtocols)
       ELSE \E updates \in fromDecoders : UpdateValues(updates \cup fromProtocols)
  /\ told' = IF c = Invalid \/ c = told[i].content
               THEN told
               ELSE [told EXCEPT ![i] = [content |-> c, since |-> now]]
  /\ UNCHANGED <<traffic, now>>

Tick == now < traffic.seconds /\ now' = now + 1 /\ UNCHANGED <<traffic, frames, values, told>>

\* clearFrames and clearValues.
Clear ==
  /\ frames' = Empty /\ values' = Empty
  /\ told' = [i \in Signals |-> Untold]
  /\ UNCHANGED <<traffic, now>>

Next ==
  \/ \E i \in Signals : \E c \in DOMAIN traffic.signals[i].data, stamp \in traffic.stamps :
       SaveFrame(i, c, stamp)
  \/ Tick \/ Clear

Spec == Init /\ [][Next]_vars

-----------------------------------------------------------------------------
(* printValue, and valuesOlderthan.                                        *)

Unit(key) ==
  CASE key[1] = "GM"  -> GMUnits[key[2]]
    [] key[1] = "OBD" -> OBDUnit(key)
    [] key[1] = "JK"  -> JeepUnits[key[2]]
    [] key[1] = "JKA" -> AmpUnit(key[2])
    [] key[1] = "JKR" -> "PLAIN"

Reading(key) == Drawn(Unit(key), values[key].value)

\* Mutant of IsOld: the age counted from zero.
IsOldFromZero(key) == values[key].lastUpdate <= now - OldAfter
IsOld(key) == values[key].lastUpdate < now - OldAfter

-----------------------------------------------------------------------------
(* Properties.                                                             *)

\* Every entry has its type: stamps, averages and paces are unsigned longs, an
\* average at most half of them; a value has one of the four shapes.
TypeOK ==
  /\ traffic \in Traffics /\ now \in 0 .. traffic.seconds
  /\ \A at \in DOMAIN frames :
       /\ frames[at].timeStamp \in 0 .. (Wrap - 1) \div 2
       /\ frames[at].avgTime \in 0 .. (Wrap - 1) \div 2
       /\ frames[at].gap \in Nat /\ frames[at].excess \in Nat
  /\ \A k \in DOMAIN values :
       /\ values[k].value[1] \in {"number", "text", "data", "codes"}
       /\ values[k].lastUpdate \in Nat
  /\ DOMAIN told = Signals

\* What the radio and the amplifier say is dated by stamps and read with a byte
\* too many.
OfUnit(s)   == s.key[1] \in {"JKR", "JKA"}
FromUnit(i) == OfUnit(traffic.signals[i])

\* The signals that have told of a key, and those that alone tell of theirs.
Sources(key) == {j \in Signals : traffic.signals[j].key = key /\ told[j] # Untold}
Lone(i) == \A j \in Signals : traffic.signals[j].key = traffic.signals[i].key => j = i

\* What the user should read of what signal j told.
Meaning(j) == traffic.signals[j].means[told[j].content]

\* Keys whose readings the code gets wrong, whatever comes: temperatures from which
\* 40 is taken twice, a torque made of one byte twice, an oil pressure whose formula
\* is never reached, a flow without its two decimals.
Misread ==
  {<<"GM", "TEMP_OIL">>, <<"GM", "ENGINE_TORQUE">>, OBD(\h22, \h115C), OBD(1, \h10)}
  \cup {OBD(1, pid) : pid \in \h3C .. \h3F}

\* The user reads what the car said last: through the comparison with the stored
\* frame, the decoding, the filter of equal values and the conversion of units, and
\* so two buses that tell of one quantity are read alike.  A frame marked invalid
\* leaves the reading, the answers of an ECU with keys of its own leave those of
\* another, and every answer finds the key that was asked for.  Where several tell
\* of one key, it is what one of them said last.
ReadingsAreTrue ==
  \A i \in Signals :
    LET key == traffic.signals[i].key IN
    told[i] # Untold /\ key \notin Misread /\ ~FromUnit(i) =>
      key \in DOMAIN values /\ \E j \in Sources(key) : Reading(key) = Meaning(j)

\* A value has the bytes or codes of another, and at most one more.
HasOneMore(v, w) ==
  /\ v[1] = w[1] /\ v[1] \in {"data", "text", "codes"}
  /\ Cardinality(DOMAIN v[2]) <= Cardinality(DOMAIN w[2]) + 1
  /\ \A n \in DOMAIN w[2] : n \in DOMAIN v[2] /\ v[2][n] = w[2][n]

\* So it is with the radio and the amplifier, but for one byte, or one code, that an
\* answer in a single frame may gain at its end.
UnitsAreRead ==
  \A i \in Signals :
    LET key == traffic.signals[i].key IN
    told[i] # Untold /\ FromUnit(i) =>
      /\ key \in DOMAIN values
      /\ \E j \in Sources(key) :
           \/ Reading(key) = Meaning(j)
           \/ ~traffic.signals[j].long /\ HasOneMore(values[key].value, Meaning(j))

\* What is drawn as old has not changed on the bus for longer than OldAfter: neither
\* the frame filter nor the value filter ever hides a change, and nothing that has
\* just changed looks old.
OldIsUnchanged ==
  \A i \in Signals :
    LET s == traffic.signals[i] IN
    told[i] # Untold /\ Lone(i) /\ ~FromUnit(i) /\ s.key \in DOMAIN values /\ IsOld(s.key) =>
      now - told[i].since > OldAfter

\* The average shown for a frame is at most the longest gap there was between two
\* such frames, but after a step back of the stamps (a second log, two buses in one
\* log), which adds half of the counter's range and is halved by each later frame.
AverageWithinGaps ==
  \A at \in DOMAIN frames : frames[at].avgTime <= frames[at].gap + frames[at].excess

-----------------------------------------------------------------------------
(* What the properties are proved from: what a single frame says is read   *)
(* as it was meant.  Of the cars that are tried TLC finds that it is; the  *)
(* proofs show that filters, clears, other buses and repeated frames then  *)
(* change nothing of it, for any car.                                      *)

\* The values that something said gives a signal's key.
Own(s, said) == {u[2] : u \in {w \in said : w[1] = s.key}}

\* A frame with a valid content says it, to be read as it was meant.
IsSaid(s, c) ==
  IF OfUnit(s)
    THEN /\ Heard(s)
         /\ \A stray \in Stray :
              LET own == Own(s, UnitSays(s, s.data[c], stray)) IN
              /\ own # {}
              /\ \A v \in own : \/ Drawn(Unit(s.key), v) = s.means[c]
                                \/ ~s.long /\ HasOneMore(v, s.means[c])
    ELSE LET own == Own(s, ProtocolSays(s, s.data[c])) IN
         /\ own # {}
         /\ s.key \notin Misread => \A v \in own : Drawn(Unit(s.key), v) = s.means[c]

\* Of the keys that the car tells of, it says its own alone, and that only when valid.
SaysNoOther(t, s, c) ==
  \A u \in ProtocolSays(s, s.data[c])
             \cup UNION {UnitSays(s, s.data[c], stray) : stray \in IF Heard(s) THEN Stray ELSE {}} :
    (\E j \in DOMAIN t.signals : t.signals[j].key = u[1]) => u[1] = s.key /\ c # Invalid

\* On a bus, id and bytes tell the signal and its content.
BytesTell(t) ==
  \A i, j \in DOMAIN t.signals :
    LET r == t.signals[i]
        s == t.signals[j]
    IN r.bus = s.bus /\ r.id = s.id =>
         \A c \in DOMAIN r.data, d \in DOMAIN s.data : r.data[c] = s.data[d] => i = j /\ c = d

\* Two contents of a signal are two values.
ContentsDiffer(s) ==
  \A c, d \in DOMAIN s.data \ {Invalid} :
    c # d => Own(s, ProtocolSays(s, s.data[c])) \cap Own(s, ProtocolSays(s, s.data[d])) = {}

Readable(t) ==
  /\ BytesTell(t)
  /\ \A i \in DOMAIN t.signals :
       LET s == t.signals[i] IN
       /\ \A c \in DOMAIN s.data : SaysNoOther(t, s, c) /\ (c # Invalid => IsSaid(s, c))
       /\ ~OfUnit(s) => ContentsDiffer(s)
CarsAreReadable == \A t \in Traffics : Readable(t)

\* Two quantities of which it is proved, for every content they can have: the speed of
\* the engine and temperatures, in any frames whose bytes hold them.
ObdBuses == {"can0", "can1"}
Ecus     == \h7E8 .. \h7EF

\* How a speed of c revolutions per minute comes from the Jeep, a GM and an ECU.
JeepSpeedFrames(s) ==
  /\ s.key = <<"JK", "RPM">> /\ s.bus = "can0" /\ s.id = \h2CE
  /\ \A c \in DOMAIN s.data : Word(s.data[c][0], s.data[c][1]) = IF c = Invalid THEN \hFFFF ELSE c
GMSpeedFrames(s) ==
  /\ s.key = <<"GM", "ENGINE_RPM">> /\ s.bus = "can1" /\ s.id = \h0C9
  /\ \A c \in DOMAIN s.data : c # Invalid /\ Word(s.data[c][1], s.data[c][2]) = 4 * c
OBDSpeedFrames(s) ==
  /\ s.key = OBD(1, \h0C) /\ s.bus \in ObdBuses /\ s.id \in Ecus
  /\ \A c \in DOMAIN s.data :
       /\ c # Invalid /\ s.data[c][0] = 4 /\ s.data[c][1] = \h41 /\ s.data[c][2] = \h0C
       /\ Word(s.data[c][3], s.data[c][4]) = 4 * c

\* What should be read of them.
EngineSpeed(s) ==
  /\ JeepSpeedFrames(s) \/ GMSpeedFrames(s) \/ OBDSpeedFrames(s)
  /\ \A c \in DOMAIN s.data \ {Invalid} :
       c \in Nat /\ c < 16384 /\ s.means[c] = <<"RPM", c>>

\* And a temperature of c degrees Celsius.
GMTemperatureFrames(s) ==
  /\ s.bus = "can1"
  /\ \/ /\ s.key = <<"GM", "TEMP_COOLANT">> /\ s.id = \h4C1
        /\ \A c \in DOMAIN s.data : s.data[c][2] = c + 40
     \/ /\ s.key = <<"GM", "TEMP_AIR_INTAKE">> /\ s.id = \h4C1
        /\ \A c \in DOMAIN s.data : s.data[c][3] = c + 40
     \/ /\ s.key = <<"GM", "TEMP_TRANSMISSION">> /\ s.id = \h4C9
        /\ \A c \in DOMAIN s.data : s.data[c][1] = c + 40
OBDTemperatureFrames(s) ==
  /\ s.bus \in ObdBuses /\ s.id \in Ecus
  /\ \E pid \in {\h05, \h0F, \h46, \h5C} :
       /\ s.key = OBD(1, pid)
       /\ \A c \in DOMAIN s.data :
            s.data[c][0] = 3 /\ s.data[c][1] = \h41 /\ s.data[c][2] = pid /\ s.data[c][3] = c + 40

Fahrenheit(c) == <<"F", Truncated(18 * c + 320, 10)>>
Temperature(s) ==
  /\ GMTemperatureFrames(s) \/ OBDTemperatureFrames(s)
  /\ \A c \in DOMAIN s.data : c \in Int /\ c >= -40 /\ s.means[c] = Fahrenheit(c)

\* A car of such signals, in single frames of which each tells of one of them.
Measured(t) ==
  /\ \A i \in DOMAIN t.signals :
       ~t.signals[i].long /\ (EngineSpeed(t.signals[i]) \/ Temperature(t.signals[i]))
  /\ \A i, j \in DOMAIN t.signals :
       LET r == t.signals[i]
           s == t.signals[j]
       IN r.bus = s.bus /\ r.id = s.id => i = j \/ (r.id \in Ecus /\ r.key # s.key)
=============================================================================
