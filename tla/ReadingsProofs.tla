--------------------------- MODULE ReadingsProofs ---------------------------
(***************************************************************************)
(* What is proved of Readings, for every traffic, every range of the       *)
(* counter and every byte that may lie after a frame.                      *)
(***************************************************************************)
EXTENDS Readings, TLAPS

Half == 0 .. (Wrap - 1) \div 2

\* What every entry of a frame keeps: the average needs its own range, without which
\* a sum could wrap around and come out smaller than the gap it stands for.
Paced(e) ==
  /\ e.timeStamp \in Half /\ e.avgTime \in Half
  /\ e.gap \in Nat /\ e.excess \in Nat
  /\ e.avgTime <= e.gap + e.excess

IInv == traffic \in Traffics /\ \A at \in DOMAIN frames : Paced(frames[at])

-----------------------------------------------------------------------------
\* Facts of unsigned arithmetic: a remainder is in range, a number in range is its
\* own remainder, and halves.
LEMMA RemainderInRange ==
  ASSUME NEW n \in Int, NEW w \in Nat \ {0}
  PROVE  n % w \in 0 .. w - 1
OBVIOUS

LEMMA RemainderOfSmall ==
  ASSUME NEW w \in Nat \ {0}, NEW n \in 0 .. w - 1
  PROVE  n % w = n
OBVIOUS

LEMMA HalfOf ==
  ASSUME NEW n \in Nat, NEW m \in Nat, n <= m
  PROVE  n \div 2 \in 0 .. m \div 2
OBVIOUS

\* Within the range of the counter nothing wraps while the stamps go forward, and
\* after a step back the average is still at most half of the range.
LEMMA AverageKept ==
  ASSUME NEW e, Paced(e), NEW stamp \in Half
  PROVE  /\ NewAverage(stamp, e) \in Half
         /\ NewGap(stamp, e) \in Nat /\ NewExcess(stamp, e) \in Nat
         /\ NewAverage(stamp, e) <= NewGap(stamp, e) + NewExcess(stamp, e)
<1> DEFINE diff == stamp - e.timeStamp
           sum  == (diff % Wrap) + e.avgTime
<1>1. Wrap \in Nat \ {0} /\ Wrap - 1 \in Nat
  BY WrapAssumption
<1>2. diff \in Int /\ e.timeStamp \in Nat /\ e.avgTime \in Nat /\ stamp \in Nat
  BY <1>1 DEF Paced, Half
<1>3. diff % Wrap \in 0 .. Wrap - 1 /\ sum \in Int
  <2> HIDE DEF diff
  <2>1. diff \in Int
    BY <1>2
  <2>2. diff % Wrap \in 0 .. Wrap - 1
    BY <1>1, <2>1, RemainderInRange
  <2>3. QED BY <1>2, <2>2
<1>4. sum % Wrap \in 0 .. Wrap - 1
  BY <1>1, <1>3, RemainderInRange
<1>5. NewAverage(stamp, e) = (sum % Wrap) \div 2
  BY DEF NewAverage
<1>6. NewAverage(stamp, e) \in Half
  <2> HIDE DEF sum
  <2>1. QED BY <1>1, <1>4, <1>5, HalfOf DEF Half
<1>7. NewGap(stamp, e) \in Nat /\ NewGap(stamp, e) >= diff /\ NewGap(stamp, e) >= e.gap
  BY <1>2 DEF NewGap, Larger, Paced
<1>8. CASE stamp < e.timeStamp
  <2>1. NewExcess(stamp, e) = Wrap \div 2
    BY <1>8 DEF NewExcess
  <2>2. (Wrap - 1) \div 2 <= Wrap \div 2 /\ Wrap \div 2 \in Nat
    BY <1>1
  <2>3. NewAverage(stamp, e) <= (Wrap - 1) \div 2 /\ NewAverage(stamp, e) \in Nat
    BY <1>1, <1>6 DEF Half
  <2> HIDE DEF diff, sum
  <2>4. QED BY <1>1, <1>6, <1>7, <2>1, <2>2, <2>3
<1>9. CASE stamp >= e.timeStamp
  <2>1. NewExcess(stamp, e) = e.excess \div 2 /\ e.excess \div 2 \in Nat
    BY <1>2, <1>9 DEF NewExcess, Paced
  <2>2. diff \in 0 .. (Wrap - 1) \div 2 /\ diff \in 0 .. Wrap - 1
    BY <1>1, <1>2, <1>9 DEF Half
  <2>3. diff % Wrap = diff
    BY <1>1, <2>2, RemainderOfSmall
  <2>4. sum = diff + e.avgTime /\ sum \in 0 .. Wrap - 1
    BY <1>1, <1>2, <2>2, <2>3 DEF Paced, Half
  <2>5. NewAverage(stamp, e) = (diff + e.avgTime) \div 2
    BY <1>1, <1>5, <2>4, RemainderOfSmall
  <2>6. e.avgTime <= e.gap + e.excess /\ e.gap \in Nat /\ e.excess \in Nat
    BY DEF Paced
  <2> HIDE DEF sum
  <2>7. (diff + e.avgTime) \div 2 <= NewGap(stamp, e) + (e.excess \div 2)
    BY <1>2, <1>7, <2>2, <2>6
  <2>8. QED BY <1>6, <1>7, <2>1, <2>5, <2>7
<1>10. QED
  BY <1>2, <1>8, <1>9

-----------------------------------------------------------------------------
LEMMA InitPaced == Init => IInv
BY DEF Init, IInv, Empty

\* Only a frame that is saved changes an entry, with a stamp of the traffic.
LEMMA NextPaced == IInv /\ [Next]_vars => IInv'
<1> SUFFICES ASSUME IInv, [Next]_vars PROVE IInv'
  OBVIOUS
<1>1. ASSUME NEW i \in Signals, NEW c \in DOMAIN traffic.signals[i].data,
             NEW stamp \in traffic.stamps, SaveFrame(i, c, stamp)
      PROVE  IInv'
  <2> DEFINE s == traffic.signals[i]
             at == <<s.bus, s.id>>
             data == s.data[c]
  <2>1. stamp \in Half
    BY StampsAssumption DEF IInv, Half
  <2>2. /\ traffic' = traffic
        /\ frames' = [a \in DOMAIN frames \cup {at} |->
                        IF a = at THEN Entry(at, data, stamp) ELSE frames[a]]
    BY <1>1 DEF SaveFrame, StoreFrame
  <2> HIDE DEF s, at, data
  <2>3. Paced(Entry(at, data, stamp))
    <3>1. CASE at \in DOMAIN frames
      <4>1. Paced(frames[at])
        BY <3>1 DEF IInv
      <4>2. QED BY <2>1, <3>1, <4>1, AverageKept DEF Entry, Paced
    <3>2. CASE at \notin DOMAIN frames
      <4>1. 0 \in Half
        BY WrapAssumption DEF Half
      <4>2. QED BY <2>1, <3>2, <4>1 DEF Entry, Paced
    <3>3. QED BY <3>1, <3>2
  <2>4. QED BY <2>2, <2>3 DEF IInv
<1>2. CASE Tick
  BY <1>2 DEF Tick, IInv
<1>3. CASE Clear
  BY <1>3 DEF Clear, IInv, Empty
<1>4. CASE UNCHANGED vars
  BY <1>4 DEF vars, IInv
<1>5. QED
  BY <1>1, <1>2, <1>3, <1>4 DEF Next

\* The average shown for a frame never exceeds the longest gap between two such
\* frames, but by what the last step back of the stamps left (saveFrame's newAvg).
THEOREM AveragesWithinGaps == Spec => []AverageWithinGaps
<1>1. IInv => AverageWithinGaps
  BY DEF IInv, Paced, AverageWithinGaps
<1>2. QED
  BY <1>1, InitPaced, NextPaced, PTL DEF Spec

-----------------------------------------------------------------------------
(* What the decoders can say, for any frame at all: a protocol has keys of *)
(* its own, which are not a unit's, and every value has one of the shapes. *)

Shapes    == {"number", "text", "data", "codes"}
UnitKinds == {"JKR", "JKA"}

LEMMA GMSays ==
  ASSUME NEW id, NEW d, NEW u \in GMUpdates(id, d)
  PROVE  u[1][1] = "GM" /\ u[2][1] \in Shapes
BY DEF GMUpdates, EngineGenStatus1, EngineGenStatus2, EngineGenStatus3, EngineGenStatus4,
       EngineGenStatus5, FuelSystemRequest2, TransmissionStatus2, TransmissionStatus3,
       EngineTorqueStatus3, VehicleSpeed, When, GM, Number, Fraction, Text, Percent, Shapes

LEMMA JeepSays ==
  ASSUME NEW id, NEW d, NEW u \in JeepUpdates(id, d)
  PROVE  u[1][1] = "JK" /\ u[2][1] \in Shapes
BY DEF JeepUpdates, SteeringAngle, KeyPosition, VehicleDistance, Doors, EngineRPM,
       When, JK, Number, Fraction, Text, Shapes

LEMMA UnitAnswers ==
  ASSUME NEW id, NEW service, NEW m, NEW n, NEW u \in UnitAnswer(id, service, m, n)
  PROVE  u[1][1] \in UnitKinds /\ u[2][1] \in Shapes
BY DEF UnitAnswer, RadioValue, AmpValue, UnitCodes, Part, When, Number, Fraction, Text, Data, Codes,
       Shapes, UnitKinds

LEMMA Responses ==
  ASSUME NEW id, NEW mode, NEW pid, NEW d, NEW n, NEW u \in Response(id, mode, pid, d, n)
  PROVE  u[1][1] = "OBD" /\ u[2][1] \in Shapes
<1>1. ASSUME NEW first, NEW key \in Schema(id, mode, pid, first) PROVE key[1] = "OBD"
  BY <1>1 DEF Schema, OBD, OBDOf
<1>2. ASSUME NEW e, NEW m, NEW v \in Formula(mode, pid, e, m) PROVE v[1] \in Shapes
  BY <1>2 DEF Formula, When, Number, Fraction, Text, Shapes
<1>3. ASSUME NEW unit, NEW e, NEW m PROVE ValueForData(mode, pid, unit, e, m)[1] \in Shapes
  BY <1>2 DEF ValueForData, Plain, TroubleCodes, Data, Number, Fraction, Text, Codes, Shapes
<1>4. QED
  BY <1>1, <1>3 DEF Response

LEMMA ProtocolsSay ==
  ASSUME NEW s, NEW data, NEW u \in ProtocolSays(s, data)
  PROVE  u[1][1] \notin UnitKinds /\ u[2][1] \in Shapes
BY GMSays, JeepSays, Responses DEF ProtocolSays, SingleFrame, LongAnswer, When, UnitKinds

LEMMA UnitsSay ==
  ASSUME NEW s, NEW data, NEW stray, NEW u \in UnitSays(s, data, stray)
  PROVE  u[1][1] \in UnitKinds /\ u[2][1] \in Shapes
BY UnitAnswers DEF UnitSays, UnitFrame, LongUnitAnswer, When

-----------------------------------------------------------------------------
(* What a save does to the value of one key.                               *)

LEMMA KeyAfter ==
  ASSUME NEW updates, UpdateValues(updates), NEW key
  PROVE  /\ (\A u \in updates : u[1] # key) =>
              /\ key \in DOMAIN values' <=> key \in DOMAIN values
              /\ key \in DOMAIN values => values'[key] = values[key]
         /\ (\E u \in updates : u[1] = key) =>
              /\ key \in DOMAIN values'
              /\ \/ \E u \in updates :
                      u[1] = key /\ values'[key] = [value |-> u[2], lastUpdate |-> u[3]]
                 \/ /\ key \in DOMAIN values /\ values'[key] = values[key]
                    /\ \A u \in updates : u[1] = key => values[key].value = u[2]
<1> DEFINE changed == {u \in updates : u[1] \in DOMAIN values => values[u[1]].value # u[2]}
           picked == CHOOSE w \in changed : w[1] = key
<1>1. /\ DOMAIN values' = DOMAIN values \cup {u[1] : u \in changed}
      /\ key \in DOMAIN values' =>
           values'[key] = IF \E u \in changed : u[1] = key
                            THEN [value |-> picked[2], lastUpdate |-> picked[3]] ELSE values[key]
  BY DEF UpdateValues
<1>2. (\E u \in changed : u[1] = key) => picked \in changed /\ picked[1] = key
  OBVIOUS
<1> HIDE DEF picked
<1>3. QED
  BY <1>1, <1>2

\* Updates that are dated have the keys and values of what was said.
LEMMA DatedSay ==
  ASSUME NEW s, NEW said, NEW date
  PROVE  /\ Own(s, said) # {} => \E u \in Dated(said, date) : u[1] = s.key
         /\ \A u \in Dated(said, date) :
              /\ u[3] = date /\ \E w \in said : u[1] = w[1] /\ u[2] = w[2]
              /\ u[1] = s.key => u[2] \in Own(s, said)
<1>1. ASSUME NEW w \in said PROVE <<w[1], w[2], date>> \in Dated(said, date)
  BY DEF Dated
<1>2. ASSUME Own(s, said) # {} PROVE \E u \in Dated(said, date) : u[1] = s.key
  <2>1. PICK w \in said : w[1] = s.key
    BY <1>2 DEF Own
  <2>2. QED
    BY <1>1, <2>1
<1>3. ASSUME NEW u \in Dated(said, date)
      PROVE  \E w \in said : u = <<w[1], w[2], date>>
  BY <1>3 DEF Dated
<1>4. QED
  BY <1>2, <1>3 DEF Own

\* The updates of a save: what a unit is heard to say, and when the frame is new or
\* changed what the protocols say.
LEMMA Saved ==
  ASSUME TypeOK, NEW i \in Signals, NEW c, NEW stamp \in traffic.stamps, SaveFrame(i, c, stamp)
  PROVE  LET s    == traffic.signals[i]
             data == s.data[c]
         IN \E heard, date :
              /\ date \in Nat
              /\ IF Heard(s) THEN \E stray \in Stray : heard = UnitSays(s, data, stray)
                             ELSE heard = {}
              /\ UpdateValues(Dated(heard, date)
                                \cup When(Changed(<<s.bus, s.id>>, data), ProtocolUpdates(s, data)))
<1> DEFINE s    == traffic.signals[i]
           data == s.data[c]
           fromProtocols == When(Changed(<<s.bus, s.id>>, data), ProtocolUpdates(s, data))
           date == IF stamp = 0 THEN now ELSE stamp
<1>1. date \in Nat
  BY StampsAssumption, WrapAssumption, SecondsAssumption DEF TypeOK
<1>2. CASE Heard(s)
  <2>1. DecoderUpdates(s, data, stamp) = {Dated(UnitSays(s, data, stray), date) : stray \in Stray}
    BY <1>2 DEF DecoderUpdates
  <2>2. DecoderUpdates(s, data, stamp) # {}
    BY <2>1, StrayAssumption
  <2>3. PICK updates \in DecoderUpdates(s, data, stamp) : UpdateValues(updates \cup fromProtocols)
    BY <2>2 DEF SaveFrame
  <2>4. PICK stray \in Stray : updates = Dated(UnitSays(s, data, stray), date)
    BY <2>1, <2>3
  <2>5. QED
    BY <1>1, <1>2, <2>3, <2>4
<1>3. CASE ~Heard(s)
  <2>1. DecoderUpdates(s, data, stamp) = {}
    BY <1>3 DEF DecoderUpdates
  <2>2. UpdateValues(Dated({}, date) \cup fromProtocols)
    <3>1. Dated({}, date) \cup fromProtocols = fromProtocols
      BY DEF Dated
    <3>2. UpdateValues(fromProtocols)
      BY <2>1 DEF SaveFrame
    <3>3. QED
      BY <3>1, <3>2
  <2>3. QED
    BY <1>1, <1>3, <2>2
<1>4. QED
  BY <1>2, <1>3

LEMMA NextKeepsTraffic == ASSUME [Next]_vars PROVE UNCHANGED traffic
BY DEF Next, SaveFrame, Tick, Clear, vars

\* Every value that is there keeps a shape and a date.
LEMMA ValuesSaved ==
  ASSUME TypeOK, NEW i \in Signals, NEW c, NEW stamp \in traffic.stamps, SaveFrame(i, c, stamp),
         NEW key \in DOMAIN values'
  PROVE  values'[key].value[1] \in Shapes /\ values'[key].lastUpdate \in Nat
<1> DEFINE s    == traffic.signals[i]
           data == s.data[c]
           told1(heard, date) ==
             Dated(heard, date) \cup When(Changed(<<s.bus, s.id>>, data), ProtocolUpdates(s, data))
<1>1. PICK heard, date :
        /\ date \in Nat
        /\ IF Heard(s) THEN \E stray \in Stray : heard = UnitSays(s, data, stray) ELSE heard = {}
        /\ UpdateValues(told1(heard, date))
  BY Saved
<1>2. \A u \in told1(heard, date) : u[2][1] \in Shapes /\ u[3] \in Nat
  <2>1. now \in Nat
    BY SecondsAssumption DEF TypeOK
  <2>2. \A w \in heard : w[2][1] \in Shapes
    BY <1>1, UnitsSay
  <2>3. QED
    BY <1>1, <2>1, <2>2, ProtocolsSay DEF Dated, ProtocolUpdates, When
<1> HIDE DEF told1
<1>3. CASE \E u \in told1(heard, date) : values'[key] = [value |-> u[2], lastUpdate |-> u[3]]
  BY <1>2, <1>3
<1>4. CASE key \in DOMAIN values /\ values'[key] = values[key]
  BY <1>4 DEF TypeOK, Shapes
<1>5. QED
  BY <1>1, <1>3, <1>4, KeyAfter

LEMMA InitTyped == Init => TypeOK
BY SecondsAssumption DEF Init, TypeOK, Empty

LEMMA NextTyped == TypeOK /\ IInv' /\ [Next]_vars => TypeOK'
<1> SUFFICES ASSUME TypeOK, IInv', [Next]_vars PROVE TypeOK'
  OBVIOUS
<1>1. traffic' = traffic /\ Signals' = Signals
  BY NextKeepsTraffic DEF Signals
<1>2. \A at \in DOMAIN frames' :
        /\ frames'[at].timeStamp \in 0 .. (Wrap - 1) \div 2
        /\ frames'[at].avgTime \in 0 .. (Wrap - 1) \div 2
        /\ frames'[at].gap \in Nat /\ frames'[at].excess \in Nat
  BY DEF IInv, Paced, Half
<1>3. traffic.seconds \in Nat
  BY SecondsAssumption DEF TypeOK
<1>4. now' \in 0 .. traffic'.seconds /\ DOMAIN told' = Signals'
  <2>1. ASSUME NEW i \in Signals, NEW c, NEW stamp, SaveFrame(i, c, stamp)
        PROVE  now' = now /\ DOMAIN told' = DOMAIN told
    BY <2>1 DEF SaveFrame
  <2>2. CASE Tick
    BY <1>1, <1>3, <2>2 DEF Tick, TypeOK
  <2>3. CASE Clear
    BY <1>1, <2>3 DEF Clear, TypeOK
  <2>4. CASE UNCHANGED vars
    BY <1>1, <2>4 DEF vars, TypeOK
  <2>5. QED
    BY <1>1, <2>1, <2>2, <2>3, <2>4 DEF Next, TypeOK
<1>5. ASSUME NEW key \in DOMAIN values'
      PROVE  values'[key].value[1] \in Shapes /\ values'[key].lastUpdate \in Nat
  <2>1. CASE Next /\ ~(Tick \/ Clear)
    BY <2>1, <1>5, ValuesSaved DEF Next
  <2>2. CASE Tick \/ Clear \/ UNCHANGED vars
    BY <2>2, <1>5 DEF Tick, Clear, Empty, vars, TypeOK, Shapes
  <2>3. QED
    BY <2>1, <2>2
<1>6. QED
  BY <1>1, <1>2, <1>4, <1>5 DEF TypeOK, Shapes

\* Type correctness: stamps, averages and paces stay unsigned longs, whatever their
\* width, and every value has one of the four shapes, whatever bytes came.
THEOREM TypeCorrect == Spec => []TypeOK
BY InitTyped, NextTyped, InitPaced, NextPaced, PTL DEF Spec

-----------------------------------------------------------------------------
(* What a save does to the reading of a signal's key, in a readable car.   *)

\* A save of another key's signal, one that is not valid, and one of a frame that
\* repeats leave the value as it was.
LEMMA NotSaid ==
  ASSUME TypeOK, CarsAreReadable, NEW i \in Signals, NEW c \in DOMAIN traffic.signals[i].data,
         NEW stamp \in traffic.stamps, SaveFrame(i, c, stamp), NEW j \in Signals,
         LET s   == traffic.signals[i]
             key == traffic.signals[j].key
         IN \/ s.key # key \/ c = Invalid
            \/ ~OfUnit(traffic.signals[j]) /\ ~Changed(<<s.bus, s.id>>, s.data[c])
  PROVE  LET key == traffic.signals[j].key IN
         /\ key \in DOMAIN values' <=> key \in DOMAIN values
         /\ key \in DOMAIN values => values'[key] = values[key]
<1> DEFINE s    == traffic.signals[i]
           key  == traffic.signals[j].key
           data == s.data[c]
<1>1. PICK heard, date :
        /\ IF Heard(s) THEN \E stray \in Stray : heard = UnitSays(s, data, stray) ELSE heard = {}
        /\ UpdateValues(Dated(heard, date)
                          \cup When(Changed(<<s.bus, s.id>>, data), ProtocolUpdates(s, data)))
  BY Saved
<1>2. SaysNoOther(traffic, s, c)
  BY DEF CarsAreReadable, Readable, TypeOK, Signals
<1>3. ASSUME s.key # key \/ c = Invalid
      PROVE  \A u \in ProtocolSays(s, data) \cup heard : u[1] # key
  BY <1>1, <1>2, <1>3 DEF SaysNoOther, Signals
<1>4. ASSUME ~OfUnit(traffic.signals[j])
      PROVE  \A u \in heard : u[1] # key
  BY <1>1, <1>4, UnitsSay DEF OfUnit, UnitKinds
<1>5. \A u \in Dated(heard, date)
                 \cup When(Changed(<<s.bus, s.id>>, data), ProtocolUpdates(s, data)) : u[1] # key
  BY <1>3, <1>4 DEF Dated, ProtocolUpdates, When
<1>6. QED
  BY <1>1, <1>5, KeyAfter

\* A valid save of a unit's signal: the value is one the unit was heard to say.
LEMMA UnitSaid ==
  ASSUME TypeOK, CarsAreReadable, NEW i \in Signals,
         NEW c \in DOMAIN traffic.signals[i].data \ {Invalid},
         NEW stamp \in traffic.stamps, SaveFrame(i, c, stamp), FromUnit(i)
  PROVE  LET s == traffic.signals[i] IN
         /\ s.key \in DOMAIN values'
         /\ \E stray \in Stray : values'[s.key].value \in Own(s, UnitSays(s, s.data[c], stray))
<1> DEFINE s    == traffic.signals[i]
           data == s.data[c]
<1>1. PICK heard, date :
        /\ IF Heard(s) THEN \E stray \in Stray : heard = UnitSays(s, data, stray) ELSE heard = {}
        /\ UpdateValues(Dated(heard, date)
                          \cup When(Changed(<<s.bus, s.id>>, data), ProtocolUpdates(s, data)))
  BY Saved
<1>2. OfUnit(s) /\ IsSaid(s, c)
  BY DEF CarsAreReadable, Readable, TypeOK, Signals, FromUnit
<1>3. PICK stray \in Stray : heard = UnitSays(s, data, stray)
  BY <1>1, <1>2 DEF IsSaid
<1>4. Own(s, heard) # {}
  BY <1>2, <1>3 DEF IsSaid
<1>5. \E u \in Dated(heard, date) : u[1] = s.key
  <2> HIDE DEF s
  <2>1. QED
    BY <1>4, DatedSay
<1>6. \A u \in Dated(heard, date)
                 \cup When(Changed(<<s.bus, s.id>>, data), ProtocolUpdates(s, data)) :
        u[1] = s.key => u[2] \in Own(s, heard)
  BY <1>2, ProtocolsSay DEF OfUnit, UnitKinds, Own, Dated, ProtocolUpdates, When
<1> DEFINE updates == Dated(heard, date)
                        \cup When(Changed(<<s.bus, s.id>>, data), ProtocolUpdates(s, data))
           own     == Own(s, heard)
<1>7. /\ UpdateValues(updates) /\ \E u \in updates : u[1] = s.key
      /\ \A u \in updates : u[1] = s.key => u[2] \in own
  BY <1>1, <1>5, <1>6
<1> HIDE DEF updates, own, s
<1>8. s.key \in DOMAIN values' /\ values'[s.key].value \in own
  <2>1. s.key \in DOMAIN values'
    BY <1>7, KeyAfter
  <2>2. CASE \E u \in updates : u[1] = s.key /\ values'[s.key] = [value |-> u[2], lastUpdate |-> u[3]]
    BY <1>7, <2>1, <2>2
  <2>3. CASE /\ s.key \in DOMAIN values /\ values'[s.key] = values[s.key]
             /\ \A u \in updates : u[1] = s.key => values[s.key].value = u[2]
    BY <1>7, <2>1, <2>3
  <2>4. QED
    BY <1>7, <2>2, <2>3, KeyAfter
<1>9. QED
  BY <1>3, <1>8 DEF own, s

\* A valid save of another signal whose frame is new or has changed: the value is one
\* that the protocols say, stored now unless it was there.
LEMMA ProtocolSaid ==
  ASSUME TypeOK, CarsAreReadable, NEW i \in Signals,
         NEW c \in DOMAIN traffic.signals[i].data \ {Invalid},
         NEW stamp \in traffic.stamps, SaveFrame(i, c, stamp), ~FromUnit(i),
         Changed(<<traffic.signals[i].bus, traffic.signals[i].id>>, traffic.signals[i].data[c])
  PROVE  LET s == traffic.signals[i] IN
         /\ s.key \in DOMAIN values'
         /\ values'[s.key].value \in Own(s, ProtocolSays(s, s.data[c]))
         /\ \/ values'[s.key].lastUpdate = now
            \/ s.key \in DOMAIN values /\ values'[s.key] = values[s.key]
<1> DEFINE s    == traffic.signals[i]
           data == s.data[c]
           own  == Own(s, ProtocolSays(s, data))
<1>1. PICK heard, date :
        /\ IF Heard(s) THEN \E stray \in Stray : heard = UnitSays(s, data, stray) ELSE heard = {}
        /\ UpdateValues(Dated(heard, date) \cup ProtocolUpdates(s, data))
  BY Saved DEF When
<1>2. ~OfUnit(s) /\ IsSaid(s, c)
  BY DEF CarsAreReadable, Readable, TypeOK, Signals, FromUnit
<1>3. \E u \in ProtocolUpdates(s, data) : u[1] = s.key
  <2>1. own # {} /\ ProtocolUpdates(s, data) = Dated(ProtocolSays(s, data), now)
    BY <1>2 DEF IsSaid, ProtocolUpdates
  <2> HIDE DEF s, data
  <2>2. QED
    BY <2>1, DatedSay
<1>4. \A u \in Dated(heard, date) : u[1] # s.key
  BY <1>1, <1>2, UnitsSay DEF OfUnit, UnitKinds, Dated
<1>5. \A u \in ProtocolUpdates(s, data) : u[3] = now /\ (u[1] = s.key => u[2] \in own)
  BY DEF ProtocolUpdates, Dated, Own
<1> DEFINE updates == Dated(heard, date) \cup ProtocolUpdates(s, data)
<1>6. UpdateValues(updates) /\ \E u \in updates : u[1] = s.key
  BY <1>1, <1>3
<1>7. \A u \in updates : u[1] = s.key => u[3] = now /\ u[2] \in own
  BY <1>4, <1>5
<1> HIDE DEF updates, own, s
<1>8. /\ s.key \in DOMAIN values' /\ values'[s.key].value \in own
      /\ \/ values'[s.key].lastUpdate = now
         \/ s.key \in DOMAIN values /\ values'[s.key] = values[s.key]
  <2>1. s.key \in DOMAIN values'
    BY <1>6, KeyAfter
  <2>2. CASE \E u \in updates : u[1] = s.key /\ values'[s.key] = [value |-> u[2], lastUpdate |-> u[3]]
    BY <1>7, <2>1, <2>2
  <2>3. CASE /\ s.key \in DOMAIN values /\ values'[s.key] = values[s.key]
             /\ \A u \in updates : u[1] = s.key => values[s.key].value = u[2]
    BY <1>6, <1>7, <2>1, <2>3
  <2>4. QED
    BY <1>6, <2>2, <2>3, KeyAfter
<1>9. QED
  BY <1>8 DEF own, s
-----------------------------------------------------------------------------
(* Histories: what was told last is a valid content, and a stored frame is *)
(* the last that its signal told, or says nothing valid.                   *)

ToldInv ==
  \A i \in Signals :
    told[i] # Untold =>
      /\ told[i].content \in DOMAIN traffic.signals[i].data \ {Invalid}
      /\ told[i].since \in Nat /\ told[i].since <= now

\* Frame at is content d of signal j.
Holds(at, j, d) ==
  LET s == traffic.signals[j] IN
  /\ d \in DOMAIN s.data /\ at = <<s.bus, s.id>> /\ frames[at].data = s.data[d]
  /\ d # Invalid => told[j] # Untold /\ told[j].content = d

FrameInv == \A at \in DOMAIN frames : \E j \in Signals : \E d \in DOMAIN traffic.signals[j].data : Holds(at, j, d)

HistInv == TypeOK /\ ToldInv /\ FrameInv

\* A save marks its own signal, when the content is valid and another than before.
LEMMA ToldAfter ==
  ASSUME TypeOK, NEW i \in Signals, NEW c, NEW stamp, SaveFrame(i, c, stamp), NEW j \in Signals
  PROVE  told'[j] = IF j = i /\ c # Invalid /\ c # told[i].content
                      THEN [content |-> c, since |-> now] ELSE told[j]
BY DEF SaveFrame, TypeOK

\* After a valid content is saved it is what the signal has told.
LEMMA ToldNow ==
  ASSUME TypeOK, ToldInv, NEW i \in Signals, NEW c \in DOMAIN traffic.signals[i].data \ {Invalid},
         NEW stamp, SaveFrame(i, c, stamp)
  PROVE  /\ told'[i] # Untold /\ told'[i].content = c
         /\ told'[i].since \in Nat /\ told'[i].since <= now
<1>1. now \in Nat
  BY SecondsAssumption DEF TypeOK
<1>2. CASE c # told[i].content
  <2>1. told'[i] = [content |-> c, since |-> now]
    BY <1>2, ToldAfter
  <2>2. QED
    BY <1>1, <2>1 DEF Untold
<1>3. CASE c = told[i].content
  <2>1. told'[i] = told[i]
    BY <1>3, ToldAfter
  <2>2. told[i] # Untold
    BY <1>3 DEF Untold
  <2>3. QED
    BY <1>3, <2>1, <2>2 DEF ToldInv
<1>4. QED
  BY <1>2, <1>3

LEMMA InitHist == Init => HistInv
<1>1. Init => TypeOK
  BY InitTyped
<1>2. Init => ToldInv /\ FrameInv
  BY DEF Init, ToldInv, FrameInv, Empty
<1>3. QED
  BY <1>1, <1>2 DEF HistInv

\* Histories through one save.
LEMMA SaveKeepsHist ==
  ASSUME HistInv, NEW i \in Signals, NEW c \in DOMAIN traffic.signals[i].data,
         NEW stamp \in traffic.stamps, SaveFrame(i, c, stamp)
  PROVE  ToldInv' /\ FrameInv'
<1> DEFINE s  == traffic.signals[i]
           at == <<s.bus, s.id>>
<1>1. traffic' = traffic /\ now' = now /\ Signals' = Signals
  BY DEF SaveFrame, Signals
<1>2. TypeOK /\ ToldInv /\ FrameInv
  BY DEF HistInv
<1>3. ToldInv'
  <2> SUFFICES ASSUME NEW j \in Signals, told'[j] # Untold
               PROVE  /\ told'[j].content \in DOMAIN traffic.signals[j].data \ {Invalid}
                      /\ told'[j].since \in Nat /\ told'[j].since <= now
    BY <1>1 DEF ToldInv
  <2>1. CASE j = i /\ c # Invalid
    BY <1>2, <2>1, ToldNow
  <2>2. CASE ~(j = i /\ c # Invalid)
    <3>1. told'[j] = told[j]
      BY <1>2, <2>2, ToldAfter
    <3>2. QED
      BY <1>2, <3>1 DEF ToldInv
  <2>3. QED
    BY <2>1, <2>2
<1>4. FrameInv'
  <2>1. /\ DOMAIN frames' = DOMAIN frames \cup {at}
        /\ frames'[at].data = s.data[c]
        /\ \A a \in DOMAIN frames \ {at} : frames'[a] = frames[a]
    BY DEF SaveFrame, StoreFrame, Entry
  <2> SUFFICES ASSUME NEW a \in DOMAIN frames'
               PROVE  \E j \in Signals : \E d \in DOMAIN traffic.signals[j].data : Holds(a, j, d)'
    BY <1>1 DEF FrameInv
  <2>2. CASE a = at
    <3>1. c # Invalid => told'[i] # Untold /\ told'[i].content = c
      BY <1>2, ToldNow
    <3>2. Holds(a, i, c)'
      BY <1>1, <2>1, <2>2, <3>1 DEF Holds
    <3>3. QED
      BY <3>2
  <2>3. CASE a # at
    <3>1. PICK j \in Signals : \E d \in DOMAIN traffic.signals[j].data : Holds(a, j, d)
      BY <1>2, <2>1, <2>3 DEF FrameInv
    <3>2. PICK d \in DOMAIN traffic.signals[j].data : Holds(a, j, d)
      BY <3>1
    <3>3. j # i
      BY <2>3, <3>2 DEF Holds
    <3>4. told'[j] = told[j]
      BY <1>2, <3>3, ToldAfter
    <3>5. frames'[a] = frames[a]
      BY <2>1, <2>3
    <3>6. Holds(a, j, d)'
      BY <1>1, <3>2, <3>4, <3>5 DEF Holds
    <3>7. QED
      BY <3>6
  <2>4. QED
    BY <2>2, <2>3
<1>5. QED
  BY <1>3, <1>4

LEMMA NextHist == HistInv /\ IInv' /\ [Next]_vars => HistInv'
<1> SUFFICES ASSUME HistInv, IInv', [Next]_vars PROVE HistInv'
  OBVIOUS
<1>1. TypeOK'
  BY NextTyped DEF HistInv
<1>2. traffic' = traffic /\ Signals' = Signals
  BY NextKeepsTraffic DEF Signals
<1>3. ASSUME NEW i \in Signals, NEW c \in DOMAIN traffic.signals[i].data,
             NEW stamp \in traffic.stamps, SaveFrame(i, c, stamp)
      PROVE  ToldInv' /\ FrameInv'
  BY <1>3, SaveKeepsHist
<1>4. CASE Tick
  <2>1. now \in Nat /\ now' = now + 1
    BY <1>4, SecondsAssumption DEF Tick, HistInv, TypeOK
  <2>2. told' = told /\ frames' = frames
    BY <1>4 DEF Tick
  <2>3. ToldInv'
    BY <1>2, <2>1, <2>2 DEF HistInv, ToldInv
  <2>4. FrameInv'
    BY <1>2, <2>2 DEF HistInv, FrameInv, Holds
  <2>5. QED
    BY <1>1, <2>3, <2>4 DEF HistInv
<1>5. CASE Clear
  BY <1>1, <1>2, <1>5 DEF Clear, Empty, ToldInv, FrameInv, HistInv
<1>6. CASE UNCHANGED vars
  BY <1>1, <1>2, <1>6 DEF vars, HistInv, ToldInv, FrameInv, Holds
<1>7. QED
  BY <1>1, <1>3, <1>4, <1>5, <1>6 DEF HistInv, Next

\* The frame filter hides nothing: a frame that repeats the stored one is what its
\* signal told last.
LEMMA RepeatsSayNothing ==
  ASSUME HistInv, CarsAreReadable, NEW i \in Signals,
         NEW c \in DOMAIN traffic.signals[i].data \ {Invalid},
         ~Changed(<<traffic.signals[i].bus, traffic.signals[i].id>>, traffic.signals[i].data[c])
  PROVE  told[i].content = c
<1> DEFINE s  == traffic.signals[i]
           at == <<s.bus, s.id>>
<1>1. at \in DOMAIN frames /\ frames[at].data = s.data[c]
  BY DEF Changed
<1>2. PICK j \in Signals : \E d \in DOMAIN traffic.signals[j].data : Holds(at, j, d)
  BY <1>1 DEF HistInv, FrameInv
<1>3. PICK d \in DOMAIN traffic.signals[j].data : Holds(at, j, d)
  BY <1>2
<1>4. BytesTell(traffic)
  BY DEF HistInv, TypeOK, CarsAreReadable, Readable
<1>5. i = j /\ c = d
  BY <1>1, <1>3, <1>4 DEF BytesTell, Holds, Signals
<1>6. QED
  BY <1>3, <1>5 DEF Holds

\* A save that says nothing new of a key leaves what its signals have told.
LEMMA NothingTold ==
  ASSUME HistInv, CarsAreReadable, NEW i \in Signals, NEW c \in DOMAIN traffic.signals[i].data,
         NEW stamp \in traffic.stamps, SaveFrame(i, c, stamp), NEW j \in Signals,
         LET s == traffic.signals[i] IN
         \/ s.key # traffic.signals[j].key \/ c = Invalid
         \/ ~OfUnit(traffic.signals[j]) /\ ~Changed(<<s.bus, s.id>>, s.data[c])
  PROVE  \A k \in Signals : traffic.signals[k].key = traffic.signals[j].key => told'[k] = told[k]
<1> SUFFICES ASSUME NEW k \in Signals, traffic.signals[k].key = traffic.signals[j].key
             PROVE  told'[k] = told[k]
  OBVIOUS
<1>1. CASE k # i \/ c = Invalid
  BY <1>1, ToldAfter DEF HistInv
<1>2. CASE k = i /\ c # Invalid
  <2>1. told[i].content = c
    BY <1>2, RepeatsSayNothing
  <2>2. QED
    BY <1>2, <2>1, ToldAfter DEF HistInv
<1>3. QED
  BY <1>1, <1>2
-----------------------------------------------------------------------------
(* What the user reads is what the car said last.                          *)

\* The last step of the three: ticks leave all, and a clear leaves nothing told.
LEMMA TicksAndClears ==
  ASSUME [Next]_vars,
         ~\E i \in Signals : \E c \in DOMAIN traffic.signals[i].data, stamp \in traffic.stamps :
            SaveFrame(i, c, stamp)
  PROVE  \/ told' = told /\ values' = values
         \/ values' = Empty /\ told' = [i \in Signals |-> Untold]
BY DEF Next, Tick, Clear, vars

\* What a save says that the reading already says.
LEMMA ReadingKept ==
  ASSUME HistInv, CarsAreReadable, ReadingsAreTrue,
         NEW i \in Signals, NEW c \in DOMAIN traffic.signals[i].data,
         NEW stamp \in traffic.stamps, SaveFrame(i, c, stamp), NEW j \in Signals,
         LET s == traffic.signals[i] IN
         \/ s.key # traffic.signals[j].key \/ c = Invalid
         \/ ~Changed(<<s.bus, s.id>>, s.data[c]),
         told'[j] # Untold, traffic.signals[j].key \notin Misread, ~FromUnit(j)
  PROVE  LET key == traffic.signals[j].key IN
         /\ key \in DOMAIN values'
         /\ \E k \in Signals :
              /\ traffic.signals[k].key = key /\ told'[k] # Untold
              /\ Drawn(Unit(key), values'[key].value) = traffic.signals[k].means[told'[k].content]
<1> DEFINE key == traffic.signals[j].key
<1>1. \A k \in Signals : traffic.signals[k].key = key => told'[k] = told[k]
  BY NothingTold DEF FromUnit
<1>2. /\ key \in DOMAIN values' <=> key \in DOMAIN values
      /\ key \in DOMAIN values => values'[key] = values[key]
  BY NotSaid DEF FromUnit, HistInv
<1>3. told[j] # Untold
  BY <1>1
<1>4. key \in DOMAIN values /\ \E k \in Sources(key) : Reading(key) = Meaning(k)
  BY <1>3 DEF ReadingsAreTrue
<1>5. PICK k \in Signals : /\ traffic.signals[k].key = key /\ told[k] # Untold
                           /\ Reading(key) = Meaning(k)
  BY <1>4 DEF Sources
<1>6. told'[k] = told[k]
  BY <1>1, <1>5
<1>7. Drawn(Unit(key), values'[key].value) = traffic.signals[k].means[told'[k].content]
  BY <1>2, <1>4, <1>5, <1>6 DEF Reading, Meaning
<1>8. QED
  BY <1>2, <1>4, <1>5, <1>6, <1>7

LEMMA NextReadingsTrue ==
  ASSUME CarsAreReadable, HistInv, ReadingsAreTrue, [Next]_vars
  PROVE  ReadingsAreTrue'
<1>1. traffic' = traffic /\ Signals' = Signals
  BY NextKeepsTraffic DEF Signals
<1>2. ASSUME NEW i \in Signals, NEW c \in DOMAIN traffic.signals[i].data,
             NEW stamp \in traffic.stamps, SaveFrame(i, c, stamp)
      PROVE  ReadingsAreTrue'
  <2> SUFFICES ASSUME NEW j \in Signals, told'[j] # Untold,
                      traffic.signals[j].key \notin Misread, ~FromUnit(j)
               PROVE  LET key == traffic.signals[j].key IN
                      /\ key \in DOMAIN values'
                      /\ \E k \in Signals :
                           /\ traffic.signals[k].key = key /\ told'[k] # Untold
                           /\ Drawn(Unit(key), values'[key].value)
                                = traffic.signals[k].means[told'[k].content]
    BY <1>1 DEF ReadingsAreTrue, Sources, Reading, Meaning, FromUnit
  <2> DEFINE s   == traffic.signals[i]
             key == traffic.signals[j].key
  <2>1. CASE s.key # key \/ c = Invalid \/ ~Changed(<<s.bus, s.id>>, s.data[c])
    BY <1>2, <2>1, ReadingKept
  <2>2. CASE s.key = key /\ c # Invalid /\ Changed(<<s.bus, s.id>>, s.data[c])
    <3>1. ~FromUnit(i) /\ key \notin Misread
      BY <2>2 DEF FromUnit, OfUnit
    <3>2. key \in DOMAIN values' /\ values'[key].value \in Own(s, ProtocolSays(s, s.data[c]))
      BY <1>2, <2>2, <3>1, ProtocolSaid DEF HistInv
    <3>3. IsSaid(s, c)
      BY <2>2 DEF HistInv, TypeOK, CarsAreReadable, Readable, Signals
    <3>4. Drawn(Unit(key), values'[key].value) = s.means[c]
      BY <2>2, <3>1, <3>2, <3>3 DEF IsSaid, FromUnit
    <3>5. told'[i] # Untold /\ told'[i].content = c
      BY <1>2, <2>2, ToldNow DEF HistInv
    <3>6. QED
      BY <2>2, <3>2, <3>4, <3>5
  <2>3. QED
    BY <2>1, <2>2
<1>3. CASE told' = told /\ values' = values
  BY <1>1, <1>3 DEF ReadingsAreTrue, Sources, Reading, Meaning, FromUnit
<1>4. CASE values' = Empty /\ told' = [i \in Signals |-> Untold]
  BY <1>1, <1>4 DEF ReadingsAreTrue
<1>5. QED
  BY <1>2, <1>3, <1>4, TicksAndClears

\* In a car whose single frames are read as they were meant, the user reads what the
\* car said last: saveFrame's filter of repeated frames, updateValue's of equal
\* values, other buses and keys, invalid frames and clears lose none of it.
THEOREM ReadingsTrue == CarsAreReadable => (Spec => []ReadingsAreTrue)
<1> SUFFICES ASSUME CarsAreReadable PROVE Spec => []ReadingsAreTrue
  OBVIOUS
<1>1. Init => ReadingsAreTrue
  BY DEF Init, ReadingsAreTrue
<1>2. HistInv /\ ReadingsAreTrue /\ [Next]_vars => ReadingsAreTrue'
  BY NextReadingsTrue
<1>3. QED
  BY <1>1, <1>2, InitHist, NextHist, InitPaced, NextPaced, PTL DEF Spec
-----------------------------------------------------------------------------
(* The radio and the amplifier: what they are heard to say is stored       *)
(* whether the frame repeats or not, with a byte that lies after it.       *)

ReadAs(value, s, c) ==
  \/ Drawn(Unit(s.key), value) = s.means[c]
  \/ ~s.long /\ HasOneMore(value, s.means[c])

UnitRead(j) ==
  LET key == traffic.signals[j].key IN
  /\ key \in DOMAIN values
  /\ \E k \in Signals : /\ traffic.signals[k].key = key /\ told[k] # Untold
                        /\ ReadAs(values[key].value, traffic.signals[k], told[k].content)

LEMMA UnitsReadAs ==
  UnitsAreRead <=> \A j \in Signals : told[j] # Untold /\ FromUnit(j) => UnitRead(j)
BY DEF UnitsAreRead, UnitRead, ReadAs, Sources, Reading, Meaning

LEMMA NextUnitsRead ==
  ASSUME CarsAreReadable, HistInv, UnitsAreRead, [Next]_vars
  PROVE  UnitsAreRead'
<1>1. traffic' = traffic /\ Signals' = Signals
  BY NextKeepsTraffic DEF Signals
<1>2. UnitsAreRead' <=> \A j \in Signals : told'[j] # Untold /\ FromUnit(j) => UnitRead(j)'
  BY <1>1 DEF UnitsAreRead, UnitRead, ReadAs, Sources, Reading, Meaning, FromUnit
<1>3. ASSUME NEW i \in Signals, NEW c \in DOMAIN traffic.signals[i].data,
             NEW stamp \in traffic.stamps, SaveFrame(i, c, stamp),
             NEW j \in Signals, told'[j] # Untold, FromUnit(j)
      PROVE  UnitRead(j)'
  <2> DEFINE s   == traffic.signals[i]
             key == traffic.signals[j].key
  <2>1. CASE s.key # key \/ c = Invalid
    <3>1. \A k \in Signals : traffic.signals[k].key = key => told'[k] = told[k]
      BY <1>3, <2>1, NothingTold
    <3>2. /\ key \in DOMAIN values' <=> key \in DOMAIN values
          /\ key \in DOMAIN values => values'[key] = values[key]
      BY <1>3, <2>1, NotSaid DEF HistInv
    <3>3. UnitRead(j)
      BY <1>3, <3>1, UnitsReadAs
    <3>4. PICK k \in Signals :
            /\ traffic.signals[k].key = key /\ told[k] # Untold
            /\ ReadAs(values[key].value, traffic.signals[k], told[k].content)
      BY <3>3 DEF UnitRead
    <3>5. key \in DOMAIN values' /\ values'[key] = values[key] /\ told'[k] = told[k]
      BY <3>1, <3>2, <3>3, <3>4 DEF UnitRead
    <3>6. QED
      BY <1>1, <3>4, <3>5 DEF UnitRead
  <2>2. CASE s.key = key /\ c # Invalid
    <3>1. FromUnit(i)
      BY <1>3, <2>2 DEF FromUnit, OfUnit
    <3>2. key \in DOMAIN values'
      BY <1>3, <2>2, <3>1, UnitSaid DEF HistInv
    <3>3. PICK stray \in Stray : values'[key].value \in Own(s, UnitSays(s, s.data[c], stray))
      BY <1>3, <2>2, <3>1, UnitSaid DEF HistInv
    <3>4. IsSaid(s, c)
      BY <1>3, <2>2 DEF HistInv, TypeOK, CarsAreReadable, Readable, Signals
    <3>5. ReadAs(values'[key].value, s, c)
      BY <3>1, <3>3, <3>4 DEF IsSaid, FromUnit, ReadAs
    <3>6. told'[i] # Untold /\ told'[i].content = c
      BY <1>3, <2>2, ToldNow DEF HistInv
    <3>7. QED
      BY <1>1, <2>2, <3>2, <3>5, <3>6 DEF UnitRead
  <2>3. QED
    BY <2>1, <2>2
<1>4. CASE told' = told /\ values' = values
  BY <1>1, <1>4 DEF UnitsAreRead, Sources, Reading, Meaning, FromUnit
<1>5. CASE values' = Empty /\ told' = [i \in Signals |-> Untold]
  BY <1>1, <1>5 DEF UnitsAreRead
<1>6. QED
  BY <1>2, <1>3, <1>4, <1>5, TicksAndClears

\* So it is with the radio and the amplifier, whatever byte lies after a frame: an
\* answer in a single frame may gain one byte or code, a long one nothing.
THEOREM UnitsRead == CarsAreReadable => (Spec => []UnitsAreRead)
<1> SUFFICES ASSUME CarsAreReadable PROVE Spec => []UnitsAreRead
  OBVIOUS
<1>1. Init => UnitsAreRead
  BY DEF Init, UnitsAreRead
<1>2. HistInv /\ UnitsAreRead /\ [Next]_vars => UnitsAreRead'
  BY NextUnitsRead
<1>3. QED
  BY <1>1, <1>2, InitHist, NextHist, InitPaced, NextPaced, PTL DEF Spec

-----------------------------------------------------------------------------
(* The date of a value: of a signal that alone tells of its key, the value *)
(* is that of the content told last, and no older than that.               *)

Current(j) ==
  LET s == traffic.signals[j] IN
  s.key \in DOMAIN values =>
    /\ told[j] # Untold
    /\ values[s.key].value \in Own(s, ProtocolSays(s, s.data[told[j].content]))
    /\ told[j].since <= values[s.key].lastUpdate

AgeInv == \A j \in Signals : Lone(j) /\ ~FromUnit(j) => Current(j)

LEMMA NextAge ==
  ASSUME CarsAreReadable, HistInv, AgeInv, [Next]_vars
  PROVE  AgeInv'
<1>1. traffic' = traffic /\ Signals' = Signals
  BY NextKeepsTraffic DEF Signals
<1>2. AgeInv' <=> \A j \in Signals : Lone(j) /\ ~FromUnit(j) => Current(j)'
  BY <1>1 DEF AgeInv, Lone, FromUnit
<1>3. ASSUME NEW i \in Signals, NEW c \in DOMAIN traffic.signals[i].data,
             NEW stamp \in traffic.stamps, SaveFrame(i, c, stamp),
             NEW j \in Signals, Lone(j), ~FromUnit(j)
      PROVE  Current(j)'
  <2> DEFINE s   == traffic.signals[i]
             key == traffic.signals[j].key
  <2>1. Current(j)
    BY <1>3 DEF AgeInv
  <2>2. CASE s.key # key \/ c = Invalid \/ ~Changed(<<s.bus, s.id>>, s.data[c])
    <3>1. told'[j] = told[j]
      BY <1>3, <2>2, NothingTold DEF FromUnit
    <3>2. /\ key \in DOMAIN values' <=> key \in DOMAIN values
          /\ key \in DOMAIN values => values'[key] = values[key]
      BY <1>3, <2>2, NotSaid DEF FromUnit, HistInv
    <3>3. QED
      BY <1>1, <2>1, <3>1, <3>2 DEF Current
  <2>3. CASE s.key = key /\ c # Invalid /\ Changed(<<s.bus, s.id>>, s.data[c])
    <3>1. j = i
      BY <1>3, <2>3 DEF Lone
    <3>2. /\ told'[i] # Untold /\ told'[i].content = c
          /\ told'[i].since \in Nat /\ told'[i].since <= now
      BY <1>3, <2>3, ToldNow DEF HistInv
    <3>3. /\ key \in DOMAIN values'
          /\ values'[key].value \in Own(s, ProtocolSays(s, s.data[c]))
          /\ \/ values'[key].lastUpdate = now
             \/ key \in DOMAIN values /\ values'[key] = values[key]
      BY <1>3, <2>3, <3>1, ProtocolSaid DEF HistInv
    <3>4. CASE values'[key].lastUpdate = now
      BY <1>1, <3>1, <3>2, <3>3, <3>4 DEF Current
    <3>5. CASE key \in DOMAIN values /\ values'[key] = values[key]
      <4>1. /\ told[i] # Untold /\ told[i].since <= values[key].lastUpdate
            /\ values[key].value \in Own(s, ProtocolSays(s, s.data[told[i].content]))
        BY <2>1, <3>1, <3>5 DEF Current
      <4>2. told[i].content \in DOMAIN s.data \ {Invalid}
        BY <4>1 DEF HistInv, ToldInv
      <4>3. ContentsDiffer(s)
        BY <1>3, <3>1 DEF FromUnit, HistInv, TypeOK, CarsAreReadable, Readable, Signals
      <4>4. told[i].content = c
        BY <2>3, <3>3, <3>5, <4>1, <4>2, <4>3 DEF ContentsDiffer
      <4>5. told'[i] = told[i]
        BY <1>3, <4>4, ToldAfter DEF HistInv
      <4>6. QED
        BY <1>1, <3>1, <3>5, <4>1, <4>5 DEF Current
    <3>6. QED
      BY <3>3, <3>4, <3>5
  <2>4. QED
    BY <2>2, <2>3
<1>4. CASE told' = told /\ values' = values
  BY <1>1, <1>4 DEF AgeInv, Lone, FromUnit, Current
<1>5. CASE values' = Empty /\ told' = [i \in Signals |-> Untold]
  BY <1>2, <1>5 DEF Current, Empty
<1>6. QED
  BY <1>2, <1>3, <1>4, <1>5, TicksAndClears

LEMMA OldSinceLong == HistInv /\ AgeInv => OldIsUnchanged
<1> SUFFICES ASSUME HistInv, AgeInv,
                    NEW i \in Signals, told[i] # Untold, Lone(i), ~FromUnit(i),
                    traffic.signals[i].key \in DOMAIN values, IsOld(traffic.signals[i].key)
             PROVE  now - told[i].since > OldAfter
  BY DEF OldIsUnchanged
<1> DEFINE last == values[traffic.signals[i].key].lastUpdate
<1>1. now \in Nat /\ last \in Nat /\ told[i].since \in Nat
  BY SecondsAssumption DEF HistInv, TypeOK, ToldInv
<1>2. told[i].since <= last
  BY DEF AgeInv, Current
<1>3. last < now - OldAfter
  BY DEF IsOld
<1>4. QED
  BY <1>1, <1>2, <1>3, OldAfterAssumption

\* What is drawn as old has not changed on the bus for longer than OldAfter, in a car
\* whose contents are different values: no filter of saveFrame and updateValue keeps
\* an old date for what has changed.
THEOREM OldUnchanged == CarsAreReadable => (Spec => []OldIsUnchanged)
<1> SUFFICES ASSUME CarsAreReadable PROVE Spec => []OldIsUnchanged
  OBVIOUS
<1>1. Init => AgeInv
  BY DEF Init, AgeInv, Current, Empty
<1>2. HistInv /\ AgeInv /\ [Next]_vars => AgeInv'
  BY NextAge
<1>3. QED
  BY <1>1, <1>2, OldSinceLong, InitHist, NextHist, InitPaced, NextPaced, PTL DEF Spec

-----------------------------------------------------------------------------
(* Engine speeds and temperatures: from the bytes of a frame to what is    *)
(* drawn, for every content.                                               *)

\* What is taken from a frame: no unit is heard, and of its own key one value.
OthersInFrame(s) ==
  CASE s.id = \h0C9 -> {<<"GM", "ENGINE_RUNNING">>}
    [] s.id = \h4C1 -> {<<"GM", "BAROMETRIC_PRESSURE">>, <<"GM", "TEMP_COOLANT">>,
                       <<"GM", "TEMP_AIR_INTAKE">>, <<"GM", "TEMP_AIR_AMBIENT">>}
    [] OTHER -> {}
Conveys(s, c, value) ==
  LET said == ProtocolSays(s, s.data[c]) IN
  /\ ~Heard(s) /\ ~OfUnit(s)
  /\ IF c = Invalid THEN said = {} ELSE <<s.key, value>> \in said
  /\ \A u \in said : u = <<s.key, value>> \/ u[1] \in OthersInFrame(s) \ {s.key}

LEMMA SmallRemainder ==
  ASSUME NEW w \in Nat \ {0}, NEW n \in Nat, n < w
  PROVE  n % w = n
OBVIOUS

\* The units of the keys.
LEMMA SpeedUnit == OBDUnit(OBD(1, \h0C)) = "RPM"
<1>1. PidUnit(12) = "RPM"
  BY DEF PidUnit, PercentPids, SupportedPids
<1>2. QED
  BY <1>1 DEF OBDUnit, OBD

LEMMA TemperatureUnit ==
  ASSUME NEW pid \in {\h05, \h0F, \h46, \h5C}
  PROVE  OBDUnit(OBD(1, pid)) = "DEGREES_C"
<1>1. PidUnit(pid) = "DEGREES_C"
  BY DEF PidUnit, PercentPids, SupportedPids
<1>2. QED
  BY <1>1 DEF OBDUnit, OBD

LEMMA ToldAlone ==
  ASSUME NEW s, NEW c, c # Invalid, ~Heard(s), ~OfUnit(s), NEW value,
         ProtocolSays(s, s.data[c]) = {<<s.key, value>>}
  PROVE  Conveys(s, c, value)
BY DEF Conveys

LEMMA GMFrameHeard ==
  ASSUME NEW s, ~s.long, s.bus = "can1", s.key[1] = "GM", s.id \in {\h0C9, \h4C1, \h4C9}
  PROVE  /\ ~Heard(s) /\ ~OfUnit(s) /\ s.id \notin Ecus
         /\ \A d : ProtocolSays(s, d) = GMUpdates(s.id, d)
<1>1. ~IsOBD(s.id) /\ s.id \notin Ecus
  BY DEF IsOBD, Ecus
<1>2. QED
  BY <1>1 DEF Heard, OfUnit, ProtocolSays, When

LEMMA EcuFrameHeard ==
  ASSUME NEW s, ~s.long, s.bus \in ObdBuses, s.key[1] = "OBD", s.id \in Ecus
  PROVE  /\ ~Heard(s) /\ ~OfUnit(s)
         /\ \A d : ProtocolSays(s, d) = SingleFrame(s.id, d)
<1>1. s.id \in Int /\ s.id >= 2024 /\ s.id <= 2031
  BY DEF Ecus
<1>2. IsOBD(s.id)
  BY <1>1 DEF IsOBD
<1>3. s.id \notin Decoded
  BY <1>1 DEF Decoded, Radio, Amplifier
<1>4. \A d : GMUpdates(s.id, d) = {} /\ JeepUpdates(s.id, d) = {}
  BY <1>1 DEF GMUpdates, JeepUpdates
<1>5. QED
  BY <1>2, <1>3, <1>4 DEF Heard, OfUnit, ProtocolSays, When
LEMMA JeepSpeedTold ==
  ASSUME NEW s, ~s.long, EngineSpeed(s), JeepSpeedFrames(s), NEW c \in DOMAIN s.data
  PROVE  Conveys(s, c, Number(4 * c))
<1>1. s.id = 718 /\ s.key = <<"JK", "RPM">> /\ s.bus = "can0"
  BY DEF JeepSpeedFrames
<1>2. ~IsOBD(s.id) /\ ~Heard(s) /\ ~OfUnit(s)
  <2>1. s.id \notin Decoded /\ s.id \div 256 = 2
    BY <1>1 DEF Decoded, Radio, Amplifier
  <2>2. QED
    BY <1>1, <2>1 DEF IsOBD, Heard, OfUnit
<1>3. ProtocolSays(s, s.data[c]) = EngineRPM(s.data[c])
  <2>1. JeepUpdates(s.id, s.data[c]) = EngineRPM(s.data[c])
    BY <1>1 DEF JeepUpdates
  <2>2. QED
    BY <1>1, <1>2, <2>1 DEF ProtocolSays, When
<1>4. Word(s.data[c][0], s.data[c][1]) = IF c = Invalid THEN 65535 ELSE c
  BY DEF JeepSpeedFrames
<1> HIDE DEF Word
<1>5. CASE c = Invalid
  BY <1>2, <1>3, <1>4, <1>5 DEF EngineRPM, When, Conveys
<1>6. CASE c # Invalid
  <2>1. c \in Nat /\ c < 16384
    BY <1>6 DEF EngineSpeed
  <2>2. 4 * c \in Nat /\ 4 * c < 65536 /\ c # 65535
    BY <2>1
  <2>3. (4 * c) % 65536 = 4 * c
    BY <2>2, SmallRemainder
  <2>4. EngineRPM(s.data[c]) = {<<s.key, Number(4 * c)>>}
    BY <1>1, <1>4, <1>6, <2>2, <2>3 DEF EngineRPM, When, JK
  <2>5. QED
    BY <1>2, <1>3, <1>6, <2>4, ToldAlone
<1>7. QED
  BY <1>5, <1>6

LEMMA GMSpeedTold ==
  ASSUME NEW s, ~s.long, GMSpeedFrames(s), NEW c \in DOMAIN s.data
  PROVE  Conveys(s, c, Number(4 * c)) /\ c # Invalid
<1> DEFINE d == s.data[c]
<1>1. /\ s.id = \h0C9 /\ s.key = <<"GM", "ENGINE_RPM">> /\ s.bus = "can1" /\ c # Invalid
      /\ Word(d[1], d[2]) = 4 * c
  BY DEF GMSpeedFrames
<1>2. ~Heard(s) /\ ~OfUnit(s) /\ s.id \notin Ecus /\ ProtocolSays(s, d) = EngineGenStatus1(d)
  BY <1>1, GMFrameHeard DEF GMUpdates
<1>3. EngineGenStatus1(d) = {GM("ENGINE_RUNNING", Number(Bit(d[0], 7))), <<s.key, Number(4 * c)>>}
  BY <1>1 DEF EngineGenStatus1, GM
<1> HIDE DEF d
<1>4. <<s.key, Number(4 * c)>> \in ProtocolSays(s, d)
  BY <1>2, <1>3
<1>5. \A u \in ProtocolSays(s, d) :
        u = <<s.key, Number(4 * c)>> \/ u[1] \in OthersInFrame(s) \ {s.key}
  BY <1>1, <1>2, <1>3 DEF GM, OthersInFrame
<1>6. QED
  BY <1>1, <1>2, <1>4, <1>5 DEF Conveys, d

LEMMA OBDSpeedTold ==
  ASSUME NEW s, ~s.long, OBDSpeedFrames(s), NEW c \in DOMAIN s.data
  PROVE  Conveys(s, c, Number(4 * c)) /\ c # Invalid
<1> DEFINE f == s.data[c]
           d == Slice(f, 3, 2)
<1>1. /\ s.key = OBD(1, 12) /\ s.bus \in ObdBuses /\ s.id \in Ecus /\ c # Invalid
      /\ f[0] = 4 /\ f[1] = 65 /\ f[2] = 12 /\ Word(f[3], f[4]) = 4 * c
  BY DEF OBDSpeedFrames
<1>2. ~Heard(s) /\ ~OfUnit(s) /\ ProtocolSays(s, f) = SingleFrame(s.id, f)
  BY <1>1, EcuFrameHeard DEF OBD
<1>3. SingleFrame(s.id, f) = Response(s.id, 1, 12, d, 2)
  BY <1>1 DEF SingleFrame, When, Bit
<1>4. Schema(s.id, 1, 12, d[0]) = {OBD(1, 12)}
  BY DEF Schema, SupportedPids
<1>5. OBDUnit(OBD(1, 12)) = "RPM"
  BY SpeedUnit
<1>6. Formula(1, 12, Slice(d, 0, 2), 2) = {} /\ Skipped(1, 12, 2) = 0
  BY DEF Formula, PercentPids, Skipped
<1>7. Plain(Slice(Slice(d, 0, 2), 0, 2), 2) = Number(4 * c)
  BY <1>1 DEF Plain, Slice
<1>8. ValueForData(1, 12, "RPM", Slice(d, 0, 2), 2) = Number(4 * c)
  BY <1>6, <1>7 DEF ValueForData
<1>9. Response(s.id, 1, 12, d, 2) = {<<OBD(1, 12), Number(4 * c)>>}
  BY <1>4, <1>5, <1>8 DEF Response
<1>10. QED
  BY <1>1, <1>2, <1>3, <1>9, ToldAlone
LEMMA GMTemperatureTold ==
  ASSUME NEW s, ~s.long, GMTemperatureFrames(s), NEW c \in DOMAIN s.data, c # Invalid
  PROVE  Conveys(s, c, Number(c + 40))
<1> DEFINE d == s.data[c]
<1>1. s.bus = "can1" /\ s.key[1] = "GM" /\ s.id \in {\h4C1, \h4C9}
  BY DEF GMTemperatureFrames
<1>2. ~Heard(s) /\ ~OfUnit(s) /\ s.id \notin Ecus /\ ProtocolSays(s, d) = GMUpdates(s.id, d)
  BY <1>1, GMFrameHeard
<1>3. CASE s.id = \h4C1
  <2>1. \/ s.key = <<"GM", "TEMP_COOLANT">> /\ d[2] = c + 40
        \/ s.key = <<"GM", "TEMP_AIR_INTAKE">> /\ d[3] = c + 40
    BY <1>3 DEF GMTemperatureFrames
  <2>2. GMUpdates(s.id, d)
          = {GM("BAROMETRIC_PRESSURE", Fraction(d[1], 2)), GM("TEMP_COOLANT", Number(d[2])),
             GM("TEMP_AIR_INTAKE", Number(d[3])), GM("TEMP_AIR_AMBIENT", Fraction(d[4], 2))}
    BY <1>3 DEF GMUpdates, EngineGenStatus4
  <2> HIDE DEF d
  <2>3. <<s.key, Number(c + 40)>> \in GMUpdates(s.id, d)
    BY <2>1, <2>2 DEF GM
  <2>4. \A u \in GMUpdates(s.id, d) :
          u = <<s.key, Number(c + 40)>> \/ u[1] \in OthersInFrame(s) \ {s.key}
    BY <1>3, <2>1, <2>2 DEF GM, OthersInFrame
  <2>5. QED
    BY <1>2, <2>3, <2>4 DEF Conveys, d
<1>4. CASE s.id = \h4C9
  <2>1. s.key = <<"GM", "TEMP_TRANSMISSION">> /\ d[1] = c + 40
    BY <1>4 DEF GMTemperatureFrames
  <2>2. GMUpdates(s.id, d) = {<<s.key, Number(c + 40)>>}
    BY <1>4, <2>1 DEF GMUpdates, TransmissionStatus3, GM
  <2>3. QED
    BY <1>2, <2>2, ToldAlone
<1>5. QED
  BY <1>1, <1>3, <1>4

LEMMA OBDTemperatureTold ==
  ASSUME NEW s, ~s.long, OBDTemperatureFrames(s), NEW c \in DOMAIN s.data, c # Invalid
  PROVE  Conveys(s, c, Number(c + 40))
<1> DEFINE f == s.data[c]
           d == Slice(f, 3, 1)
<1>1. PICK pid \in {\h05, \h0F, \h46, \h5C} :
        /\ s.key = OBD(1, pid) /\ s.bus \in ObdBuses /\ s.id \in Ecus
        /\ f[0] = 3 /\ f[1] = 65 /\ f[2] = pid /\ f[3] = c + 40
  BY DEF OBDTemperatureFrames
<1>2. ~Heard(s) /\ ~OfUnit(s) /\ ProtocolSays(s, f) = SingleFrame(s.id, f)
  BY <1>1, EcuFrameHeard DEF OBD
<1>3. SingleFrame(s.id, f) = Response(s.id, 1, pid, d, 1)
  BY <1>1 DEF SingleFrame, When, Bit
<1>4. Schema(s.id, 1, pid, d[0]) = {OBD(1, pid)}
  <2>1. CASE pid = 5
    BY <2>1 DEF Schema, SupportedPids
  <2>2. CASE pid = 15
    BY <2>2 DEF Schema, SupportedPids
  <2>3. CASE pid = 70
    BY <2>3 DEF Schema, SupportedPids
  <2>4. CASE pid = 92
    BY <2>4 DEF Schema, SupportedPids
  <2>5. QED
    BY <1>1, <2>1, <2>2, <2>3, <2>4
<1>5. OBDUnit(OBD(1, pid)) = "DEGREES_C"
  BY TemperatureUnit
<1>6. Formula(1, pid, Slice(d, 0, 1), 1) = {} /\ Skipped(1, pid, 1) = 0
  BY DEF Formula, PercentPids, Skipped
<1>7. Plain(Slice(Slice(d, 0, 1), 0, 1), 1) = Number(c + 40)
  BY <1>1 DEF Plain, Slice
<1>8. ValueForData(1, pid, "DEGREES_C", Slice(d, 0, 1), 1) = Number(c + 40)
  BY <1>6, <1>7 DEF ValueForData
<1>9. Response(s.id, 1, pid, d, 1) = {<<OBD(1, pid), Number(c + 40)>>}
  BY <1>4, <1>5, <1>8 DEF Response
<1>10. QED
  BY <1>1, <1>2, <1>3, <1>9, ToldAlone

\* How the values are drawn.
LEMMA SpeedDrawn ==
  ASSUME NEW s, JeepSpeedFrames(s) \/ GMSpeedFrames(s) \/ OBDSpeedFrames(s), NEW c \in Nat
  PROVE  Drawn(Unit(s.key), Number(4 * c)) = <<"RPM", c>>
<1>1. Unit(s.key) = "RPM"
  <2>1. CASE JeepSpeedFrames(s) \/ GMSpeedFrames(s)
    BY <2>1 DEF JeepSpeedFrames, GMSpeedFrames, Unit, JeepUnits, GMUnits
  <2>2. CASE OBDSpeedFrames(s)
    <3>1. s.key[1] = "OBD" /\ OBDUnit(s.key) = "RPM"
      BY <2>2, SpeedUnit DEF OBDSpeedFrames, OBD
    <3>2. QED
      BY <3>1 DEF Unit
  <2>3. QED
    BY <2>1, <2>2
<1>2. DrawnNumber("RPM", 4 * c, 1) = <<"RPM", (4 * c) \div 4>>
  BY DEF DrawnNumber
<1>3. (4 * c) \div 4 = c
  OBVIOUS
<1>4. QED
  BY <1>1, <1>2, <1>3 DEF Drawn, Number, Fraction

LEMMA TemperatureDrawn ==
  ASSUME NEW s, GMTemperatureFrames(s) \/ OBDTemperatureFrames(s), NEW c \in Int
  PROVE  Drawn(Unit(s.key), Number(c + 40)) = Fahrenheit(c)
<1>1. Unit(s.key) = "DEGREES_C"
  <2>1. CASE GMTemperatureFrames(s)
    BY <2>1 DEF GMTemperatureFrames, Unit, GMUnits
  <2>2. CASE OBDTemperatureFrames(s)
    <3>1. s.key[1] = "OBD" /\ OBDUnit(s.key) = "DEGREES_C"
      BY <2>2, TemperatureUnit DEF OBDTemperatureFrames, OBD
    <3>2. QED
      BY <3>1 DEF Unit
  <2>3. QED
    BY <2>1, <2>2
<1>2. DrawnNumber("DEGREES_C", c + 40, 1) = <<"F", Truncated(18 * (c + 40 - 40 * 1) + 320 * 1, 10 * 1)>>
  BY DEF DrawnNumber
<1>3. 18 * (c + 40 - 40 * 1) + 320 * 1 = 18 * c + 320 /\ 10 * 1 = 10
  OBVIOUS
<1>4. QED
  BY <1>1, <1>2, <1>3 DEF Drawn, Number, Fraction, Fahrenheit
-----------------------------------------------------------------------------
LEMMA SpeedTold ==
  ASSUME NEW s, ~s.long, EngineSpeed(s), NEW c \in DOMAIN s.data
  PROVE  /\ Conveys(s, c, Number(4 * c))
         /\ c # Invalid => c \in Nat /\ Drawn(Unit(s.key), Number(4 * c)) = s.means[c]
<1>1. Conveys(s, c, Number(4 * c))
  BY JeepSpeedTold, GMSpeedTold, OBDSpeedTold DEF EngineSpeed
<1>2. c # Invalid => c \in Nat /\ s.means[c] = <<"RPM", c>>
  BY DEF EngineSpeed
<1>3. QED
  <2>1. JeepSpeedFrames(s) \/ GMSpeedFrames(s) \/ OBDSpeedFrames(s)
    BY DEF EngineSpeed
  <2>2. QED
    BY <1>1, <1>2, <2>1, SpeedDrawn

LEMMA TemperatureTold ==
  ASSUME NEW s, ~s.long, Temperature(s), NEW c \in DOMAIN s.data
  PROVE  /\ Conveys(s, c, Number(c + 40)) /\ c # Invalid /\ c \in Int
         /\ Drawn(Unit(s.key), Number(c + 40)) = s.means[c]
<1>1. c \in Int /\ c # Invalid /\ s.means[c] = Fahrenheit(c)
  BY DEF Temperature, Invalid
<1>2. Conveys(s, c, Number(c + 40))
  BY <1>1, GMTemperatureTold, OBDTemperatureTold DEF Temperature
<1>3. QED
  BY <1>1, <1>2, TemperatureDrawn DEF Temperature

\* For every signal there is one value per content.
LEMMA SignalTold ==
  ASSUME NEW s, ~s.long, EngineSpeed(s) \/ Temperature(s)
  PROVE  \E v : \A c \in DOMAIN s.data :
           /\ Conveys(s, c, v[c])
           /\ c # Invalid => Drawn(Unit(s.key), v[c]) = s.means[c]
           /\ \A d \in DOMAIN s.data : c # Invalid /\ d # Invalid /\ v[c] = v[d] => c = d
<1>1. CASE EngineSpeed(s)
  <2> DEFINE v == [c \in DOMAIN s.data |-> Number(4 * c)]
  <2>1. \A c \in DOMAIN s.data :
          /\ Conveys(s, c, v[c])
          /\ c # Invalid => c \in Nat /\ Drawn(Unit(s.key), v[c]) = s.means[c]
    BY <1>1, SpeedTold
  <2>2. \A c, d \in Nat : Number(4 * c) = Number(4 * d) => c = d
    BY DEF Number, Fraction
  <2>3. \A c, d \in DOMAIN s.data : c # Invalid /\ d # Invalid /\ v[c] = v[d] => c = d
    BY <2>1, <2>2
  <2> HIDE DEF v
  <2>4. QED
    BY <2>1, <2>3
<1>2. CASE Temperature(s)
  <2> DEFINE v == [c \in DOMAIN s.data |-> Number(c + 40)]
  <2>1. \A c \in DOMAIN s.data :
          Conveys(s, c, v[c]) /\ c \in Int /\ Drawn(Unit(s.key), v[c]) = s.means[c]
    BY <1>2, TemperatureTold
  <2>2. \A c, d \in Int : Number(c + 40) = Number(d + 40) => c = d
    BY DEF Number, Fraction
  <2>3. \A c, d \in DOMAIN s.data : v[c] = v[d] => c = d
    BY <2>1, <2>2
  <2> HIDE DEF v
  <2>4. QED
    BY <2>1, <2>3
<1>3. QED
  BY <1>1, <1>2

LEMMA SignalReadable ==
  ASSUME NEW s, ~s.long, EngineSpeed(s) \/ Temperature(s)
  PROVE  /\ ~OfUnit(s) /\ ContentsDiffer(s)
         /\ \A c \in DOMAIN s.data \ {Invalid} : IsSaid(s, c)
<1>1. PICK v : \A c \in DOMAIN s.data :
        /\ Conveys(s, c, v[c])
        /\ c # Invalid => Drawn(Unit(s.key), v[c]) = s.means[c]
        /\ \A d \in DOMAIN s.data : c # Invalid /\ d # Invalid /\ v[c] = v[d] => c = d
  BY SignalTold
<1>2. ASSUME NEW c \in DOMAIN s.data \ {Invalid}
      PROVE  /\ v[c] \in Own(s, ProtocolSays(s, s.data[c]))
             /\ \A x \in Own(s, ProtocolSays(s, s.data[c])) : x = v[c]
  <2>1. Conveys(s, c, v[c])
    BY <1>1
  <2>2. QED
    BY <2>1 DEF Conveys, Own
<1>3. ContentsDiffer(s)
  BY <1>1, <1>2 DEF ContentsDiffer
<1>4. ~OfUnit(s)
  BY DEF EngineSpeed, Temperature, JeepSpeedFrames, GMSpeedFrames, OBDSpeedFrames,
         GMTemperatureFrames, OBDTemperatureFrames, OBD, OfUnit
<1>5. ASSUME NEW c \in DOMAIN s.data \ {Invalid}
      PROVE  IsSaid(s, c)
  BY <1>1, <1>2, <1>4 DEF IsSaid
<1>6. QED
  BY <1>3, <1>4, <1>5
\* Bytes of one content are not those of another.
LEMMA BytesTellContent ==
  ASSUME NEW s, ~s.long, EngineSpeed(s) \/ Temperature(s), NEW c \in DOMAIN s.data,
         NEW d \in DOMAIN s.data, s.data[c] = s.data[d]
  PROVE  c = d
<1>1. PICK v : \A e \in DOMAIN s.data :
        /\ Conveys(s, e, v[e])
        /\ \A f \in DOMAIN s.data : e # Invalid /\ f # Invalid /\ v[e] = v[f] => e = f
  BY SignalTold
<1>2. Conveys(s, c, v[c]) /\ Conveys(s, d, v[d])
  BY <1>1
<1>3. CASE c = Invalid \/ d = Invalid
  BY <1>2, <1>3 DEF Conveys
<1>4. CASE c # Invalid /\ d # Invalid
  <2>1. <<s.key, v[c]>> \in ProtocolSays(s, s.data[d])
    BY <1>2, <1>4 DEF Conveys
  <2>2. <<s.key, v[c]>> = <<s.key, v[d]>>
    BY <1>2, <2>1 DEF Conveys
  <2>3. v[c] = v[d]
    BY <2>2
  <2>4. QED
    BY <1>1, <1>4, <2>3
<1>5. QED
  BY <1>3, <1>4

\* An answer of an ECU names its parameter.
LEMMA AnswerNamesKey ==
  ASSUME NEW s, EngineSpeed(s) \/ Temperature(s), s.id \in Ecus, NEW c \in DOMAIN s.data
  PROVE  s.key = OBD(1, s.data[c][2])
<1>1. OBDSpeedFrames(s) \/ OBDTemperatureFrames(s)
  <2>1. \A id \in {\h2CE, \h0C9, \h4C1, \h4C9} : id \notin Ecus
    BY DEF Ecus
  <2>2. ~JeepSpeedFrames(s) /\ ~GMSpeedFrames(s) /\ ~GMTemperatureFrames(s)
    BY <2>1 DEF JeepSpeedFrames, GMSpeedFrames, GMTemperatureFrames
  <2>3. QED
    BY <2>2 DEF EngineSpeed, Temperature
<1>2. QED
  BY <1>1 DEF OBDSpeedFrames, OBDTemperatureFrames

\* Where each key comes from.
Place(s) ==
  \/ s.key = <<"JK", "RPM">> /\ s.id = \h2CE
  \/ s.key = <<"GM", "ENGINE_RPM">> /\ s.bus = "can1" /\ s.id = \h0C9
  \/ /\ s.key \in {<<"GM", "TEMP_COOLANT">>, <<"GM", "TEMP_AIR_INTAKE">>}
     /\ s.bus = "can1" /\ s.id = \h4C1
  \/ s.key = <<"GM", "TEMP_TRANSMISSION">> /\ s.bus = "can1" /\ s.id = \h4C9
  \/ s.key[1] = "OBD" /\ s.id \in Ecus

LEMMA Placed ==
  ASSUME NEW s, EngineSpeed(s) \/ Temperature(s)
  PROVE  Place(s)
<1>1. CASE JeepSpeedFrames(s)
  BY <1>1 DEF JeepSpeedFrames, Place
<1>2. CASE GMSpeedFrames(s)
  BY <1>2 DEF GMSpeedFrames, Place
<1>3. CASE OBDSpeedFrames(s)
  BY <1>3 DEF OBDSpeedFrames, Place, OBD
<1>4. CASE GMTemperatureFrames(s)
  BY <1>4 DEF GMTemperatureFrames, Place
<1>5. CASE OBDTemperatureFrames(s)
  BY <1>5 DEF OBDTemperatureFrames, Place, OBD
<1>6. QED
  BY <1>1, <1>2, <1>3, <1>4, <1>5 DEF EngineSpeed, Temperature

\* A key that a frame tells besides its own is told by that frame alone.
LEMMA OthersInSameFrame ==
  ASSUME NEW r, NEW s, Place(r), Place(s), r.key \in OthersInFrame(s)
  PROVE  r.bus = s.bus /\ r.id = s.id /\ r.id \notin Ecus
<1>1. s.id = 1217 /\ r.key \in {<<"GM", "TEMP_COOLANT">>, <<"GM", "TEMP_AIR_INTAKE">>}
  BY DEF Place, OthersInFrame
<1>2. 1217 \notin Ecus
  BY DEF Ecus
<1>3. s.bus = "can1"
  BY <1>1, <1>2 DEF Place
<1>4. r.bus = "can1" /\ r.id = 1217
  BY <1>1 DEF Place
<1>5. QED
  BY <1>1, <1>2, <1>3, <1>4

\* So such cars are readable.
LEMMA MeasuredReadable ==
  ASSUME NEW t, Measured(t)
  PROVE  Readable(t)
<1>1. \A i \in DOMAIN t.signals :
        ~t.signals[i].long /\ (EngineSpeed(t.signals[i]) \/ Temperature(t.signals[i]))
  BY DEF Measured
<1>2. BytesTell(t)
  <2> SUFFICES ASSUME NEW i \in DOMAIN t.signals, NEW j \in DOMAIN t.signals,
                      t.signals[i].bus = t.signals[j].bus, t.signals[i].id = t.signals[j].id,
                      NEW c \in DOMAIN t.signals[i].data, NEW d \in DOMAIN t.signals[j].data,
                      t.signals[i].data[c] = t.signals[j].data[d]
               PROVE  i = j /\ c = d
    BY DEF BytesTell
  <2>1. CASE i = j
    BY <1>1, <2>1, BytesTellContent
  <2>2. CASE i # j
    <3>1. t.signals[i].id \in Ecus /\ t.signals[i].key # t.signals[j].key
      BY <2>2 DEF Measured
    <3>2. t.signals[i].key = t.signals[j].key
      BY <1>1, <3>1, AnswerNamesKey
    <3>3. QED
      BY <3>1, <3>2
  <2>3. QED
    BY <2>1, <2>2
<1>3. ASSUME NEW i \in DOMAIN t.signals, NEW c \in DOMAIN t.signals[i].data
      PROVE  SaysNoOther(t, t.signals[i], c)
  <2> DEFINE s == t.signals[i]
  <2>1. PICK v : Conveys(s, c, v[c])
    BY <1>1, <1>3, SignalTold
  <2>2. ASSUME NEW u \in ProtocolSays(s, s.data[c]), NEW j \in DOMAIN t.signals,
               t.signals[j].key = u[1]
        PROVE  u[1] = s.key /\ c # Invalid
    <3>1. c # Invalid
      BY <2>1 DEF Conveys
    <3>2. CASE u[1] \in OthersInFrame(s) \ {s.key}
      <4>1. t.signals[j].bus = s.bus /\ t.signals[j].id = s.id /\ s.id \notin Ecus
        BY <1>1, <2>2, <3>2, Placed, OthersInSameFrame
      <4>2. i = j
        BY <4>1 DEF Measured
      <4>3. QED
        BY <2>2, <3>2, <4>2
    <3>3. QED
      BY <2>1, <3>1, <3>2 DEF Conveys
  <2>3. QED
    BY <2>1, <2>2 DEF SaysNoOther, Conveys
<1>4. QED
  BY <1>1, <1>2, <1>3, SignalReadable DEF Readable

\* In every car whose signals are engine speeds and temperatures, on either bus and
\* from any of its units, whatever they are and however they change, the user reads
\* what was told last, and nothing that has just changed looks old: EngineRPM,
\* processEngineGenStatus1 and 4, processOBDResponse and printValue undo each other's
\* scales and offsets.
THEOREM MeasuredAreRead ==
  (\A t \in Traffics : Measured(t)) => (Spec => [](ReadingsAreTrue /\ OldIsUnchanged))
<1> SUFFICES ASSUME \A t \in Traffics : Measured(t)
             PROVE  Spec => [](ReadingsAreTrue /\ OldIsUnchanged)
  OBVIOUS
<1>1. CarsAreReadable
  BY MeasuredReadable DEF CarsAreReadable
<1>2. (Spec => []ReadingsAreTrue) /\ (Spec => []OldIsUnchanged)
  BY <1>1, ReadingsTrue, OldUnchanged
<1>3. QED
  BY <1>2, PTL
=============================================================================
