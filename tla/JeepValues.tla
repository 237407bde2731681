----------------------------- MODULE JeepValues -----------------------------
(***************************************************************************)
(* The Jeep protocol, registered for can0: the values it takes from the    *)
(* car's frames, and as a frame decoder from the answers of the radio and  *)
(* of the amplifier, which it is handed even when they repeat.             *)
(*                                                                         *)
(* The two VINs, frames 219 and answer 44 of the radio, are in module      *)
(* Wranger2010.  Here an answer of several frames comes whole, and answers *)
(* have at least the bytes that name what they answer.                     *)
(***************************************************************************)
EXTENDS Values

JK(name, value) == <<<<"JK", name>>, value>>

JeepUnits == [
  STEERING_ANGLE |-> "DEGREES", VEHICLE_DISTANCE |-> "KM", KEY_POSITION |-> "STRING",
  FUEL_LEVEL |-> "PERCENT", DOORS |-> "BINARY", DOORS_LOCK |-> "BOOL", CLOCK |-> "STRING",
  RPM |-> "RPM"]

KeyPositions == [pos \in {\h00, \h01, \h61, \h81, \hA1} |->
  CASE pos = \h00 -> "No Key" [] pos = \h01 -> "OFF" [] pos = \h61 -> "ACC"
    [] pos = \h81 -> "RUN"    [] pos = \hA1 -> "START"]

\* The angle is in steps of 0.4 degrees from 4096, as an int.
SteeringAngle(d) ==
  When(Word(d[2], d[3]) # \hFFFF,
       {JK("STEERING_ANGLE", Number(Truncated(4 * (Word(d[2], d[3]) - 4096), 10)))})

KeyPosition(d) ==
  When(d[0] \in DOMAIN KeyPositions, {JK("KEY_POSITION", Text(KeyPositions[d[0]]))})

VehicleDistance(d) ==
  LET dist == 65536 * d[0] + Word(d[1], d[2])
  IN When(dist # \hFFFFFF, {JK("VEHICLE_DISTANCE", Number(dist))})

\* With neither bit the locks are left as they were.
Doors(d) ==
  {JK("DOORS", Number(d[0]))}
  \cup When(Bit(d[4], 7) = 1, {JK("DOORS_LOCK", Number(0))})
  \cup When(Bit(d[4], 7) = 0 /\ Bit(d[4], 3) = 1, {JK("DOORS_LOCK", Number(1))})

\* A uint16_t is multiplied by 4 in place.
EngineRPM(d) ==
  When(Word(d[0], d[1]) # \hFFFF, {JK("RPM", Number((4 * Word(d[0], d[1])) % 65536))})

\* processFrame: the values a frame updates.
JeepUpdates(id, d) ==
  CASE id = \h1E1 -> SteeringAngle(d)
    [] id = \h20B -> KeyPosition(d)
    [] id = \h214 -> VehicleDistance(d)
    [] id = \h21B -> {JK("FUEL_LEVEL", Fraction(100 * d[5], 160))}
    [] id = \h244 -> Doors(d)
    [] id = \h2CE -> EngineRPM(d)
    [] id = \h3E6 -> {JK("CLOCK", Text(<<d[0], d[1], d[2]>>))}
    [] OTHER      -> {}

-----------------------------------------------------------------------------
(* The radio and the amplifier.                                            *)

Radio     == \h516
Amplifier == \h53E
Decoded   == {\h6B0, Radio, Amplifier, \h7F0}

RadioTexts == {\h1A88, \h1A90, \h2125, \h21E1}
RadioData ==
  {\h2109, \h210E, \h2110, \h2111, \h2112, \h2116, \h2118, \h2130, \h2134, \h2135, \h2136,
   \h2149, \h2150, \h2152, \h21EA}
AmpData == {\h21EA, \h3F21}

\* Hardware, software, diagnosis and part of a unit, whose ten bytes before the
\* part's number are there.
Part(d, n) == Text(<<Slice(d, 5, 2), Slice(d, 7, 3), d[3], Slice(d, 10, n - 10)>>)

\* Codes of three bytes each, the third unused: there is one for every three
\* bytes begun, if there are three at all.  They follow the first byte of m.
UnitCodes(m, n) ==
  Codes(IF n < 3 THEN <<>>
        ELSE [i \in 1 .. (n + 2) \div 3 |-> Code(m[3 * i - 2], m[3 * i - 1])])

RadioValue(ext, d, n) ==
  CASE ext = \h1A87         -> {Part(d, n)}
    [] ext \in RadioTexts   -> {Text(Slice(d, 0, n))}
    [] ext \in RadioData    -> {Data(Slice(d, 0, n))}
    [] OTHER                -> {}

AmpValue(ext, d, n) ==
  CASE ext = \h1A87       -> {Part(d, n)}
    [] ext = \h2113       -> {Fraction(d[0], 10)}
    [] ext = \h2110       -> {Number(d[0])}
    [] ext \in AmpData    -> {Data(Slice(d, 0, n))}
    [] OTHER              -> {}

AmpUnit(ext) == IF ext = \h2113 THEN "VOLTS" ELSE "PLAIN"

\* processPrivateODB for an answer, whose first of n bytes is what was asked.  The
\* codes of either unit are the amplifier's.  Answer 44 is Wranger2010's.
UnitAnswer(id, service, m, n) ==
  LET ext == Word(service, m[0])
      d   == Slice(m, 1, n - 1)
  IN When(m[0] # \h44,
       CASE service = \h18 /\ id \in {Radio, Amplifier} ->
              {<<<<"JKA", \h1800>>, UnitCodes(m, n - 1)>>}
         [] service \in {\h21, \h1A, \h3F} /\ id = Radio ->
              {<<<<"JKR", ext>>, v>> : v \in RadioValue(ext, d, n - 1)}
         [] service \in {\h21, \h1A, \h3F} /\ id = Amplifier ->
              {<<<<"JKA", ext>>, v>> : v \in AmpValue(ext, d, n - 1)}
         [] OTHER -> {})

\* processRadioFrame: of an answer in one frame the length counts the service, so
\* that the byte after its last is taken with it: f[8], the byte that lies beyond
\* the frame, when the answer fills it.  Requests change nothing.
UnitFrame(id, f) ==
  When(f[0] \div 16 = 0 /\ Bit(f[1], 6) = 1,
       UnitAnswer(id, f[1] % 64, Slice(f, 2, 7), f[0] % 8))

\* An answer of several frames, n bytes in all.
LongUnitAnswer(id, m, n) == UnitAnswer(id, m[0] % 64, Slice(m, 1, n - 1), n - 1)
=============================================================================
