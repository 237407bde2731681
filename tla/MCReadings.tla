----------------------------- MODULE MCReadings -----------------------------
(***************************************************************************)
(* Readings with the cars that the runs try.  Each signal is written down  *)
(* from what its bytes stand for (SAE J1979 for the OBD answers, comments  *)
(* and logs of the repository for the others), not from the code: a table  *)
(* of what the user should read for each content, and its encoding.        *)
(***************************************************************************)
EXTENDS Readings, TLC

Bytes(s) == [i \in 0 .. Len(s) - 1 |-> s[i + 1]]
Frame(s) == [i \in 0 .. 7 |-> IF i < Len(s) THEN s[i + 1] ELSE 0]
High(n)  == n \div 256
Low(n)   == n % 256

\* A signal in one frame, the same with a frame that is not valid, and one of
\* several frames.
Signal(key, bus, id, means, bytes(_)) ==
  [key |-> key, bus |-> bus, id |-> id, long |-> FALSE, length |-> 8, means |-> means,
   data |-> [c \in DOMAIN means |-> Frame(bytes(c))]]
OrInvalid(signal, bytes) == [signal EXCEPT !.data = @ @@ (Invalid :> Frame(bytes))]
Only(signal, contents) == [signal EXCEPT !.data = [c \in contents |-> @[c]]]
LongSignal(key, bus, id, means, bytes(_)) ==
  [key |-> key, bus |-> bus, id |-> id, long |-> TRUE, length |-> Len(bytes(1)), means |-> means,
   data |-> [c \in DOMAIN means |-> Bytes(bytes(c))]]

\* What should be read.
EngineSpeeds == (0 :> <<"RPM", 0>>) @@ (850 :> <<"RPM", 850>>) @@ (16383 :> <<"RPM", 16383>>)
Celsius      == (-40 :> <<"F", -40>>) @@ (-17 :> <<"F", 1>>) @@ (87 :> <<"F", 188>>)
Speeds       == (0 :> <<"mi", 0>>) @@ (100 :> <<"mi", 621>>) @@ (255 :> <<"mi", 1584>>)
Distances    == (0 :> <<"mi", 0>>) @@ (34000 :> <<"mi", 211266>>)
OfByte       == (0 :> <<"%", 0>>) @@ (51 :> <<"%", 2000>>) @@ (255 :> <<"%", 10000>>)
Of160        == (0 :> <<"%", 0>>) @@ (80 :> <<"%", 5000>>) @@ (160 :> <<"%", 10000>>)
Trims        == (0 :> <<"%", -1000>>) @@ (128 :> <<"%", 0>>) @@ (144 :> <<"%", 125>>)
Pressures    == (0 :> <<"psi", 0>>) @@ (100 :> <<"psi", 14>>) @@ (124 :> <<"psi", 17>>)
Millivolts   == (0 :> <<"V", 0>>) @@ (12450 :> <<"V", 1245>>)
Flags        == (0 :> <<"YES", FALSE>>) @@ (1 :> <<"YES", TRUE>>)
Plainly(n, d) == (0 :> <<"", 0, d>>) @@ (n :> <<"", n, d>>)

\* The general frames of the car's two buses.
JeepRpm       == Signal(<<"JK", "RPM">>, "can0", \h2CE, EngineSpeeds, LAMBDA c : <<High(c), Low(c)>>)
JeepFuel      == Signal(<<"JK", "FUEL_LEVEL">>, "can0", \h21B, Of160, LAMBDA c : <<0, 0, 0, 0, 0, c>>)
JeepDoors     == Signal(<<"JK", "DOORS">>, "can0", \h244,
                   [c \in {0, 5} |-> <<"bits", [i \in 0 .. 7 |-> IF c = 5 /\ i \in {0, 2} THEN 1 ELSE 0]>>],
                   LAMBDA c : <<c>>)
JeepLocks     == OrInvalid(Signal(<<"JK", "DOORS_LOCK">>, "can0", \h244, Flags,
                   LAMBDA c : <<0, 0, 0, 0, IF c = 1 THEN 8 ELSE 128>>), <<>>)
JeepSteering  == OrInvalid(Signal(<<"JK", "STEERING_ANGLE">>, "can0", \h1E1,
                   (-10 :> <<"", -10, 1>>) @@ (90 :> <<"", 90, 1>>),
                   LAMBDA c : <<0, 0, High(4096 + ((5 * c) \div 2)), Low(4096 + ((5 * c) \div 2))>>),
                   <<0, 0, 255, 255>>)
JeepKey       == OrInvalid(Signal(<<"JK", "KEY_POSITION">>, "can0", \h20B,
                   (1 :> Text("OFF")) @@ (129 :> Text("RUN")), LAMBDA c : <<c>>), <<2>>)
JeepOdometer  == OrInvalid(Signal(<<"JK", "VEHICLE_DISTANCE">>, "can0", \h214, Distances,
                   LAMBDA c : <<0, High(c), Low(c)>>), <<255, 255, 255>>)
JeepClock     == Signal(<<"JK", "CLOCK">>, "can0", \h3E6,
                   [c \in {0, 59} |-> Text(<<12, 30, c>>)], LAMBDA c : <<12, 30, c>>)
GMRpm         == Signal(<<"GM", "ENGINE_RPM">>, "can1", \h0C9, EngineSpeeds,
                   LAMBDA c : <<128, High(4 * c), Low(4 * c)>>)
GMRunning     == Signal(<<"GM", "ENGINE_RUNNING">>, "can1", \h0C9, Flags, LAMBDA c : <<128 * c>>)
GMCoolant     == Signal(<<"GM", "TEMP_COOLANT">>, "can1", \h4C1, Celsius, LAMBDA c : <<0, 0, c + 40>>)
GMIntake      == Signal(<<"GM", "TEMP_AIR_INTAKE">>, "can1", \h4C1, Celsius, LAMBDA c : <<0, 0, 0, c + 40>>)
GMAmbient     == Signal(<<"GM", "TEMP_AIR_AMBIENT">>, "can1", \h4C1, Celsius,
                   LAMBDA c : <<0, 0, 0, 0, 2 * (c + 40)>>)
GMBarometer   == Signal(<<"GM", "BAROMETRIC_PRESSURE">>, "can1", \h4C1, Pressures, LAMBDA c : <<0, 2 * c>>)
GMOilPressure == Signal(<<"GM", "PRESSURE_OIL">>, "can1", \h4D1, Pressures,
                   LAMBDA c : <<0, 0, c \div 4>>)
GMOilTemp     == Signal(<<"GM", "TEMP_OIL">>, "can1", \h4D1, Celsius, LAMBDA c : <<128, c + 40>>)
GMTransTemp   == Signal(<<"GM", "TEMP_TRANSMISSION">>, "can1", \h4C9, Celsius, LAMBDA c : <<0, c + 40>>)
GMSpeed       == OrInvalid(Signal(<<"GM", "VEHICLE_SPEED">>, "can1", \h3E9, Speeds,
                   LAMBDA c : <<High(64 * c), Low(64 * c)>>), <<\hBF, \hFF>>)
GMThrottle    == Signal(<<"GM", "THROTTLE_POS">>, "can1", \h3D1, OfByte, LAMBDA c : <<0, c>>)
GMFuel        == Signal(<<"GM", "FUEL_CONSUMPTION">>, "can1", \h3D1,
                   (0 :> <<"g/hr", 0>>) @@ (1000 :> <<"g/hr", 65>>),
                   LAMBDA c : <<0, 0, 0, 0, High(c), Low(c)>>)
GMOilReset    == Signal(<<"GM", "OLF_RESET">>, "can1", \h3D1, Flags, LAMBDA c : <<0, 0, 0, 0, 16 * c>>)
GMFan         == Signal(<<"GM", "FAN_SPEED">>, "can1", \h3F9, OfByte, LAMBDA c : <<0, 0, 0, 0, 0, c>>)
GMOilLife     == Signal(<<"GM", "OLF">>, "can1", \h3F9, OfByte, LAMBDA c : <<0, 0, 0, 0, 0, 0, c>>)
GMAirFlow     == OrInvalid(Signal(<<"GM", "MASS_AIR_FLOW">>, "can1", \h1EF, Plainly(1234, 100),
                   LAMBDA c : <<128, 0, High(c), Low(c)>>), <<0, 0, 1, 1>>)
GMTorque      == OrInvalid(Signal(<<"GM", "ENGINE_TORQUE">>, "can1", \h1C3, Plainly(300, 2),
                   LAMBDA c : <<16 + High(c + 1696), Low(c + 1696)>>), <<1, 1>>)
GMGear        == OrInvalid(Signal(<<"GM", "TRANS_GEAR">>, "can1", \h1F5,
                   (1 :> Text("1")) @@ (13 :> Text("N")) @@ (15 :> Text("P")), LAMBDA c : <<c>>), <<\h1E>>)
GMLamp(name, bytes(_)) == Signal(<<"GM", name>>, "can1", \h4D1, Flags, bytes)
GMCheckEngine == GMLamp("GM_CHECK_ENGINE", LAMBDA c : <<0, 0, 0, 0, 0, 0, 4 * c>>)
GMChangeOil   == GMLamp("GM_CHANGE_OIL", LAMBDA c : <<8 * c>>)
GMReduced     == GMLamp("GM_REDUCED_POWER", LAMBDA c : <<0, 0, 0, 128 * c>>)
GMFuelcap     == GMLamp("GM_CHECK_FUELCAP", LAMBDA c : <<0, 0, 0, 32 * c>>)
GMOilLow      == GMLamp("GM_OIL_LOW", LAMBDA c : <<16 * c>>)

\* Answers of an ECU to service 1, and to the extended service of J2190.
Answer(pid, bus, id, means, bytes(_)) ==
  Signal(OBD(1, pid), bus, id, means, LAMBDA c : <<2 + Len(bytes(c)), \h41, pid>> \o bytes(c))
Extended(ext, id, means, bytes(_)) ==
  Signal(OBD(\h22, ext), "can0", id, means,
         LAMBDA c : <<3 + Len(bytes(c)), \h62, High(ext), Low(ext)>> \o bytes(c))
OfOne(c) == <<c>>
OfTwo(c) == <<High(c), Low(c)>>

OBDRpm(bus)    == Answer(\h0C, bus, \h7E8, EngineSpeeds, LAMBDA c : OfTwo(4 * c))
OBDCoolant(id) == Answer(\h05, "can0", id, Celsius, LAMBDA c : <<c + 40>>)
OBDIntake      == Answer(\h0F, "can0", \h7E8, Celsius, LAMBDA c : <<c + 40>>)
OBDAmbient     == Answer(\h46, "can1", \h7E8, Celsius, LAMBDA c : <<c + 40>>)
OBDOilTemp     == Answer(\h5C, "can0", \h7E8, Celsius, LAMBDA c : <<c + 40>>)
OBDCatalyst    == Answer(\h3C, "can0", \h7E8, Celsius, LAMBDA c : OfTwo(10 * (c + 40)))
OBDSpeed       == Answer(\h0D, "can0", \h7E8, Speeds, OfOne)
OBDThrottle    == Answer(\h11, "can0", \h7E8, OfByte, OfOne)
OBDFuelLevel   == Answer(\h2F, "can0", \h7E8, OfByte, OfOne)
OBDTrim        == Answer(\h06, "can0", \h7E8, Trims, OfOne)
OBDBarometer   == Answer(\h33, "can0", \h7E8, Pressures, OfOne)
OBDVoltage     == Answer(\h42, "can0", \h7E8, Millivolts, OfTwo)
OBDOxygen      == Answer(\h14, "can0", \h7E8, (0 :> <<"V", 0>>) @@ (90 :> <<"V", 45>>), LAMBDA c : <<c, 255>>)
OBDLambda      == Answer(\h44, "can0", \h7E8,
                    (32768 :> <<"", 65536, 65536>>) @@ (30000 :> <<"", 60000, 65536>>), OfTwo)
OBDRunTime     == Answer(\h1F, "can0", \h7E8, Plainly(600, 1), OfTwo)
OBDDistance    == Answer(\h31, "can0", \h7E8, Distances, OfTwo)
OBDAirFlow     == Answer(\h10, "can0", \h7E8, Plainly(636, 100), OfTwo)
OBDTransTemp   == Extended(\h1940, \h7EA, Celsius, LAMBDA c : <<c + 40>>)
OBDGear        == Extended(\h199A, \h7EA, Plainly(3, 1), OfOne)
OBDFuel        == Extended(\h132A, \h7EA, Plainly(1633, 1), OfTwo)
OBDOilPressure == Extended(\h115C, \h7E8, Pressures, LAMBDA c : <<c \div 2>>)

\* Which parameters an ECU has, its trouble codes, its name and the car's.
Pids(key, id) ==
  Signal(key, "can0", id, [c \in {1, 2} |-> Data(Bytes(<<190, 63, 168, c>>))],
         LAMBDA c : <<6, \h41, 0, 190, 63, 168, c>>)
P0123 == <<0, 0, 1, 2, 3>>
C1456 == <<1, 1, 4, 5, 6>>
Stored ==
  Signal(OBD(3, 0), "can0", \h7E8,
         (0 :> Text(<<>>)) @@ (1 :> Codes(<<P0123>>)) @@ (2 :> Codes(<<P0123, C1456>>)),
         LAMBDA c : <<2 + 2 * c, \h43, c>> \o SubSeq(<<\h01, \h23, \h54, \h56>>, 1, 2 * c))
Pending ==
  LongSignal(OBD(7, 0), "can0", \h7E8,
             (1 :> Codes(<<P0123, P0123, C1456>>)) @@ (2 :> Codes(<<C1456, C1456, P0123>>)),
             LAMBDA c : <<\h47, 3>> \o IF c = 1 THEN <<\h01, \h23, \h01, \h23, \h54, \h56>>
                                                ELSE <<\h54, \h56, \h54, \h56, \h01, \h23>>)
Seventeen(c) == <<49, 67, 52, 66, 74, 87, 68, 71, 49, 65, 76, 48, 48, 48, 48, 48, 48 + c>>
VIN ==
  LongSignal(OBD(9, 2), "can0", \h7E8, [c \in {1, 2} |-> Text(Bytes(Seventeen(c)))],
             LAMBDA c : <<\h49, 2, 1>> \o Seventeen(c))
Name(key, id) ==
  LongSignal(key, "can0", id, [c \in {1, 2} |-> Text(Bytes(<<69, 67, 77, 45, 69, 110, 48 + c>>))],
             LAMBDA c : <<\h49, 10, 1, 69, 67, 77, 0, 45, 69, 110, 48 + c, 0, 0, 0>>)

\* Answers of the radio and of the amplifier.
Told(unit, id, ext, means, bytes(_)) ==
  Signal(<<unit, ext>>, "can0", id, means,
         LAMBDA c : <<2 + Len(bytes(c)), High(ext) + 64, Low(ext)>> \o bytes(c))
LongTold(unit, id, ext, means, bytes(_)) ==
  LongSignal(<<unit, ext>>, "can0", id, means, LAMBDA c : <<High(ext) + 64, Low(ext)>> \o bytes(c))

RadioSource == Told("JKR", \h516, \h2109, [c \in {17, 18} |-> Data(Bytes(<<c>>))], OfOne)
RadioFull   == Told("JKR", \h516, \h2134, [c \in {3, 4} |-> Data(Bytes(<<0, 0, 0, 0, c>>))],
                    LAMBDA c : <<0, 0, 0, 0, c>>)
RadioTuner  == LongTold("JKR", \h516, \h2110, [c \in {1, 2} |-> Data(Bytes(<<7, 6, 5, 4, 3, 2, c>>))],
                        LAMBDA c : <<7, 6, 5, 4, 3, 2, c>>)
RadioVIN    == LongTold("JKR", \h516, \h1A90, [c \in {1, 2} |-> Text(Bytes(Seventeen(c)))], Seventeen)
PartOf(unit, id) ==
  LongTold(unit, id, \h1A87,
           [c \in {1, 2} |-> Text(<<Bytes(<<10, 11>>), Bytes(<<12, 13, 14>>), 3, Bytes(<<53, 48 + c>>)>>)],
           LAMBDA c : <<2, 132, 2, 3, 255, 10, 11, 12, 13, 14, 53, 48 + c>>)
AmpVolts    == Told("JKA", \h53E, \h2113, (115 :> <<"V", 1150>>) @@ (122 :> <<"V", 1220>>), OfOne)
AmpCurve    == Told("JKA", \h53E, \h2110, (158 :> <<"", 158, 1>>) @@ (9 :> <<"", 9, 1>>), OfOne)
AmpState    == Told("JKA", \h53E, \h21EA, [c \in {1, 2} |-> Data(Bytes(<<9, c>>))], LAMBDA c : <<9, c>>)
AmpOther    == Told("JKA", \h53E, \h3F21, [c \in {\h31, \h32} |-> Data(Bytes(<<c>>))], OfOne)
B1486 == <<2, 1, 4, 8, 6>>
B1481 == <<2, 1, 4, 8, 1>>
OneCode(id) ==
  Signal(<<"JKA", \h1800>>, "can0", id, (1 :> Codes(<<B1486>>)) @@ (2 :> Codes(<<B1481>>)),
         LAMBDA c : <<5, \h58, 1, \h94, IF c = 1 THEN \h86 ELSE \h81, \h60>>)
TwoCodes ==
  LongSignal(<<"JKA", \h1800>>, "can0", \h53E,
             (1 :> Codes(<<B1486, B1481>>)) @@ (2 :> Codes(<<B1481, B1481>>)),
             LAMBDA c : <<\h58, 2, \h94, IF c = 1 THEN \h86 ELSE \h81, \h60, \h94, \h81, \h60>>)

-----------------------------------------------------------------------------
\* The traffics: what is asked of the decoding needs no times.
Quickly(signals) == [signals |-> signals, stamps |-> {0}, seconds |-> 0]

MCTraffics ==
  {Quickly(signals) : signals \in {
     <<JeepRpm, GMRpm, OBDRpm("can1")>>, <<OBDRpm("can0"), OBDRpm("can1")>>,
     <<GMRunning, GMFan, OBDSpeed>>, <<GMOilLife, GMSpeed, OBDSpeed>>,
     <<GMCoolant, OBDCoolant(\h7E8), OBDSpeed>>, <<OBDCoolant(\h7E8), OBDCoolant(\h7E9)>>,
     <<GMIntake, OBDIntake, OBDFuelLevel>>, <<GMAmbient, OBDAmbient, JeepFuel>>,
     <<GMTransTemp, OBDTransTemp>>, <<OBDGear, OBDFuel>>,
     <<GMOilTemp, OBDOilTemp>>, <<OBDCatalyst, OBDOilPressure>>, <<OBDAirFlow, GMAirFlow, GMTorque>>,
     <<GMBarometer, OBDBarometer, GMOilPressure>>,
     <<GMThrottle, OBDThrottle, GMGear>>, <<GMFuel, OBDTrim>>, <<GMOilReset, OBDVoltage>>,
     <<OBDOxygen, OBDLambda, OBDRunTime>>, <<OBDDistance, JeepOdometer>>,
     <<GMCheckEngine>>, <<GMChangeOil>>, <<GMReduced>>, <<GMFuelcap>>, <<GMOilLow>>,
     <<JeepDoors, JeepSteering, JeepKey>>, <<JeepLocks, JeepClock>>,
     <<Pids(OBD(1, 0), \h7E8), Pids(OBDOf(1, 0, \h7E9), \h7E9), Stored>>,
     <<Pending, VIN>>, <<Name(OBD(9, 10), \h7E8), Name(OBDOf(9, 10, \h7E9), \h7E9), VIN>>,
     <<RadioSource, RadioFull, RadioTuner>>, <<RadioVIN, PartOf("JKR", \h516), PartOf("JKA", \h53E)>>,
     <<AmpVolts, AmpCurve>>, <<AmpState, AmpOther>>, <<OneCode(\h53E), OneCode(\h516)>>, <<TwoCodes>>}}
  \cup {[signals |-> <<Only(GMSpeed, {0, 100, Invalid}), Only(OBDTrim, {0, 128})>>, stamps |-> {0}, seconds |-> 3],
        [signals |-> <<Only(OBDSpeed, {0, 100}), Only(OBDFuelLevel, {51, 255})>>, stamps |-> {0},
         seconds |-> 3],
        [signals |-> <<Only(JeepFuel, {0, 80})>>, stamps |-> {0, 1, 3, 7}, seconds |-> 0],
        [signals |-> <<JeepLocks, AmpVolts>>, stamps |-> {0, 4}, seconds |-> 1]}

\* The proofs' hypothesis holds of these cars.
ASSUME CarsAreReadableAssumption == CarsAreReadable

\* The engine speeds and temperatures of the proofs are those of these cars, and some
\* cars have no other signals.
MeasuredKeys ==
  {<<"JK", "RPM">>, <<"GM", "ENGINE_RPM">>, <<"GM", "TEMP_COOLANT">>, <<"GM", "TEMP_AIR_INTAKE">>,
   <<"GM", "TEMP_TRANSMISSION">>} \cup {OBD(1, pid) : pid \in {\h05, \h0C, \h0F, \h46, \h5C}}
ASSUME MeasuredAssumption ==
  /\ \A t \in Traffics : \A i \in DOMAIN t.signals :
       LET s == t.signals[i]
       IN s.key \in MeasuredKeys => ~s.long /\ (EngineSpeed(s) \/ Temperature(s))
  /\ \E t \in Traffics : Measured(t) /\ Len(t.signals) = 3
=============================================================================
