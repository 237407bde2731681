------------------------------- MODULE GMLAN -------------------------------
(***************************************************************************)
(* The GMLAN protocol, registered for can1: the values it takes from the   *)
(* eight data bytes of a frame.  A value whose frame says that it is not   *)
(* valid is left as it was.                                                *)
(***************************************************************************)
EXTENDS Values

\* The units _schemaMap gives each value.
GMUnits == [
  ENGINE_RPM |-> "RPM", ENGINE_RUNNING |-> "BOOL", FUEL_CONSUMPTION |-> "LPH",
  THROTTLE_POS |-> "PERCENT", FAN_SPEED |-> "PERCENT", OLF |-> "PERCENT",
  TEMP_COOLANT |-> "DEGREES_C", TEMP_TRANSMISSION |-> "DEGREES_C", TEMP_OIL |-> "DEGREES_C",
  TEMP_AIR_INTAKE |-> "DEGREES_C", TEMP_AIR_AMBIENT |-> "DEGREES_C",
  PRESSURE_OIL |-> "KPA", BAROMETRIC_PRESSURE |-> "KPA",
  VEHICLE_SPEED |-> "KPH", MASS_AIR_FLOW |-> "GPS", ENGINE_TORQUE |-> "NM",
  TRANS_GEAR |-> "STRING", OLF_RESET |-> "BOOL",
  GM_CHECK_ENGINE |-> "BOOL", GM_CHANGE_OIL |-> "BOOL", GM_REDUCED_POWER |-> "BOOL",
  GM_CHECK_FUELCAP |-> "BOOL", GM_OIL_LOW |-> "BOOL"]

GM(name, value) == <<<<"GM", name>>, value>>
Percent(byte)   == Fraction(100 * byte, 255)

EngineTorqueStatus3(d) ==
  When(Bit(d[0], 4) = 1, {GM("ENGINE_TORQUE", Fraction(Word(d[0] % 16, d[0]) - 2 * 848, 2))})

EngineGenStatus1(d) ==
  {GM("ENGINE_RUNNING", Number(Bit(d[0], 7))), GM("ENGINE_RPM", Number(Word(d[1], d[2])))}

EngineGenStatus2(d) ==
  {GM("THROTTLE_POS", Percent(d[1])),
   GM("FUEL_CONSUMPTION", Fraction(Word(d[4] % 4, d[5]), 40)),
   GM("OLF_RESET", Number(Bit(d[4], 4)))}

EngineGenStatus3(d) == {GM("FAN_SPEED", Percent(d[5])), GM("OLF", Percent(d[6]))}

\* The oil pressure's validity bit is not looked at.
EngineGenStatus5(d) ==
  {GM("PRESSURE_OIL", Number(4 * d[2])),
   GM("GM_OIL_LOW", Number(Bit(d[0], 4))), GM("GM_CHANGE_OIL", Number(Bit(d[0], 3))),
   GM("GM_REDUCED_POWER", Number(Bit(d[3], 7))), GM("GM_CHECK_FUELCAP", Number(Bit(d[3], 5))),
   GM("GM_CHECK_ENGINE", Number(Bit(d[6], 2)))}
  \cup When(Bit(d[0], 7) = 1, {GM("TEMP_OIL", Number(d[1] - 40))})

FuelSystemRequest2(d) ==
  When(Bit(d[0], 7) = 1, {GM("MASS_AIR_FLOW", Fraction(Word(d[2], d[3]), 100))})

EngineGenStatus4(d) ==
  {GM("BAROMETRIC_PRESSURE", Fraction(d[1], 2)), GM("TEMP_COOLANT", Number(d[2])),
   GM("TEMP_AIR_INTAKE", Number(d[3])), GM("TEMP_AIR_AMBIENT", Fraction(d[4], 2))}

gearCode == <<"NotSupported", "1", "2", "3", "4", "5", "6", "7", "8", "??", "??", "xx",
              "CVTForward", "N", "R", "P">>

TransmissionStatus2(d) ==
  When(Bit(d[0], 4) = 0, {GM("TRANS_GEAR", Text(gearCode[(d[0] % 16) + 1]))})

TransmissionStatus3(d) == {GM("TEMP_TRANSMISSION", Number(d[1]))}

VehicleSpeed(d) ==
  When(Bit(d[0], 7) = 0, {GM("VEHICLE_SPEED", Fraction(Word(d[0], d[1]), 64))})

\* processFrame: the values a frame updates.  The handlers of the other ids it
\* names do nothing.
GMUpdates(id, d) ==
  CASE id = \h0C9 -> EngineGenStatus1(d)
    [] id = \h3D1 -> EngineGenStatus2(d)
    [] id = \h3F9 -> EngineGenStatus3(d)
    [] id = \h4C1 -> EngineGenStatus4(d)
    [] id = \h4D1 -> EngineGenStatus5(d)
    [] id = \h1EF -> FuelSystemRequest2(d)
    [] id = \h4C9 -> TransmissionStatus3(d)
    [] id = \h1F5 -> TransmissionStatus2(d)
    [] id = \h1C3 -> EngineTorqueStatus3(d)
    [] id = \h3E9 -> VehicleSpeed(d)
    [] OTHER      -> {}
=============================================================================
