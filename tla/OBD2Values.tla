----------------------------- MODULE OBD2Values -----------------------------
(***************************************************************************)
(* The OBD2 protocol, registered for can0 and can1: the values it takes    *)
(* from the answer of an ECU.  Module OBD2 is about how the frames of a    *)
(* long answer are put together; here such an answer comes whole.          *)
(*                                                                         *)
(* Answers have at least the bytes that name what they answer.             *)
(***************************************************************************)
EXTENDS Values

\* The key of an answer: the service, what was asked and, where ECUs have keys of
\* their own, the ECU.
OBD(service, asked) == <<"OBD", service, asked>>
OBDOf(service, asked, id) == <<"OBD", service, asked, id>>

Ecu0      == \h7E8
OtherEcus == \h7E9 .. \h7EF
J2190     == {\h1940, \h132A, \h115C, \h199A}

PercentPids ==
  {\h04, \h11, \h2C, \h2E, \h2F, \h45, \h47, \h48, \h49, \h4A, \h4B, \h4C, \h52, \h5A, \h5B}
SupportedPids == {\h00, \h20, \h40}

\* The units _schemaMap gives the parameters of services 1 and 2, those that
\* printValue draws in a way of their own.
PidUnit(pid) ==
  CASE pid \in {\h05, \h0F, \h46, \h5C} \cup \h3C .. \h3F -> "DEGREES_C"
    [] pid \in PercentPids \cup {\h2D, \h43} \cup \h55 .. \h58 -> "PERCENT"
    [] pid \in \h06 .. \h09 -> "FUEL_TRIM"
    [] pid \in {\h0A, \h0B, \h22, \h23, \h33, \h53, \h59} -> "KPA"
    [] pid \in {\h42} \cup \h14 .. \h1B \cup \h24 .. \h2B -> "VOLTS"
    [] pid \in {\h21, \h31} -> "KM"
    [] pid = \h0C -> "RPM"
    [] pid = \h0D -> "KPH"
    [] pid = \h13 -> "BINARY"
    [] pid = \h1E -> "BOOL"
    [] pid = \h5E -> "LPH"
    [] pid \in SupportedPids -> "DATA"
    [] OTHER -> "PLAIN"

\* The unit of a key.
OBDUnit(key) ==
  CASE key[2] = 1          -> PidUnit(key[3])
    [] key[2] \in {3, 7}   -> "DTC"
    [] key[2] = 9 /\ key[3] \in {4, 6} -> "DATA"
    [] key[2] = \h22 /\ key[3] = \h1940 -> "DEGREES_C"
    [] key[2] = \h22 /\ key[3] = \h115C -> "KPA"
    [] OTHER               -> "STRING"

\* The keys whose schema an answer finds, one or none.  Service 2 has the schemas
\* of service 1, and PIDs 4F and 5F one title.
Schema(id, mode, pid, first) ==
  CASE mode \in {1, 2} /\ pid \in SupportedPids /\ id # Ecu0 ->
         {OBDOf(1, pid, ecu) : ecu \in OtherEcus \cap {id}}
    [] mode \in {1, 2} /\ ~(pid \in SupportedPids /\ id # Ecu0) ->
         {OBD(1, IF pid = \h5F THEN \h4F ELSE pid) : p \in {pid} \cap 0 .. \h5F}
    [] mode \in {3, 7} -> {OBD(mode, 0)}
    [] mode = 9 /\ pid = \h0A /\ id # Ecu0 -> {OBDOf(9, pid, ecu) : ecu \in OtherEcus \cap {id}}
    [] mode = 9 /\ ~(pid = \h0A /\ id # Ecu0) -> {OBD(9, p) : p \in {pid} \cap {2, 4, 6, \h0A}}
    [] mode = \h22 -> {OBD(\h22, ext) : ext \in J2190 \cap {Word(pid, first)}}
    [] OTHER -> {}

-----------------------------------------------------------------------------
(* valueForData.                                                           *)

\* The name of an ECU: an acronym, and after its four characters the rest.
EcuName(d, n) ==
  LET acronym == CString(Slice(d, 1, n - 1), n - 1)
      short   == Length(acronym)
      rest    == CString(Slice(d, 5, n - 5), n - 5)
  IN IF short < 4 /\ n > 5 THEN Joined(acronym, short, rest, Length(rest)) ELSE acronym

\* The values that have a formula, none or one.  The oil pressure of J2190 is
\* looked for once its second byte has been skipped.
Formula(mode, pid, d, n) ==
  CASE mode = \h22 -> When(Word(pid, d[0]) = \h115C, {Number(2 * d[0])})
    [] mode \in {1, 2} /\ pid = \h42 -> {Fraction(Word(d[0], d[1]), 1000)}
    [] mode \in {1, 2} /\ pid \in \h06 .. \h09 -> {Fraction(100 * d[0] - 12800, 128)}
    [] mode \in {1, 2} /\ pid \in PercentPids -> {Fraction(100 * d[0], 255)}
    [] mode \in {1, 2} /\ pid \in {\h7C} \cup \h3C .. \h3F -> {Fraction(Word(d[0], d[1]) - 400, 10)}
    [] mode \in {1, 2} /\ pid \in \h14 .. \h1B -> {Fraction(d[0], 200)}
    [] mode \in {1, 2} /\ pid \in {\h44} \cup \h34 .. \h3B -> {Fraction(2 * Word(d[0], d[1]), 65536)}
    [] mode = 9 /\ pid = 2 -> {Text(CString(Slice(d, 1, n - 1), n - 1))}
    [] mode = 9 /\ pid = \h0A -> {Text(EcuName(d, n))}
    [] OTHER -> {}

\* The others, by their length: of three bytes the first is shifted by 12, and of
\* four it is asked whether any is set.
Plain(d, n) ==
  CASE n = 1 -> Number(d[0])
    [] n = 2 -> Number(Word(d[0], d[1]))
    [] n = 3 -> Number(65536 * (d[0] \div 16) + 4096 * Or(d[0] % 16, d[1] \div 16)
                       + 256 * (d[1] % 16) + d[2])
    [] n = 4 -> Number(IF \E i \in 0 .. 3 : d[i] # 0 THEN 1 ELSE 0)
    [] OTHER -> Text(Slice(d, 0, n))

TroubleCodes(d, n) == Codes([i \in 1 .. (n + 1) \div 2 |-> Code(d[2 * i - 2], d[2 * i - 1])])

\* The bytes a formula has skipped when it finds an empty text.
Skipped(mode, pid, n) ==
  CASE mode = 9 /\ pid = \h0A /\ n > 5 -> 5
    [] mode = 9 /\ (pid = 2 \/ (pid = \h0A /\ n <= 5)) -> 1
    [] OTHER -> 0

\* A text without a character, or codes without a code, count as no value yet.
ValueForData(mode, pid, unit, d, n) ==
  CASE unit = "DATA"           -> Data(d)
    [] unit = "DTC" /\ n >= 2  -> TroubleCodes(d, n)
    [] OTHER ->
         LET found == {v \in Formula(mode, pid, d, n) : v[1] = "text" => Length(v[2]) > 0}
             skip  == Skipped(mode, pid, n)
         IN IF found # {} THEN CHOOSE v \in found : TRUE ELSE Plain(Slice(d, skip, n - skip), n - skip)

-----------------------------------------------------------------------------
(* Answers.                                                                *)

\* processOBDResponse.
Response(id, mode, pid, d, n) ==
  LET skip == IF mode = \h22 THEN 1 ELSE 0 IN
  {<<key, ValueForData(mode, pid, OBDUnit(key), Slice(d, skip, n - skip), n - skip)>> :
     key \in Schema(id, mode, pid, IF n > 0 THEN d[0] ELSE 0)}

\* processFrame: an answer in one frame, and one of n bytes that took several.
SingleFrame(id, f) ==
  When(f[0] \div 16 = 0 /\ Bit(f[1], 6) = 1,
       Response(id, f[1] % 64, f[2], Slice(f, 3, (f[0] % 8) - 2), (f[0] % 8) - 2))

LongAnswer(id, m, n) == Response(id, m[0] % 32, m[1], Slice(m, 2, n - 2), n - 2)

IsOBD(id) == id \div 256 = 7
=============================================================================
