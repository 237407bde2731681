------------------------------- MODULE Values -------------------------------
(***************************************************************************)
(* What a value of the database can be, and how printValue draws it.       *)
(*                                                                         *)
(* The code keeps every value as a string.  Here a number is kept as the   *)
(* fraction it was computed as, which its six decimals tell apart, a text  *)
(* and a block of data as their bytes, and trouble codes as a sequence.    *)
(***************************************************************************)
EXTENDS Integers, Sequences

Fraction(n, d) == <<"number", n, d>>
Number(n)      == Fraction(n, 1)
Text(bytes)    == <<"text", bytes>>
Data(bytes)    == <<"data", bytes>>
Codes(list)    == <<"codes", list>>

\* Updates of the database, as pairs of a key and a value, made on a condition.
When(condition, updates) == IF condition THEN updates ELSE {}

\* Bytes, their bits, and words made of them.
Byte            == 0 .. 255
Bit(byte, n)    == (byte \div 2^n) % 2
Word(high, low) == 256 * high + low
Or(a, b)        == \* of two numbers below 16
  LET bit(n) == IF Bit(a, n) + Bit(b, n) > 0 THEN 2^n ELSE 0
  IN bit(0) + bit(1) + bit(2) + bit(3)

\* The n bytes of data from `first`, and what comes before their first zero.
Slice(data, first, n) == [i \in 0 .. n - 1 |-> data[first + i]]
CString(data, n) ==
  LET ends == {i \in 0 .. n - 1 : data[i] = 0}
  IN IF ends = {} THEN Slice(data, 0, n)
     ELSE Slice(data, 0, CHOOSE i \in ends : \A j \in ends : i <= j)
Joined(s, m, t, n) == [i \in 0 .. m + n - 1 |-> IF i < m THEN s[i] ELSE t[i - m]]
Length(bytes)      == CHOOSE n \in 0 .. 256 : DOMAIN bytes = 0 .. n - 1

\* A trouble code: its letter, a digit of two bits, and three of four bits, which
\* are printed in decimal.
Decimal(nibble)  == IF nibble < 10 THEN <<nibble>> ELSE <<1, nibble - 10>>
Code(high, low) ==
  <<high \div 64, (high \div 16) % 4>>
  \o Decimal(high % 16) \o Decimal(low \div 16) \o Decimal(low % 16)

-----------------------------------------------------------------------------
(* printValue.                                                             *)

\* A C++ conversion to int, and printf's rounding of a fraction.
Truncated(n, d) == IF n >= 0 THEN n \div d ELSE -((-n) \div d)
Rounded(n, d) ==
  LET q == n \div d
      r == 2 * (n % d)
  IN IF r < d THEN q ELSE IF r > d THEN q + 1 ELSE q + (q % 2)

\* The unit's text and the number before it, in tenths or hundredths where it has
\* that many decimals.
DrawnNumber(unit, n, d) ==
  CASE unit = "BOOL"      -> <<"YES", n # 0>>
    [] unit = "FUEL_TRIM" -> <<"%", Rounded(10 * n, d)>>
    [] unit = "VOLTS"     -> <<"V", Rounded(100 * n, d)>>
    [] unit = "DEGREES_C" -> <<"F", Truncated(18 * (n - 40 * d) + 320 * d, 10 * d)>>
    [] unit = "KPA"       -> <<"psi", Truncated(n * 14503 + ((n * 774) \div 1000), d * 100000)>>
    [] unit = "RPM"       -> <<"RPM", n \div 4>>
    [] unit = "LPH"       -> <<"g/hr", Rounded(n * 26, d * 10)>>
    [] unit \in {"KM", "KPH"} ->
         LET whole == n \div d
         IN <<"mi", 6 * whole + Rounded(21371 * whole + ((621371 * (n % d)) \div d), 100000)>>
    [] unit = "BINARY"    -> <<"bits", [i \in 0 .. 7 |-> Bit(n, i)]>>
    [] unit = "PERCENT"   -> <<"%", Rounded(100 * n, d)>>
    [] OTHER              -> <<"", n, d>>

\* Texts and codes are drawn as they are, and 16 bytes of data at most.
Drawn(unit, v) ==
  CASE v[1] = "number" -> DrawnNumber(unit, v[2], v[3])
    [] v[1] = "data" /\ Length(v[2]) > 16 -> <<Length(v[2]), Slice(v[2], 0, 16)>>
    [] OTHER -> v
=============================================================================
