------------------------- MODULE Wranger2010Proofs -------------------------
(* The VINs of Wranger2010, for frames and answers lost, joined and        *)
(* repeated at will, and clears anywhere between them.                     *)
EXTENDS Wranger2010, SequenceTheorems, TLAPS

-----------------------------------------------------------------------------
(* Arithmetic of the parts.                                                *)

LEMMA PartsAre == Parts = {0, 1, 2}
BY DEF Parts

LEMMA Next3Is == Next3(0) = 1 /\ Next3(1) = 2 /\ Next3(2) = 0
BY DEF Next3

-----------------------------------------------------------------------------
(* The VIN of the frames.                                                  *)

\* The part the protocol waits for: the parts it has are those before it.
Waits == Len(_VIN)

\* The static stage is ahead of the parts only when reset() has emptied them.
StageFollows == _VIN # <<>> => stage = Len(_VIN)

\* A VIN that no part came to during a clear is empty until the clear ends.
ClearEmpties == clearing # "no" /\ ~early => _VIN = <<>>

\* The part waited for is never the one stored, so that it is handed on when it
\* comes; only between reset() and frames.clear() it may be.
WaitedIsNew == clearing # "reset" /\ stored # None => stored # Waits

\* Frames the car is still to send until the VIN is complete.
ToCome == IF sent < Waits THEN 2 - sent ELSE 5 - sent

\* Between clears the frames in a row and those to come are five at most.
Progress ==
  clearing = "no" /\ ~early /\ shownVIN = None => Waits < 3 /\ inRow + ToCome <= 5

\* During one, the first part comes, and is handed on, within four.
ClearProgress ==
  clearing # "no" /\ ~early /\ inRow > 0 => stored \in {sent, None} /\ inRow <= sent + 1

\* The radio's VIN holds as many of its last answers as came in order.
RadioFollows ==
  /\ radio.stage > 0 /\ steady > 0 => radio.VIN[lastPart] = "part"
  /\ radio.stage = 2 /\ steady > 1 =>
       \A p \in Parts : Next3(p) = lastPart => radio.VIN[p] = "part"

FrameInv ==
  /\ StageFollows /\ VINIsWhole /\ ClearEmpties /\ CompleteIsShown
  /\ WaitedIsNew /\ Progress /\ ClearProgress

VINInv == TypeOK /\ FrameInv /\ RadioFollows /\ SteadyVINIsWhole

-----------------------------------------------------------------------------
LEMMA InitHolds == Init => VINInv
BY NoneAssumption, PartsAre
   DEF Init, VINInv, TypeOK, VINs, Zeroed, FrameInv, RadioFollows, StageFollows, VINIsWhole,
       ClearEmpties, CompleteIsShown, WaitedIsNew, Waits, Progress, ToCome, ClearProgress,
       SteadyVINIsWhole

\* What the parts give one after the other.
LEMMA PartsAppend ==
  /\ Append(<<>>, 0) = <<0>> /\ Append(<<0>>, 1) = <<0, 1>> /\ Append(<<0, 1>>, 2) = <<0, 1, 2>>
  /\ Len(<<>>) = 0 /\ Len(<<0>>) = 1 /\ Len(<<0, 1>>) = 2 /\ Len(<<0, 1, 2>>) = 3
<1>1. Append(<<>>, 0) = <<0>>
  OBVIOUS
<1>2. Append(<<0>>, 1) = <<0, 1>>
  <2> DEFINE s == Append(<<0>>, 1)
  <2>1. s \in Seq(Int) /\ Len(s) = 2 /\ s[1] = 0 /\ s[2] = 1
    BY AppendProperties, <<0>> \in Seq(Int), Len(<<0>>) = 1, <<0>>[1] = 0
  <2>2. <<0, 1>> \in Seq(Int) /\ Len(<<0, 1>>) = 2 /\ \A i \in 1 .. Len(s) : s[i] = <<0, 1>>[i]
    BY <2>1
  <2>3. QED
    BY <2>1, <2>2, SeqEqual
<1>3. Append(<<0, 1>>, 2) = <<0, 1, 2>>
  <2> DEFINE s == Append(<<0, 1>>, 2)
  <2>1. s \in Seq(Int) /\ Len(s) = 3 /\ s[1] = 0 /\ s[2] = 1 /\ s[3] = 2
    BY AppendProperties, <<0, 1>> \in Seq(Int), Len(<<0, 1>>) = 2, <<0, 1>>[1] = 0, <<0, 1>>[2] = 1
  <2>2. /\ <<0, 1, 2>> \in Seq(Int) /\ Len(<<0, 1, 2>>) = 3
        /\ \A i \in 1 .. Len(s) : s[i] = <<0, 1, 2>>[i]
    BY <2>1
  <2>3. QED
    BY <2>1, <2>2, SeqEqual
<1>4. Len(<<>>) = 0 /\ Len(<<0>>) = 1 /\ Len(<<0, 1>>) = 2 /\ Len(<<0, 1, 2>>) = 3
  OBVIOUS
<1>5. QED
  BY <1>1, <1>2, <1>3, <1>4

\* What a part does to a VIN of Waits parts.
LEMMA PartTaken ==
  ASSUME TypeOK, StageFollows, NEW p \in Parts, TakePart(p)
  PROVE  /\ Stage = Waits /\ Waits \in 0 .. 3
         /\ _VIN' \in VINs /\ stage' \in 0 .. 3 /\ stage' = Len(_VIN')
         /\ p = Waits => Waits' = Waits + 1 /\ _VIN' # _VIN
         /\ p # Waits => UNCHANGED <<_VIN, shownVIN>>
         /\ p = Waits /\ p # 2 => UNCHANGED shownVIN
         /\ p = Waits /\ p = 2 => _VIN' = <<0, 1, 2>> /\ shownVIN' = _VIN'
<1> DEFINE V0 == <<>>
           V1 == <<0>>
           V2 == <<0, 1>>
           V3 == <<0, 1, 2>>
<1>1. /\ Append(V0, 0) = V1 /\ Append(V1, 1) = V2 /\ Append(V2, 2) = V3
      /\ Len(V0) = 0 /\ Len(V1) = 1 /\ Len(V2) = 2 /\ Len(V3) = 3
  BY PartsAppend
<1>2. VINs = {V0, V1, V2, V3} /\ _VIN \in VINs /\ p \in {0, 1, 2}
  BY PartsAre DEF VINs, TypeOK
<1>3. Waits = Len(_VIN) /\ Waits' = Len(_VIN') /\ (_VIN # V0 => stage = Len(_VIN))
  BY DEF Waits, StageFollows
<1>4. /\ stage' = IF p = Stage THEN Stage + 1 ELSE Stage
      /\ _VIN' = IF p = Stage THEN Append(_VIN, p) ELSE _VIN
      /\ shownVIN' = IF p = Stage /\ p = 2 THEN _VIN' ELSE shownVIN
      /\ Stage = IF _VIN = V0 THEN 0 ELSE stage
  BY DEF TakePart, Stage
<1> HIDE DEF V0, V1, V2, V3
<1>5. /\ Stage = Waits /\ Waits \in 0 .. 3
      /\ Waits = 0 => _VIN = V0
      /\ Waits = 1 => _VIN = V1
      /\ Waits = 2 => _VIN = V2
  BY <1>1, <1>2, <1>3, <1>4
<1>6. CASE p # Waits
  BY <1>2, <1>3, <1>4, <1>5, <1>6
<1>7. CASE p = Waits
  <2>1. _VIN' = Append(_VIN, p) /\ stage' = Waits + 1
    BY <1>4, <1>5, <1>7
  <2>2. \/ p = 0 /\ _VIN' = V1
        \/ p = 1 /\ _VIN' = V2
        \/ p = 2 /\ _VIN' = V3
    BY <1>1, <1>2, <1>5, <1>7, <2>1
  <2>3. _VIN' \in VINs /\ Len(_VIN') = Waits + 1
    BY <1>1, <1>2, <1>7, <2>2
  <2>4. _VIN' # _VIN /\ Waits' = Waits + 1
    <3>1. Len(_VIN') # Len(_VIN)
      BY <1>3, <1>5, <2>3
    <3>2. QED
      BY <1>3, <2>3, <3>1
  <2>5. p = 2 => _VIN' = <<0, 1, 2>> /\ shownVIN' = _VIN'
    BY <1>4, <1>5, <1>7, <2>2 DEF V3
  <2>6. stage' \in 0 .. 3 /\ stage' = Len(_VIN')
    BY <1>2, <1>7, <2>1, <2>3
  <2>7. p # 2 => UNCHANGED shownVIN
    BY <1>4
  <2>8. QED
    BY <1>5, <1>7, <2>3, <2>4, <2>5, <2>6, <2>7
<1>8. QED
  BY <1>6, <1>7

\* What Waits tells of a VIN.
LEMMA WaitsTell ==
  ASSUME TypeOK
  PROVE  /\ Waits \in 0 .. 3
         /\ (Waits = 0) <=> (_VIN = <<>>)
         /\ (Waits = 3) <=> (_VIN = <<0, 1, 2>>)
<1> DEFINE V0 == <<>>
           V1 == <<0>>
           V2 == <<0, 1>>
           V3 == <<0, 1, 2>>
<1>1. _VIN \in {V0, V1, V2, V3} /\ Waits = Len(_VIN)
  BY DEF TypeOK, VINs, Waits
<1>2. Len(V0) = 0 /\ Len(V1) = 1 /\ Len(V2) = 2 /\ Len(V3) = 3
  BY PartsAppend
<1> HIDE DEF V0, V1, V2, V3
<1>3. \/ _VIN = V0 /\ Waits = 0
      \/ _VIN = V1 /\ Waits = 1
      \/ _VIN = V2 /\ Waits = 2
      \/ _VIN = V3 /\ Waits = 3
  BY <1>1, <1>2
<1>4. V0 # V1 /\ V0 # V2 /\ V0 # V3 /\ V1 # V3 /\ V2 # V3
  BY <1>2
<1>5. QED
  BY <1>3, <1>4 DEF V0, V3

LEMMA WholeIsNotNone == <<0, 1, 2>> \in Seq(Parts) /\ <<0, 1, 2>> # None
<1>1. 0 \in Parts /\ 1 \in Parts /\ 2 \in Parts
  BY PartsAre
<1>2. <<0, 1, 2>> \in Seq(Parts)
  BY <1>1
<1>3. QED
  BY <1>2, NoneAssumption

\* A frame of the car that is saved.
LEMMA SavedFrame ==
  ASSUME TypeOK, FrameInv, NEW p \in Parts, sent' = p, p = Next3(sent), SaveFrame(p),
         UNCHANGED clearing
  PROVE  /\ FrameInv'
         /\ _VIN' \in VINs /\ stage' \in 0 .. 3 /\ stored' \in Parts
         /\ shownVIN' \in Seq(Parts) \cup {None} /\ early' \in BOOLEAN /\ inRow' \in 0 .. 5
<1>1. /\ sent \in 0 .. 2 /\ p \in 0 .. 2 /\ inRow \in 0 .. 5 /\ early \in BOOLEAN
      /\ clearing \in {"no", "reset", "frames"} /\ p # None
      /\ p = IF sent = 2 THEN 0 ELSE sent + 1
  BY PartsAre, Next3Is, NoneAssumption DEF TypeOK
<1>2. /\ stored' = p /\ sent' = p /\ clearing' = clearing
      /\ inRow' = IF inRow + 1 < 5 THEN inRow + 1 ELSE 5
      /\ early' = (early \/ (clearing # "no" /\ _VIN' # _VIN))
  BY DEF SaveFrame, Least
<1>3. /\ Waits \in 0 .. 3
      /\ _VIN' \in VINs /\ stage' \in 0 .. 3
      /\ _VIN' # <<>> => stage' = Len(_VIN')
      /\ p = Waits /\ stored # p => Waits' = Waits + 1 /\ _VIN' # _VIN
      /\ p # Waits \/ stored = p => UNCHANGED <<_VIN, shownVIN>> /\ Waits' = Waits
      /\ p = Waits /\ stored # p /\ p # 2 => UNCHANGED shownVIN
      /\ p = Waits /\ stored # p /\ p = 2 => _VIN' = <<0, 1, 2>> /\ shownVIN' = _VIN'
  <2>1. CASE stored = p
    <3>1. UNCHANGED <<_VIN, stage, shownVIN>>
      BY <2>1 DEF SaveFrame
    <3>2. QED
      BY <2>1, <3>1, WaitsTell DEF TypeOK, Waits, FrameInv, StageFollows
  <2>2. CASE stored # p
    <3>1. TakePart(p)
      BY <2>2 DEF SaveFrame
    <3>2. QED
      BY <2>2, <3>1, PartTaken DEF FrameInv, Waits
  <2>3. QED
    BY <2>1, <2>2
<1>4. VINIsWhole' /\ shownVIN' \in Seq(Parts) \cup {None}
  BY <1>1, <1>3, WholeIsNotNone DEF VINIsWhole, FrameInv, TypeOK
<1>5. ClearEmpties'
  BY <1>2 DEF FrameInv, ClearEmpties
<1>6. WaitedIsNew'
  BY <1>1, <1>2, <1>3 DEF FrameInv, WaitedIsNew
<1>7. ClearProgress'
  <2>1. SUFFICES ASSUME clearing # "no", ~early', inRow' > 0
                 PROVE  inRow' <= sent' + 1
    BY <1>2 DEF ClearProgress
  <2>2. ~early /\ _VIN = <<>> /\ Waits = 0 /\ ~ (p = 0 /\ stored # 0)
    BY <1>1, <1>2, <1>3, <2>1, WaitsTell DEF FrameInv, ClearEmpties
  <2>3. inRow > 0 => stored \in {sent, None} /\ inRow <= sent + 1
    BY <2>1, <2>2 DEF FrameInv, ClearProgress
  <2>4. CASE inRow = 0
    BY <1>1, <1>2, <2>4
  <2>5. CASE inRow > 0
    BY <1>1, <1>2, <2>2, <2>3, <2>5, NoneAssumption, PartsAre
  <2>6. QED
    BY <1>1, <2>4, <2>5
<1>8. Progress'
  <2>1. SUFFICES ASSUME clearing = "no", ~early', shownVIN' = None
                 PROVE  Waits' < 3 /\ inRow' + ToCome' <= 5
    BY <1>2 DEF Progress
  <2>2. ~early /\ ~ (p = Waits /\ stored # p /\ p = 2)
    BY <1>2, <1>3, <2>1, WholeIsNotNone
  <2>3. shownVIN = None /\ ~ (stored = p /\ p = Waits)
    BY <1>1, <1>3, <2>1, <2>2 DEF FrameInv, WaitedIsNew
  <2>4. Waits < 3 /\ inRow + ToCome <= 5
    BY <2>1, <2>2, <2>3 DEF FrameInv, Progress
  <2>5. Waits' = IF p = Waits THEN Waits + 1 ELSE Waits
    BY <1>3, <2>3
  <2>6. ToCome' = IF p < Waits' THEN 2 - p ELSE 5 - p
    BY <1>2 DEF ToCome
  <2>7. ToCome = IF sent < Waits THEN 2 - sent ELSE 5 - sent
    BY DEF ToCome
  <2>8. QED
    BY <1>1, <1>2, <1>3, <2>2, <2>3, <2>4, <2>5, <2>6, <2>7
<1>9. CompleteIsShown'
  <2>1. SUFFICES ASSUME Len(_VIN') = 3, ~early' PROVE shownVIN' = _VIN'
    BY DEF CompleteIsShown
  <2>2. CASE p = Waits /\ stored # p
    <3>1. Waits' = 3
      BY <2>1 DEF Waits
    <3>2. p = 2
      BY <1>3, <2>2, <3>1
    <3>3. QED
      BY <1>3, <2>2, <3>2
  <2>3. CASE p # Waits \/ stored = p
    BY <1>2, <1>3, <2>1, <2>3 DEF FrameInv, CompleteIsShown
  <2>4. QED
    BY <2>2, <2>3
<1>10. QED
  BY <1>1, <1>2, <1>3, <1>4, <1>5, <1>6, <1>7, <1>8, <1>9 DEF FrameInv, StageFollows

\* A frame of the car that is lost.
LEMMA LostFrame ==
  ASSUME TypeOK, FrameInv, sent' = Next3(sent), inRow' = 0,
         UNCHANGED <<stored, _VIN, stage, shownVIN, early, clearing>>
  PROVE  FrameInv'
<1>1. Waits' = Waits /\ sent' \in 0 .. 2
  BY PartsAre, Next3Is DEF Waits, TypeOK
<1>2. Progress'
  BY <1>1, WaitsTell DEF FrameInv, Progress, ToCome
<1>3. /\ StageFollows' /\ VINIsWhole' /\ ClearEmpties' /\ CompleteIsShown'
      /\ WaitedIsNew' /\ ClearProgress'
  BY <1>1 DEF FrameInv, StageFollows, VINIsWhole, ClearEmpties, CompleteIsShown, WaitedIsNew,
              ClearProgress
<1>4. QED
  BY <1>2, <1>3 DEF FrameInv

LEMMA SendKeeps == ASSUME VINInv, SendPart PROVE VINInv'
<1> USE DEF VINInv
<1>1. UNCHANGED <<clearing, radio, radioVIN, lastPart, steady>>
  BY DEF SendPart, theRadio
<1>2. RadioFollows' /\ SteadyVINIsWhole'
  BY <1>1 DEF RadioFollows, SteadyVINIsWhole
<1>3. sent' = Next3(sent) /\ sent' \in Parts
  BY PartsAre, Next3Is DEF SendPart, TypeOK
<1>4. CASE SaveFrame(sent')
  BY <1>1, <1>2, <1>3, <1>4, SavedFrame DEF TypeOK
<1>5. CASE inRow' = 0 /\ UNCHANGED <<stored, _VIN, stage, shownVIN, early>>
  BY <1>1, <1>2, <1>3, <1>5, LostFrame DEF TypeOK
<1>6. QED
  BY <1>4, <1>5 DEF SendPart

-----------------------------------------------------------------------------
(* The clears and the radio.                                               *)

\* What a clear does to the frames' VIN.
LEMMA ResetKeeps == ASSUME VINInv, Reset PROVE VINInv'
<1>1. /\ clearing = "no" /\ clearing' = "reset" /\ _VIN' = <<>> /\ early' = FALSE /\ inRow' = 0
      /\ UNCHANGED <<sent, stored, stage, shownVIN, radio, radioVIN, lastPart, steady>>
  BY DEF Reset, theRadio
<1>2. TypeOK'
  <2>1. _VIN' \in VINs
    BY <1>1 DEF VINs
  <2>2. early' \in BOOLEAN /\ clearing' \in {"no", "reset", "frames"}
    BY <1>1, Zenon
  <2>3. inRow' \in 0 .. 5
    BY <1>1
  <2>4. /\ sent' \in Parts /\ stored' \in Parts \cup {None} /\ stage' \in 0 .. 3
        /\ shownVIN' \in Seq(Parts) \cup {None}
    BY <1>1 DEF VINInv, TypeOK
  <2>5. /\ radio' \in [stage : Parts, VIN : [Parts -> {"zeroed", "part", "joined"}]]
        /\ radioVIN' \in [whole : BOOLEAN, due : BOOLEAN] \cup {None}
        /\ lastPart' \in Parts /\ steady' \in 0 .. 3
    BY <1>1 DEF VINInv, TypeOK
  <2>6. QED
    BY <2>1, <2>2, <2>3, <2>4, <2>5 DEF TypeOK
<1>3. FrameInv'
  BY <1>1, PartsAppend
     DEF VINInv, FrameInv, StageFollows, VINIsWhole, ClearEmpties, CompleteIsShown, WaitedIsNew,
         Progress, ClearProgress
<1>4. QED
  BY <1>1, <1>2, <1>3 DEF VINInv, RadioFollows, SteadyVINIsWhole

LEMMA ClearFramesKeeps == ASSUME VINInv, ClearFrames PROVE VINInv'
<1>1. /\ clearing = "reset" /\ clearing' = "frames" /\ stored' = None
      /\ UNCHANGED <<sent, _VIN, stage, shownVIN, early, inRow, radio, radioVIN, lastPart, steady>>
  BY DEF ClearFrames, theRadio
<1>2. TypeOK'
  BY <1>1 DEF VINInv, TypeOK
<1>3. WaitedIsNew'
  BY <1>1 DEF WaitedIsNew
<1>4. FrameInv'
  BY <1>1, <1>3
     DEF VINInv, FrameInv, StageFollows, VINIsWhole, ClearEmpties, CompleteIsShown,
         Progress, ClearProgress
<1>5. QED
  BY <1>1, <1>2, <1>4 DEF VINInv, RadioFollows, SteadyVINIsWhole

LEMMA ClearValuesKeeps == ASSUME VINInv, ClearValues PROVE VINInv'
<1>1. /\ clearing = "frames" /\ clearing' = "no" /\ shownVIN' = None /\ radioVIN' = None
      /\ inRow' = 0 /\ UNCHANGED <<sent, stored, _VIN, stage, early, radio, lastPart, steady>>
  BY DEF ClearValues
<1>2. TypeOK' /\ Waits' = Waits
  BY <1>1 DEF VINInv, TypeOK, Waits
<1>3. Progress'
  <2>1. SUFFICES ASSUME ~early PROVE Waits < 3 /\ ToCome' <= 5
    BY <1>1, <1>2, PartsAre DEF Progress, VINInv, TypeOK, ToCome
  <2>2. Waits = 0
    BY <1>1, <2>1, PartsAppend DEF VINInv, FrameInv, ClearEmpties, Waits
  <2>3. QED
    BY <1>1, <1>2, <2>2, PartsAre DEF ToCome, VINInv, TypeOK
<1>4. FrameInv'
  BY <1>1, <1>2, <1>3, PartsAppend
     DEF VINInv, FrameInv, StageFollows, VINIsWhole, ClearEmpties, CompleteIsShown, WaitedIsNew,
         ClearProgress
<1>5. QED
  BY <1>1, <1>2, <1>4 DEF VINInv, RadioFollows, SteadyVINIsWhole

\* An answer of the radio.
LEMMA RadioKeeps ==
  ASSUME VINInv, NEW p \in Parts, NEW how \in {"part", "joined"}, RadioAnswer(p, how)
  PROVE  VINInv'
<1> DEFINE VIN == [(IF radio.stage = 0 THEN Zeroed ELSE radio.VIN) EXCEPT ![p] = how]
           n   == radio.stage + 1
           inOrder == how = "part" /\ p = Next3(lastPart)
<1>1. /\ lastPart' = p
      /\ steady' = IF how # "part" THEN 0
                   ELSE IF p = Next3(lastPart) THEN Least(steady + 1, 3) ELSE 1
      /\ radio' = [stage |-> n % 3, VIN |-> VIN]
      /\ radioVIN' = IF n = 3 THEN [whole |-> VIN = AllHere, due |-> steady' = 3] ELSE radioVIN
      /\ UNCHANGED <<sent, stored, _VIN, stage, shownVIN, early, inRow, clearing>>
  BY DEF RadioAnswer, jeep
<1>2. /\ radio.stage \in 0 .. 2 /\ steady \in 0 .. 3 /\ lastPart \in Parts
      /\ radio.VIN \in [Parts -> {"zeroed", "part", "joined"}]
      /\ Zeroed \in [Parts -> {"zeroed", "part", "joined"}]
  BY PartsAre DEF VINInv, TypeOK, Zeroed
<1>3. /\ VIN \in [Parts -> {"zeroed", "part", "joined"}] /\ VIN[p] = how
      /\ \A q \in Parts : radio.stage > 0 /\ q # p => VIN[q] = radio.VIN[q]
  BY <1>2
<1>4. steady' \in 0 .. 3 /\ steady' = IF how # "part" THEN 0
                                      ELSE IF p # Next3(lastPart) THEN 1
                                      ELSE IF steady < 3 THEN steady + 1 ELSE 3
  BY <1>1, <1>2 DEF Least
<1>5. n % 3 \in Parts /\ n % 3 = IF n = 3 THEN 0 ELSE n
  BY <1>2, PartsAre
<1>6. radio'.stage = n % 3 /\ radio'.VIN = VIN
  BY <1>1
<1> HIDE DEF VIN
<1>7. TypeOK'
  BY <1>1, <1>3, <1>4, <1>5 DEF VINInv, TypeOK
<1>8. FrameInv'
  BY <1>1 DEF VINInv, FrameInv, StageFollows, VINIsWhole, ClearEmpties, CompleteIsShown,
              WaitedIsNew, Waits, Progress, ToCome, ClearProgress
<1>9. \A q \in Parts : radio.stage > 0 /\ Next3(q) = p /\ steady' > 1 => VIN[q] = "part"
  <2>1. SUFFICES ASSUME NEW q \in Parts, radio.stage > 0, Next3(q) = p, steady' > 1
                 PROVE  VIN[q] = "part"
    OBVIOUS
  <2>2. p = Next3(lastPart) /\ steady > 0
    BY <1>2, <1>4, <2>1
  <2>3. q = lastPart /\ q # p
    BY <1>2, <2>1, <2>2, PartsAre, Next3Is
  <2>4. QED
    BY <1>2, <1>3, <2>1, <2>2, <2>3 DEF VINInv, RadioFollows
<1>10. RadioFollows'
  BY <1>1, <1>2, <1>3, <1>4, <1>5, <1>6, <1>9 DEF RadioFollows
<1>11. n = 3 /\ steady' = 3 => VIN = AllHere
  <2>1. SUFFICES ASSUME n = 3, steady' = 3 PROVE \A q \in Parts : VIN[q] = "part"
    BY <1>3 DEF AllHere
  <2>2. how = "part" /\ p = Next3(lastPart) /\ steady > 1 /\ radio.stage = 2
    BY <1>2, <1>4, <2>1
  <2>3. VIN[p] = "part" /\ VIN[lastPart] = "part" /\ lastPart # p
    BY <1>2, <1>3, <1>9, <2>1, <2>2, PartsAre, Next3Is
  <2>4. \A q \in Parts : Next3(q) = lastPart => radio.VIN[q] = "part" /\ q # p
    BY <1>2, <2>2, PartsAre, Next3Is DEF VINInv, RadioFollows
  <2>5. \A q \in Parts : q = p \/ q = lastPart \/ Next3(q) = lastPart
    BY <1>2, <2>2, PartsAre, Next3Is
  <2>6. QED
    BY <1>3, <2>2, <2>3, <2>4, <2>5
<1>12. SteadyVINIsWhole'
  BY <1>1, <1>11 DEF VINInv, SteadyVINIsWhole
<1>13. QED
  BY <1>7, <1>8, <1>10, <1>12 DEF VINInv

LEMMA StutterKeeps == ASSUME VINInv, UNCHANGED vars PROVE VINInv'
<1>1. UNCHANGED <<sent, stored, _VIN, stage, shownVIN, early, inRow, clearing, radio, radioVIN,
                  lastPart, steady>>
  BY DEF vars, jeep, theRadio
<1>2. TypeOK' /\ Waits' = Waits
  BY <1>1 DEF VINInv, TypeOK, Waits
<1>3. FrameInv' /\ RadioFollows' /\ SteadyVINIsWhole'
  BY <1>1, <1>2 DEF VINInv, FrameInv, StageFollows, VINIsWhole, ClearEmpties, CompleteIsShown,
                    WaitedIsNew, Progress, ToCome, ClearProgress, RadioFollows, SteadyVINIsWhole
<1>4. QED
  BY <1>2, <1>3 DEF VINInv

LEMMA VINInvariant == Spec => []VINInv
<1>1. ASSUME VINInv, [Next]_vars PROVE VINInv'
  BY <1>1, SendKeeps, RadioKeeps, ResetKeeps, ClearFramesKeeps, ClearValuesKeeps, StutterKeeps
     DEF Next
<1>2. QED
  BY <1>1, InitHolds, PTL DEF Spec

-----------------------------------------------------------------------------
(* The theorems.                                                           *)

\* The parts in _VIN are the first ones in their order, and no stage leaves its
\* range.
THEOREM TypeCorrect == Spec => []TypeOK
BY VINInvariant, PTL DEF VINInv

\* A VIN shown is whole, whatever frames were lost or repeated and whatever was
\* cleared between them.
THEOREM ShownIsWhole == Spec => []VINIsWhole
BY VINInvariant, PTL DEF VINInv, FrameInv

\* A VIN that is complete, and never updated again, is shown, unless a part of it
\* came during a clear.
THEOREM CompleteShown == Spec => []CompleteIsShown
BY VINInvariant, PTL DEF VINInv, FrameInv

\* Three answers of the radio in their order give a whole VIN.
THEOREM SteadyIsWhole == Spec => []SteadyVINIsWhole
BY VINInvariant, PTL DEF VINInv

\* Five frames in a row are enough for a VIN, with the same exception.
THEOREM FiveEnough == Spec => []FiveFramesAreEnough
<1>1. ASSUME VINInv PROVE FiveFramesAreEnough
  <2>1. SUFFICES ASSUME inRow = 5, ~early, shownVIN = None PROVE FALSE
    BY DEF FiveFramesAreEnough
  <2>2. sent \in 0 .. 2 /\ Waits \in 0 .. 3
    BY <1>1, WaitsTell, PartsAre DEF VINInv, TypeOK
  <2>3. CASE clearing = "no"
    BY <1>1, <2>1, <2>2, <2>3 DEF VINInv, FrameInv, Progress, ToCome
  <2>4. CASE clearing # "no"
    BY <1>1, <2>1, <2>2, <2>4 DEF VINInv, FrameInv, ClearProgress
  <2>5. QED
    BY <2>3, <2>4
<1>2. QED
  BY <1>1, VINInvariant, PTL
=============================================================================
