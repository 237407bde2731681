---------------------------- MODULE Wranger2010 ----------------------------
(***************************************************************************)
(* The two ways Wranger2010 puts a VIN together from three parts: from the *)
(* frames of CAN id 0x219, one part in each, over and over, which saveFrame *)
(* hands on when they differ from the last one stored; and from the        *)
(* radio's answers to 21 44, which go to a frame decoder one and all.  The *)
(* two share the console's clears, which take no lock.                     *)
(*                                                                         *)
(* An answer of the radio is one step here: it is reassembled from three   *)
(* frames like a response in OBD2, or gets lost, or is joined from two     *)
(* answers when enough frames in between are lost.                         *)
(***************************************************************************)
EXTENDS Integers, Sequences

CONSTANT None

Parts == 0 .. 2
ASSUME NoneAssumption == None \notin Parts /\ None \notin Seq(Parts)

VARIABLES
  sent,        \* the car: the part its last 0x219 frame had
  stored,      \* FrameDB: the part in the last 0x219 frame stored
  _VIN, stage, \* _VIN, and the static stage beside it
  shownVIN,    \* FrameDB: the value of JK_VIN
  clearing,    \* the console's place in clearFrames()
  radio,       \* the radio's static stage and VIN
  radioVIN,    \* FrameDB: the value of "JKR VIN"
  early,       \* history: a part in _VIN came during a clear
  inRow,       \* history: 0x219 frames that came since the last one lost or clear
  lastPart,    \* history: the part of the radio's last answer
  steady       \* history: answers that came in the order of their parts, up to 3

jeep == <<sent, stored, _VIN, stage, shownVIN, early, inRow>>
theRadio == <<radio, radioVIN, lastPart, steady>>
vars == <<jeep, clearing, theRadio>>

-----------------------------------------------------------------------------
Next3(p)   == (p + 1) % 3
Least(a, b) == IF a < b THEN a ELSE b

\* What a place in the radio's VIN holds: the part of that place, or one joined
\* from two answers.
Zeroed  == [p \in Parts |-> "zeroed"]
AllHere == [p \in Parts |-> "part"]

Init ==
  /\ sent = 2 /\ stored = None
  /\ _VIN = <<>> /\ stage = 0 /\ shownVIN = None
  /\ clearing = "no"
  /\ radio = [stage |-> 0, VIN |-> Zeroed] /\ radioVIN = None
  /\ early = FALSE /\ inRow = 0 /\ lastPart = 2 /\ steady = 0

-----------------------------------------------------------------------------
(* Frames of 0x219.                                                        *)

\* Mutant of Stage: the static stage outlives reset().
StageStays == stage

\* "if(_VIN.empty()) stage = 0"
Stage == IF _VIN = <<>> THEN 0 ELSE stage

\* processFrame: the part is appended if it is the one waited for, and the value
\* updated with the last one.  There is no part 3, so the fourth stage stays.
TakePart(p) ==
  /\ stage' = IF p = Stage THEN Stage + 1 ELSE Stage
  /\ _VIN' = IF p = Stage THEN Append(_VIN, p) ELSE _VIN
  /\ shownVIN' = IF p = Stage /\ p = 2 THEN _VIN' ELSE shownVIN

\* saveFrame hands on what differs from the frame stored.
SaveFrame(p) ==
  /\ stored' = p
  /\ IF stored = p THEN UNCHANGED <<_VIN, stage, shownVIN>> ELSE TakePart(p)
  /\ inRow' = Least(inRow + 1, 5)
  /\ early' = (early \/ (clearing # "no" /\ _VIN' # _VIN))

SendPart ==
  /\ sent' = Next3(sent)
  /\ \/ SaveFrame(sent')
     \/ inRow' = 0 /\ UNCHANGED <<stored, _VIN, stage, shownVIN, early>>   \* lost
  /\ UNCHANGED <<clearing, theRadio>>

-----------------------------------------------------------------------------
(* The radio's answers.                                                    *)

\* Mutants of RadioAnswer: the stage is not reset; two answers are enough.
RadioAnswerOn(p, how) ==
  LET VIN == [(IF radio.stage = 0 THEN Zeroed ELSE radio.VIN) EXCEPT ![p] = how]
      n   == radio.stage + 1
  IN
  /\ lastPart' = p
  /\ steady' = IF how # "part" THEN 0
               ELSE IF p = Next3(lastPart) THEN Least(steady + 1, 3) ELSE 1
  /\ radio' = [stage |-> n, VIN |-> VIN]
  /\ radioVIN' = IF n = 3 THEN [whole |-> VIN = AllHere, due |-> steady' = 3] ELSE radioVIN
  /\ UNCHANGED <<jeep, clearing>>
RadioAnswerTwo(p, how) ==
  LET VIN == [(IF radio.stage = 0 THEN Zeroed ELSE radio.VIN) EXCEPT ![p] = how]
      n   == radio.stage + 1
  IN
  /\ lastPart' = p
  /\ steady' = IF how # "part" THEN 0
               ELSE IF p = Next3(lastPart) THEN Least(steady + 1, 3) ELSE 1
  /\ radio' = [stage |-> n % 2, VIN |-> VIN]
  /\ radioVIN' = IF n = 2 THEN [whole |-> VIN = AllHere, due |-> steady' = 3] ELSE radioVIN
  /\ UNCHANGED <<jeep, clearing>>

\* processPrivateODB: any answer counts as one of three.
RadioAnswer(p, how) ==
  LET VIN == [(IF radio.stage = 0 THEN Zeroed ELSE radio.VIN) EXCEPT ![p] = how]
      n   == radio.stage + 1
  IN
  /\ lastPart' = p
  /\ steady' = IF how # "part" THEN 0
               ELSE IF p = Next3(lastPart) THEN Least(steady + 1, 3) ELSE 1
  /\ radio' = [stage |-> n % 3, VIN |-> VIN]
  /\ radioVIN' = IF n = 3 THEN [whole |-> VIN = AllHere, due |-> steady' = 3] ELSE radioVIN
  /\ UNCHANGED <<jeep, clearing>>

-----------------------------------------------------------------------------
(* clearFrames(): the protocols' reset(), the frames, the values.          *)

\* Mutant of Reset: the stage is cleared for the string.
ResetStage ==
  /\ clearing = "no" /\ clearing' = "reset"
  /\ stage' = 0 /\ early' = FALSE /\ inRow' = 0
  /\ UNCHANGED <<sent, stored, _VIN, shownVIN, theRadio>>

Reset ==
  /\ clearing = "no" /\ clearing' = "reset"
  /\ _VIN' = <<>> /\ early' = FALSE /\ inRow' = 0
  /\ UNCHANGED <<sent, stored, stage, shownVIN, theRadio>>

ClearFrames ==
  /\ clearing = "reset" /\ clearing' = "frames"
  /\ stored' = None
  /\ UNCHANGED <<sent, _VIN, stage, shownVIN, early, inRow, theRadio>>

ClearValues ==
  /\ clearing = "frames" /\ clearing' = "no"
  /\ shownVIN' = None /\ radioVIN' = None
  /\ inRow' = 0
  /\ UNCHANGED <<sent, stored, _VIN, stage, early, radio, lastPart, steady>>

Next ==
  \/ SendPart
  \/ \E p \in Parts, how \in {"part", "joined"} : RadioAnswer(p, how)
  \/ Reset \/ ClearFrames \/ ClearValues

Spec == Init /\ [][Next]_vars

-----------------------------------------------------------------------------
(* Properties.                                                             *)

VINs == {<<>>, <<0>>, <<0, 1>>, <<0, 1, 2>>}

\* What is in _VIN are the first parts in their order, and the stages stay in
\* range.
TypeOK ==
  /\ sent \in Parts /\ stored \in Parts \cup {None}
  /\ _VIN \in VINs /\ stage \in 0 .. 3
  /\ clearing \in {"no", "reset", "frames"}
  /\ radio \in [stage : Parts, VIN : [Parts -> {"zeroed", "part", "joined"}]]
  /\ radioVIN \in [whole : BOOLEAN, due : BOOLEAN] \cup {None}
  /\ shownVIN \in Seq(Parts) \cup {None}
  /\ early \in BOOLEAN /\ inRow \in 0 .. 5 /\ lastPart \in Parts /\ steady \in 0 .. 3

\* A VIN shown has all its parts in their order, whatever frames were lost or not
\* handed on and wherever a clear came between them.
VINIsWhole == shownVIN # None => shownVIN = <<0, 1, 2>>

\* "once we get it stop updating": a VIN that is complete, and so not updated any
\* more, is shown, unless a clear was still to empty the values when it came.
CompleteIsShown == Len(_VIN) = 3 /\ ~early => shownVIN = _VIN

\* Five frames in a row bring the VIN, wherever they start and whatever was lost
\* or cleared before, with the same exception.
FiveFramesAreEnough == inRow = 5 /\ ~early => shownVIN # None

\* Three answers of the radio in the order of their parts put things right: a VIN
\* reported with the last of them is whole, though others before came repeated,
\* lost or joined, and clears left the static stage alone.
SteadyVINIsWhole == radioVIN # None /\ radioVIN.due => radioVIN.whole
=============================================================================
