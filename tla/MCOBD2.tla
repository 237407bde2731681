------------------------------- MODULE MCOBD2 -------------------------------
(* Instances of OBD2 for TLC: an ECU of each bus, both with the same id. *)
EXTENDS OBD2, TLC

CONSTANTS can0, can1, id7E8, vin, name

SameId == [e \in Ecus |-> id7E8]
MCLength == [m \in Messages |-> IF m = vin THEN 25 ELSE 12]
=============================================================================
