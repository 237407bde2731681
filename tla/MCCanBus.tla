----------------------------- MODULE MCCanBus -----------------------------
(* An instance of CanBus for TLC: the two interfaces main() registers, typed  *)
(* as they are registered.                                                    *)
EXTENDS CanBus

AsTyped == [n \in Names |-> n]
MapOrder == [n \in Names |-> IF n = "can0" THEN 1 ELSE 2]
===========================================================================
