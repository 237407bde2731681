--------------------------- MODULE MCFrameDumper ---------------------------
(* Instances of FrameDumper for TLC. *)
EXTENDS FrameDumper, TLC

CONSTANTS can0, vcan, jeep, id, id2, x, y, empty, speed

Symmetry == Permutations(Payloads) \cup Permutations(CanIds)
OneProtocol == {<<can0, jeep>>}
MCKeyOf == [pc \in Protocols \X CanIds |-> speed]
NoKeyOf == [pc \in Protocols \X CanIds |-> None]
=============================================================================
