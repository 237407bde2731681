----------------------------- MODULE MCSession -----------------------------
(* Instances of Session for TLC. *)
EXTENDS Session, TLC

ReadModeQuitPause == {"read", "mode", "^X", "^S", "^Q"}
ReadAndQuit == {"read", "^X"}
ReadSniffStop == {"read", "sniff", "stop"}
AnyBoolean == BOOLEAN
OnlyFalse == {FALSE}

Threads == Permutations(Readers) \cup Permutations(Dumpers)
=============================================================================
