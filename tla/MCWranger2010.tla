--------------------------- MODULE MCWranger2010 ---------------------------
(* An instance of Wranger2010 for TLC. *)
EXTENDS Wranger2010
=============================================================================
