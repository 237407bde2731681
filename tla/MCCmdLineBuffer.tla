-------------------------- MODULE MCCmdLineBuffer --------------------------
(* An instance of CmdLineBuffer for TLC: four commands, of which two differ in *)
(* the middle and two in their last character, and a history file with none,   *)
(* one or two of their lines.                                                  *)
EXTENDS CmdLineBuffer

MCNames   == << <<"b", "a", "a", "b">>, <<"b", "a", "b">>, <<"h", "a">>, <<"h", "b">> >>
MCHistory == <<"h", "a">>
MCFiles   == {<<>>, << <<"h", "b">> >>, << <<"b", "a", "b">>, <<"h", "b">> >>}
============================================================================
