------------------------------- MODULE Mirror -------------------------------
(***************************************************************************)
(* What the dumper promises of the screen, whatever its polls, refnums,    *)
(* eTags and lines are: a row is drawn only with a cell and what its source*)
(* holds at that moment, one row at a time.  A row may be erased, and the  *)
(* screen cleared.  Sources change and vanish as they like.                *)
(***************************************************************************)
CONSTANTS
  Cells,
  Contents,  \* what a source can hold
  Blank      \* nothing, which is none of them

VARIABLES source, rows

mirror == <<source, rows>>

MirrorInit == source = [c \in Cells |-> Blank] /\ DOMAIN rows = {}

\* The sources change; the screen does not.
Change == source' \in [Cells -> Contents \cup {Blank}] /\ UNCHANGED rows

\* A row takes a cell and what its source holds, which must be there.
Draw(r, c) ==
  /\ source[c] # Blank
  /\ rows' = [s \in DOMAIN rows \cup {r} |-> IF s = r THEN <<c, source[c]>> ELSE rows[s]]
  /\ UNCHANGED source

Erase(r) == rows' = [s \in DOMAIN rows \ {r} |-> rows[s]] /\ UNCHANGED source
Clear    == DOMAIN rows' = {} /\ UNCHANGED source

MirrorNext ==
  \/ Change \/ Clear
  \/ \E r \in DOMAIN rows : Erase(r)
  \/ \E r \in DOMAIN rows', c \in Cells : Draw(r, c)

MirrorSpec == MirrorInit /\ [][MirrorNext]_mirror
=============================================================================
