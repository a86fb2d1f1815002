------------------------------ MODULE MCMirror ------------------------------
(* Mirror for TLC. *)
EXTENDS Mirror

\* Outputs that wrap, scroll, overwrite a line and skip cells, on panels of two
\* rows of two cells.
MCTexts ==
  {<<"a", "b", "c", "LF", "d", "CR", "e", "f", "LF", "g">>,
   <<"LF", "a", "TAB", "ctl", "b", "c", "CR", "LF", "d">>}

Reg(width, height, stride) ==
  [img |-> [width |-> width, height |-> height], stride |-> stride]

\* 6 x 6 pixels, which is also the default: two rows of two cells; one column
\* and a wider stride; then panels with no row, with no column, and ones that
\* are refused: no room, too many cells, stride too short or odd, too large.
MCDefault == [width |-> 6, height |-> 6, stride |-> 24]
MCRegisters ==
  {Reg(0, 0, 0), Reg(5, 7, 24), Reg(6, 3, 0), Reg(3, 6, 0),
   Reg(2, 6, 0), Reg(8, 6, 0), Reg(6, 6, 20), Reg(6, 6, 26), Reg(6, 7, 28)}
=============================================================================
