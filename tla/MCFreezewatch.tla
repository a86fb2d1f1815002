--------------------------- MODULE MCFreezewatch ---------------------------
(* Freezewatch for TLC. *)
EXTENDS Freezewatch
=============================================================================
