------------------------------ MODULE MCUartrx ------------------------------
(* Uartrx for TLC. *)
EXTENDS Uartrx
=============================================================================
