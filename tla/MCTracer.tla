------------------------------ MODULE MCTracer ------------------------------
(* Tracer for TLC. *)
EXTENDS Tracer
=============================================================================
