---------------------------- MODULE MCTraceRing ----------------------------
(* TraceRing with the two producers of the system. *)
EXTENDS TraceRing
=============================================================================
