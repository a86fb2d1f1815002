----------------------------- MODULE MCHarness -----------------------------
(* Harness in every mode, one it does not know, and the regression.        *)
EXTENDS Harness

MCModes == 0 .. 8
=============================================================================
