---------------------------- MODULE MCCmdChannel ----------------------------
(* CmdChannel for TLC. *)
EXTENDS CmdChannel
=============================================================================
