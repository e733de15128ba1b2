----------------------------- MODULE MCCommand -----------------------------
(* FunctionblockCommand for TLC: the constants are in the configurations. *)
EXTENDS FunctionblockCommand
=============================================================================
