------------------------------ MODULE MCClient ------------------------------
(* FunctionblockClient for TLC: the constants are in the configuration. *)
EXTENDS FunctionblockClient
=============================================================================
