------------------------------- MODULE MCApi -------------------------------
(* FunctionblockApi for TLC: the constant is in the configuration. *)
EXTENDS FunctionblockApi
=============================================================================
