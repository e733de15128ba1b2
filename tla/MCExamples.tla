----------------------------- MODULE MCExamples -----------------------------
(* Examples for TLC: the constants are in the configuration. *)
EXTENDS Examples
=============================================================================
