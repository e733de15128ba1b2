----------------------------- MODULE MCStreamQ -----------------------------
(* StreamQ and Deadline for TLC: the constants are in the configuration. *)
EXTENDS Deadline
=============================================================================
