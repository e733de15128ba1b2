---------------------------- MODULE MCLifecycle ----------------------------
(* ClientLifecycle for TLC: the constants are in the configuration. *)
EXTENDS ClientLifecycle
=============================================================================
