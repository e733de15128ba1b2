-------------------------- MODULE MCFstreamReader --------------------------
(* Instances of FstreamReader for TLC. *)
EXTENDS FstreamReader

(* Bits for bytes: the length still has four, and payloads can look like   *)
(* the magic bytes or like the start of a frame.                           *)
Bits == 2
MagicBits == <<1, 0>>
SomePayloads == {<<>>, <<1>>, <<1, 0, 1>>}
=============================================================================
