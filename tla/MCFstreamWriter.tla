-------------------------- MODULE MCFstreamWriter --------------------------
(* Instances of FstreamWriter for TLC. *)
EXTENDS FstreamWriter

(* Bits for bytes, see MCFstreamReader: two of them hold the lengths up to *)
(* 3, as two bytes of the program hold those up to 65535.                  *)
Bits == 2
MagicBits == <<1, 0>>
ShortPayloads == {<<>>, <<1>>, <<1, 0, 1>>}
LongPayloads == ShortPayloads \cup {<<1, 0, 1, 0>>}
=============================================================================
